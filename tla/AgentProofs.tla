---------------------------- MODULE AgentProofs ----------------------------
(***************************************************************************)
(* Theorems about the coverage agent and the report of its files, for      *)
(* every class, with any versions, methods and instructions, any JVMs,     *)
(* test tasks and orders of files: a line that is reported as executed was *)
(* executed, and what was executed is reported.                            *)
(* The argument: each fold of the model goes through its sequence element  *)
(* by element (FoldLemmas), so by induction over the instructions and the  *)
(* methods the map of a class and the code of it number the probes alike   *)
(* (ProbesAndStores), the merged arrays are the union of the files' hits   *)
(* (MergedHits, MergedAll), and merged maps without a conflict have each   *)
(* probe of each file (MergedMaps).  The invariant AgentInv says that a    *)
(* hit in a JVM's array is that of a probe in its map whose line was       *)
(* executed, and that a pair of files is one JVM's array and its map.      *)
(***************************************************************************)
EXTENDS Agent, FoldLemmas, FiniteSetTheorems

-----------------------------------------------------------------------------
(* Types *)

Agents == [pc: {"running", "data", "map", "down"}, array: Array, gen: Nat,
           growing: Nat, grown: Array,
           copies: Seq([version: Versions, array: Nat]), map: Seq(Probe)]
Files == [data: Array \union {NoFile, Torn}, dataBy: Jvms \union {NoJvm},
          map: Seq(Probe) \union {NoFile, Torn}, mapBy: Jvms \union {NoJvm}]

AgentTypes ==
    /\ task \in [Jvms -> Tasks]
    /\ jvm \in [Jvms -> Agents]
    /\ files \in [Tasks -> Files]
    /\ ran \subseteq [jvm: Jvms, line: Int, kept: BOOLEAN]

-----------------------------------------------------------------------------
(* The folds of the model, step by step *)

Entries == [method: {m.name : m \in Methods}, line: Int, type: {"LINE", "BRANCH"}]
Walking == [line: Int, seen: SUBSET Nat, probes: Seq(Entries)]
Store == [at: Nat \X Nat \X Nat, index: Nat]
Emitting == [seen: SUBSET Nat, stores: Seq(Store)]
Meaning == UNION {[d -> Entries] : d \in SUBSET Nat}
Merging == [seen: Meaning, conflict: BOOLEAN]

WalkStart == [line |-> -1, seen |-> {}, probes |-> << >>]
EmitStart == [seen |-> {}, stores |-> << >>]
MergeStart == [seen |-> [i \in {} |-> i], conflict |-> FALSE]

LEMMA AddDataType ==
    ASSUME NEW array \in Array, NEW t \in Tasks, AgentTypes, files[t].data # Torn
    PROVE  AddData(array, t) \in Array
<1>1. CASE files[t].data = NoFile
  BY <1>1 DEF AddData
<1>2. CASE files[t].data \in Array
  BY <1>2 DEF AddData, Grown, Array
<1> QED BY <1>1, <1>2 DEF AgentTypes, Files

LEMMA AddProbeType ==
    ASSUME NEW st \in Merging, NEW p \in Probe
    PROVE  AddProbe(st, p) \in Merging
<1>1. p.index \in Nat /\ p.entry \in Entries /\ st.conflict \in BOOLEAN
  BY DEF Probe, Entries, Merging
<1>2. PICK d \in SUBSET Nat : st.seen \in [d -> Entries]
  BY DEF Merging, Meaning
<1>3. CASE p.index \notin d
  <2> DEFINE g == [i \in DOMAIN st.seen \union {p.index} |->
                     IF i = p.index THEN p.entry ELSE st.seen[i]]
  <2>1. g \in [d \union {p.index} -> Entries]
    BY <1>1, <1>2, <1>3
  <2>2. g \in Meaning
    BY <1>1, <2>1 DEF Meaning
  <2>3. AddProbe(st, p) = [st EXCEPT !.seen = g]
    BY <1>2, <1>3 DEF AddProbe
  <2> HIDE DEF g
  <2> QED BY <2>2, <2>3 DEF Merging
<1>4. CASE p.index \in d
  BY <1>1, <1>2, <1>4 DEF AddProbe, Merging
<1> QED BY <1>3, <1>4

\* The .omnivore files are merged one after the other.
LEMMA MergeDataSteps ==
    ASSUME AgentTypes, NEW order \in Seq(Tasks), \A t \in Tasks : files[t].data # Torn
    PROVE  \E acc : /\ acc[0] = NoArray
                    /\ \A k \in 0..Len(order) : acc[k] \in Array
                    /\ \A k \in 1..Len(order) : acc[k] = AddData(acc[k - 1], order[k])
                    /\ MergeData(order) = acc[Len(order)]
<1> DEFINE n == Len(order)
           F(f) == [s \in SUBSET (DOMAIN order) |->
                      IF s = {} THEN NoArray
                      ELSE AddData(f[s \ {Max(s)}], order[Max(s)])]
           f == CHOOSE f : f = F(f)
           G == [x \in (1..n) \X Array |-> AddData(x[2], order[x[1]])]
<1>1. n \in Nat /\ DOMAIN order = 1..n /\ (\A i \in 1..n : order[i] \in Tasks)
  OBVIOUS
<1>2. NoArray \in Array
  BY DEF NoArray, Array
<1>3. \A i \in 1..n, v \in Array : G[<<i, v>>] = AddData(v, order[i])
  OBVIOUS
<1>4. ClosedUnder(G, n, Array)
  BY <1>1, <1>3, AddDataType DEF ClosedUnder
<1>5. MergeData(order) = f[1..n]
  BY <1>1 DEF MergeData, FoldLeft, MapThenFoldSet
<1> HIDE DEF n, G
<1>6. \E g : g = F(g)
  <2>1. PICK g : Solution(g, n, Array, NoArray, G)
    BY <1>1, <1>2, <1>4, FoldExists
  <2>2. g = F(g)
    BY <1>1, <1>3, <2>1 DEF Solution
  <2> QED BY <2>2
<1>7. f = F(f)
  BY <1>6
<1> HIDE DEF f
<1>8. Folds(f, n, Array, NoArray, G)
  BY <1>1, <1>3, <1>7, MaxAmong DEF Folds
<1>9. PICK acc : Chain(acc, n, Array, NoArray, G) /\ acc[n] = f[1..n]
  BY <1>1, <1>2, <1>4, <1>8, FoldSteps
<1>10. ASSUME NEW k \in 1..n PROVE acc[k] = AddData(acc[k - 1], order[k])
  BY <1>1, <1>3, <1>9 DEF Chain
<1> QED BY <1>5, <1>9, <1>10 DEF n, Chain

\* The entries of a .probes file are added one after the other.
LEMMA AddProbesSteps ==
    ASSUME NEW st \in Merging, NEW map \in Seq(Probe)
    PROVE  \E acc : /\ acc[0] = st
                    /\ \A k \in 0..Len(map) : acc[k] \in Merging
                    /\ \A k \in 1..Len(map) : acc[k] = AddProbe(acc[k - 1], map[k])
                    /\ FoldLeft(AddProbe, st, map) = acc[Len(map)]
<1> DEFINE n == Len(map)
           F(f) == [s \in SUBSET (DOMAIN map) |->
                      IF s = {} THEN st
                      ELSE AddProbe(f[s \ {Max(s)}], map[Max(s)])]
           f == CHOOSE f : f = F(f)
           G == [x \in (1..n) \X Merging |-> AddProbe(x[2], map[x[1]])]
<1>1. n \in Nat /\ DOMAIN map = 1..n /\ (\A i \in 1..n : map[i] \in Probe)
  OBVIOUS
<1>2. st \in Merging
  OBVIOUS
<1>3. \A i \in 1..n, v \in Merging : G[<<i, v>>] = AddProbe(v, map[i])
  OBVIOUS
<1>4. ClosedUnder(G, n, Merging)
  BY <1>1, <1>3, AddProbeType DEF ClosedUnder
<1>5. FoldLeft(AddProbe, st, map) = f[1..n]
  BY <1>1 DEF FoldLeft, MapThenFoldSet
<1> HIDE DEF n, G
<1>6. \E g : g = F(g)
  <2>1. PICK g : Solution(g, n, Merging, st, G)
    BY <1>1, <1>2, <1>4, FoldExists
  <2>2. g = F(g)
    BY <1>1, <1>3, <2>1 DEF Solution
  <2> QED BY <2>2
<1>7. f = F(f)
  BY <1>6
<1> HIDE DEF f
<1>8. Folds(f, n, Merging, st, G)
  BY <1>1, <1>3, <1>7, MaxAmong DEF Folds
<1>9. PICK acc : Chain(acc, n, Merging, st, G) /\ acc[n] = f[1..n]
  BY <1>1, <1>2, <1>4, <1>8, FoldSteps
<1>10. ASSUME NEW k \in 1..n PROVE acc[k] = AddProbe(acc[k - 1], map[k])
  BY <1>1, <1>3, <1>9 DEF Chain
<1> QED BY <1>5, <1>9, <1>10 DEF n, Chain

LEMMA EmptyMeaning == [i \in {} |-> i] \in Meaning
<1>1. [i \in {} |-> i] \in [{} -> Entries]
  OBVIOUS
<1> QED BY <1>1 DEF Meaning

LEMMA AddMapType ==
    ASSUME NEW st \in Merging, NEW t \in Tasks, AgentTypes
    PROVE  AddMap(st, t) \in Merging
<1>1. CASE files[t].map \in {NoFile, Torn}
  BY <1>1 DEF AddMap
<1>2. CASE files[t].map \notin {NoFile, Torn}
  <2>1. files[t].map \in Seq(Probe)
    BY <1>2 DEF AgentTypes, Files
  <2>2. FoldLeft(AddProbe, st, files[t].map) \in Merging
    <3> DEFINE map == files[t].map
    <3>1. map \in Seq(Probe) /\ Len(map) \in 0..Len(map)
      BY <2>1
    <3> HIDE DEF map
    <3>2. PICK acc : /\ acc[0] = st
                     /\ \A k \in 0..Len(map) : acc[k] \in Merging
                     /\ \A k \in 1..Len(map) : acc[k] = AddProbe(acc[k - 1], map[k])
                     /\ FoldLeft(AddProbe, st, map) = acc[Len(map)]
      BY <3>1, AddProbesSteps
    <3> QED BY <3>1, <3>2 DEF map
  <2> QED BY <1>2, <2>2 DEF AddMap
<1> QED BY <1>1, <1>2

\* The .probes files are merged one after the other.
LEMMA MergeMapsSteps ==
    ASSUME AgentTypes, NEW order \in Seq(Tasks)
    PROVE  \E acc : /\ acc[0] = MergeStart
                    /\ \A k \in 0..Len(order) : acc[k] \in Merging
                    /\ \A k \in 1..Len(order) : acc[k] = AddMap(acc[k - 1], order[k])
                    /\ MergeMaps(order) = acc[Len(order)]
<1> DEFINE n == Len(order)
           F(f) == [s \in SUBSET (DOMAIN order) |->
                      IF s = {} THEN MergeStart
                      ELSE AddMap(f[s \ {Max(s)}], order[Max(s)])]
           f == CHOOSE f : f = F(f)
           G == [x \in (1..n) \X Merging |-> AddMap(x[2], order[x[1]])]
<1>1. n \in Nat /\ DOMAIN order = 1..n /\ (\A i \in 1..n : order[i] \in Tasks)
  OBVIOUS
<1>2. MergeStart \in Merging
  BY EmptyMeaning DEF MergeStart, Merging
<1>3. \A i \in 1..n, v \in Merging : G[<<i, v>>] = AddMap(v, order[i])
  OBVIOUS
<1>4. ClosedUnder(G, n, Merging)
  BY <1>1, <1>3, AddMapType DEF ClosedUnder
<1>5. MergeMaps(order) = f[1..n]
  BY <1>1 DEF MergeMaps, MergeStart, FoldLeft, MapThenFoldSet
<1> HIDE DEF n, G
<1>6. \E g : g = F(g)
  <2>1. PICK g : Solution(g, n, Merging, MergeStart, G)
    BY <1>1, <1>2, <1>4, FoldExists
  <2>2. g = F(g)
    BY <1>1, <1>3, <2>1 DEF Solution
  <2> QED BY <2>2
<1>7. f = F(f)
  BY <1>6
<1> HIDE DEF f
<1>8. Folds(f, n, Merging, MergeStart, G)
  BY <1>1, <1>3, <1>7, MaxAmong DEF Folds
<1>9. PICK acc : Chain(acc, n, Merging, MergeStart, G) /\ acc[n] = f[1..n]
  BY <1>1, <1>2, <1>4, <1>8, FoldSteps
<1>10. ASSUME NEW k \in 1..n PROVE acc[k] = AddMap(acc[k - 1], order[k])
  BY <1>1, <1>3, <1>9 DEF Chain
<1> QED BY <1>5, <1>9, <1>10 DEF n, Chain

-----------------------------------------------------------------------------
(* Methods and their instructions *)

LEMMA InsnKinds ==
    ASSUME NEW insn \in Insn
    PROVE  /\ insn.k \in {"line", "jump", "goto", "switch"}
           /\ insn.k = "line" => insn.n \in Nat
           /\ insn.k = "switch" => insn.arms \in Nat
BY DEF Insn

LEMMA CodeShape ==
    /\ \A m \in Methods : m.insns \in Seq(Insn)
    /\ \A v \in Versions : Code[v] \in Seq(Methods) /\ DOMAIN Code[v] = 1..Len(Code[v])
BY AgentAssumption DEF Versions

LEMMA EntryType ==
    ASSUME NEW m \in Methods, NEW line \in Int, NEW type \in {"LINE", "BRANCH"}
    PROVE  Entry(m, line, type) \in Entries
BY DEF Entry, Entries

\* The edges of an instruction, numbered from 0.
LEMMA EdgeCount ==
    ASSUME NEW insn \in Insn, insn.k # "line"
    PROVE  \E n \in Nat : /\ Cardinality(Edges(insn)) = n
                          /\ Edges(insn) = 0..(n - 1)
                          /\ insn.k = "jump" => n = 2
                          /\ insn.k = "switch" => n = SwitchProbes(insn.arms)
                          /\ insn.k = "goto" => n = 0
<1>1. CASE insn.k = "jump"
  <2>1. PICK b \in Nat : b = 1
    OBVIOUS
  <2>2. Edges(insn) = 0..b
    BY <1>1, <2>1 DEF Edges
  <2>3. Cardinality(0..b) = b + 1
    BY FS_Interval
  <2> QED BY <1>1, <2>1, <2>2, <2>3
<1>2. CASE insn.k = "switch"
  <2>1. insn.arms \in Nat
    BY <1>2, InsnKinds
  <2>2. Edges(insn) = 0..insn.arms
    BY <1>2 DEF Edges
  <2>3. Cardinality(0..insn.arms) = insn.arms + 1
    BY <2>1, FS_Interval
  <2> QED BY <1>2, <2>1, <2>2, <2>3 DEF SwitchProbes
<1>3. CASE insn.k = "goto"
  <2>1. Edges(insn) = {}
    BY <1>3 DEF Edges
  <2> QED BY <1>3, <2>1, FS_EmptySet
<1> QED BY <1>1, <1>2, <1>3, InsnKinds

LEMMA BranchesType ==
    ASSUME NEW m \in Methods, NEW st \in Walking, NEW n \in Nat
    PROVE  Branches(m, st, n) \in Walking
<1> DEFINE new == [i \in 1..n |-> Entry(m, st.line, "BRANCH")]
<1>1. new \in Seq(Entries)
  BY EntryType DEF Walking
<1>2. st.probes \o new \in Seq(Entries)
  BY <1>1 DEF Walking
<1>3. Branches(m, st, n) = [st EXCEPT !.probes = @ \o new]
  BY DEF Branches
<1> HIDE DEF new
<1> QED BY <1>2, <1>3 DEF Walking

LEMMA WalkType ==
    ASSUME NEW m \in Methods, NEW st \in Walking, NEW insn \in Insn
    PROVE  Walk(m, st, insn) \in Walking
<1>1. CASE insn.k = "line"
  <2>1. insn.n \in Nat
    BY <1>1, InsnKinds
  <2>2. Append(st.probes, Entry(m, insn.n, "LINE")) \in Seq(Entries)
    BY <2>1, EntryType DEF Walking
  <2>3. Walk(m, st, insn) =
          [line |-> insn.n, seen |-> st.seen \union {insn.n},
           probes |-> IF insn.n \in st.seen THEN st.probes
                      ELSE Append(st.probes, Entry(m, insn.n, "LINE"))]
    BY <1>1 DEF Walk
  <2> QED BY <2>1, <2>2, <2>3 DEF Walking
<1>2. CASE insn.k = "jump"
  BY <1>2, BranchesType DEF Walk
<1>3. CASE insn.k = "switch"
  <2>1. SwitchProbes(insn.arms) \in Nat
    BY <1>3, InsnKinds DEF SwitchProbes
  <2> QED BY <1>3, <2>1, BranchesType DEF Walk
<1>4. CASE insn.k = "goto"
  BY <1>4 DEF Walk
<1> QED BY <1>1, <1>2, <1>3, <1>4, InsnKinds

LEMMA EmitType ==
    ASSUME NEW i \in Nat, NEW m \in Methods, NEW offset \in Nat, NEW st \in Emitting,
           NEW p \in DOMAIN m.insns
    PROVE  Emit(i, m, offset, st, p) \in Emitting
<1> DEFINE insn == m.insns[p]
           At(e) == [at |-> <<i, p, e>>, index |-> offset + Len(st.stores) + e]
<1>1. insn \in Insn /\ p \in Nat /\ Len(st.stores) \in Nat /\ st.stores \in Seq(Store)
  BY CodeShape DEF Emitting
<1>2. \A e \in Nat : At(e) \in Store
  BY <1>1 DEF Store
<1>3. CASE insn.k = "line"
  <2>1. insn.n \in Nat
    BY <1>1, <1>3, InsnKinds
  <2>2. Emit(i, m, offset, st, p) =
          IF insn.n \in st.seen THEN st
          ELSE [seen |-> st.seen \union {insn.n}, stores |-> Append(st.stores, At(0))]
    BY <1>3 DEF Emit
  <2>3. Append(st.stores, At(0)) \in Seq(Store)
    BY <1>1, <1>2
  <2> HIDE DEF insn, At
  <2> QED BY <2>1, <2>2, <2>3 DEF Emitting
<1>4. CASE insn.k # "line"
  <2>1. PICK n \in Nat : Cardinality(Edges(insn)) = n
    BY <1>1, <1>4, EdgeCount
  <2> DEFINE new == [e \in 1..Cardinality(Edges(insn)) |-> At(e - 1)]
  <2>2. new \in Seq(Store)
    <3> HIDE DEF At
    <3> QED BY <1>2, <2>1
  <2>3. Emit(i, m, offset, st, p) = [st EXCEPT !.stores = @ \o new]
    BY <1>4 DEF Emit
  <2> HIDE DEF new
  <2>4. st.stores \o new \in Seq(Store)
    BY <1>1, <2>2
  <2> QED BY <2>3, <2>4 DEF Emitting
<1> QED BY <1>3, <1>4

\* walkProbes goes through the instructions of a method.
LEMMA DescribedSteps ==
    ASSUME NEW m \in Methods
    PROVE  \E acc : /\ acc[0] = WalkStart
                    /\ \A k \in 0..Len(m.insns) : acc[k] \in Walking
                    /\ \A k \in 1..Len(m.insns) : acc[k] = Walk(m, acc[k - 1], m.insns[k])
                    /\ Described(m) = acc[Len(m.insns)].probes
<1> DEFINE n == Len(m.insns)
           F(f) == [s \in SUBSET (DOMAIN m.insns) |->
                      IF s = {} THEN WalkStart
                      ELSE Walk(m, f[s \ {Max(s)}], m.insns[Max(s)])]
           f == CHOOSE f : f = F(f)
           G == [x \in (1..n) \X Walking |-> Walk(m, x[2], m.insns[x[1]])]
<1>1. n \in Nat /\ DOMAIN m.insns = 1..n /\ (\A i \in 1..n : m.insns[i] \in Insn)
  BY CodeShape
<1>2. WalkStart \in Walking
  BY DEF WalkStart, Walking
<1>3. \A i \in 1..n, v \in Walking : G[<<i, v>>] = Walk(m, v, m.insns[i])
  OBVIOUS
<1>4. ClosedUnder(G, n, Walking)
  BY <1>1, <1>3, WalkType DEF ClosedUnder
<1>5. Described(m) = f[1..n].probes
  BY <1>1 DEF Described, WalkStart, FoldLeft, MapThenFoldSet
<1> HIDE DEF n, G
<1>6. \E g : g = F(g)
  <2>1. PICK g : Solution(g, n, Walking, WalkStart, G)
    BY <1>1, <1>2, <1>4, FoldExists
  <2>2. g = F(g)
    BY <1>1, <1>3, <2>1 DEF Solution
  <2> QED BY <2>2
<1>7. f = F(f)
  BY <1>6
<1> HIDE DEF f
<1>8. Folds(f, n, Walking, WalkStart, G)
  BY <1>1, <1>3, <1>7, MaxAmong DEF Folds
<1>9. PICK acc : Chain(acc, n, Walking, WalkStart, G) /\ acc[n] = f[1..n]
  BY <1>1, <1>2, <1>4, <1>8, FoldSteps
<1>10. ASSUME NEW k \in 1..n PROVE acc[k] = Walk(m, acc[k - 1], m.insns[k])
  BY <1>1, <1>3, <1>9 DEF Chain
<1> QED BY <1>5, <1>9, <1>10 DEF n, Chain

\* So does ProbeInserter.
LEMMA InsertedSteps ==
    ASSUME NEW i \in Nat, NEW m \in Methods, NEW offset \in Nat
    PROVE  \E acc : /\ acc[0] = EmitStart
                    /\ \A k \in 0..Len(m.insns) : acc[k] \in Emitting
                    /\ \A k \in 1..Len(m.insns) : acc[k] = Emit(i, m, offset, acc[k - 1], k)
                    /\ Inserted(i, m, offset) = acc[Len(m.insns)].stores
<1> DEFINE n == Len(m.insns)
           F(f) == [s \in SUBSET (DOMAIN [q \in DOMAIN m.insns |-> q]) |->
                      IF s = {} THEN EmitStart
                      ELSE Emit(i, m, offset, f[s \ {Max(s)}], [q \in DOMAIN m.insns |-> q][Max(s)])]
           f == CHOOSE f : f = F(f)
           G == [x \in (1..n) \X Emitting |-> Emit(i, m, offset, x[2], [q \in DOMAIN m.insns |-> q][x[1]])]
<1>1. n \in Nat /\ DOMAIN [q \in DOMAIN m.insns |-> q] = 1..n /\ DOMAIN m.insns = 1..n
  BY CodeShape
<1>2. EmitStart \in Emitting
  BY DEF EmitStart, Emitting
<1>3. \A p \in 1..n, v \in Emitting : G[<<p, v>>] = Emit(i, m, offset, v, [q \in DOMAIN m.insns |-> q][p])
  OBVIOUS
<1>4. ClosedUnder(G, n, Emitting)
  BY <1>1, <1>3, EmitType DEF ClosedUnder
<1>5. Inserted(i, m, offset) = f[1..n].stores
  BY <1>1 DEF Inserted, EmitStart, FoldLeft, MapThenFoldSet
<1> HIDE DEF n, G
<1>6. \E g : g = F(g)
  <2>1. PICK g : Solution(g, n, Emitting, EmitStart, G)
    BY <1>1, <1>2, <1>4, FoldExists
  <2>2. g = F(g)
    BY <1>1, <1>3, <2>1 DEF Solution
  <2> QED BY <2>2
<1>7. f = F(f)
  BY <1>6
<1> HIDE DEF f
<1>8. Folds(f, n, Emitting, EmitStart, G)
  BY <1>1, <1>3, <1>7, MaxAmong DEF Folds
<1>9. PICK acc : Chain(acc, n, Emitting, EmitStart, G) /\ acc[n] = f[1..n]
  BY <1>1, <1>2, <1>4, <1>8, FoldSteps
<1>10. ASSUME NEW k \in 1..n PROVE acc[k] = Emit(i, m, offset, acc[k - 1], k)
  BY <1>1, <1>3, <1>9 DEF Chain
<1> QED BY <1>5, <1>9, <1>10 DEF n, Chain

-----------------------------------------------------------------------------
(* The map and the code number the probes alike *)

\* The line of an instruction.
LineAt(m, k) ==
    LET before == {q \in 1..k : m.insns[q].k = "line"}
    IN  IF before = {} THEN -1 ELSE m.insns[Max(before)].n

LEMMA LineAtStart == \A m : LineAt(m, 0) = -1
<1>1. \A m : {q \in 1..0 : m.insns[q].k = "line"} = {}
  OBVIOUS
<1> QED BY <1>1 DEF LineAt

LEMMA LineAtStep ==
    ASSUME NEW m, NEW k \in Nat \ {0}
    PROVE  LineAt(m, k) = IF m.insns[k].k = "line" THEN m.insns[k].n ELSE LineAt(m, k - 1)
<1> DEFINE B(q) == {x \in 1..q : m.insns[x].k = "line"}
<1>1. CASE m.insns[k].k = "line"
  <2>1. k \in B(k) /\ B(k) \subseteq 0..k
    BY <1>1
  <2>2. Max(B(k)) \in B(k) /\ Max(B(k)) >= k
    <3> HIDE DEF B
    <3> QED BY <2>1, GreatestNumber
  <2>3. Max(B(k)) = k
    BY <2>2
  <2> QED BY <1>1, <2>1, <2>3 DEF LineAt
<1>2. CASE m.insns[k].k # "line"
  <2>1. B(k) = B(k - 1)
    BY <1>2
  <2> QED BY <1>2, <2>1 DEF LineAt
<1> QED BY <1>1, <1>2

\* Probe n of the one is store n of the other; the stores are numbered from an
\* offset on, and each pair is in R.
Matched(offset, R, probes, stores) ==
    /\ Len(probes) = Len(stores)
    /\ \A n \in 1..Len(stores) : /\ stores[n].index = offset + n - 1
                                 /\ << probes[n], stores[n] >> \in R

LEMMA MatchedConcat ==
    ASSUME NEW offset \in Nat, NEW R,
           NEW ps \in Seq(Entries), NEW ss \in Seq(Store), Matched(offset, R, ps, ss),
           NEW pt \in Seq(Entries), NEW tt \in Seq(Store),
           Matched(offset + Len(ss), R, pt, tt)
    PROVE  Matched(offset, R, ps \o pt, ss \o tt)
<1>1. Len(ps) = Len(ss) /\ Len(pt) = Len(tt)
  BY DEF Matched
<1>2. /\ Len(ps \o pt) = Len(ps) + Len(pt)
      /\ \A n \in 1..Len(ps) : (ps \o pt)[n] = ps[n]
      /\ \A q \in 1..Len(pt) : (ps \o pt)[Len(ps) + q] = pt[q]
  BY Concat
<1>3. /\ Len(ss) \in Nat /\ Len(ss \o tt) = Len(ss) + Len(tt)
      /\ \A n \in 1..Len(ss) : (ss \o tt)[n] = ss[n]
      /\ \A q \in 1..Len(tt) : (ss \o tt)[Len(ss) + q] = tt[q]
      /\ \A n \in 1..Len(ss \o tt) :
           n \in 1..Len(ss) \/ \E q \in 1..Len(tt) : n = Len(ss) + q
  BY Concat
<1>4. ASSUME NEW n \in 1..Len(ss \o tt)
      PROVE  /\ (ss \o tt)[n].index = offset + n - 1
             /\ << (ps \o pt)[n], (ss \o tt)[n] >> \in R
  <2>1. CASE n \in 1..Len(ss)
    BY <1>1, <1>2, <1>3, <2>1 DEF Matched
  <2>2. ASSUME NEW q \in 1..Len(tt), n = Len(ss) + q
        PROVE  /\ (ss \o tt)[n].index = offset + n - 1
               /\ << (ps \o pt)[n], (ss \o tt)[n] >> \in R
    <3>1. (ss \o tt)[n] = tt[q] /\ (ps \o pt)[n] = pt[q]
      BY <1>1, <1>2, <1>3, <2>2
    <3>2. tt[q].index = offset + Len(ss) + q - 1 /\ << pt[q], tt[q] >> \in R
      BY DEF Matched
    <3>3. offset + Len(ss) + q - 1 = offset + n - 1
      BY <1>3, <2>2
    <3> QED BY <3>1, <3>2, <3>3
  <2> QED BY <1>3, <2>1, <2>2
<1> QED BY <1>1, <1>2, <1>3, <1>4 DEF Matched

LEMMA MatchedMore ==
    ASSUME NEW offset, NEW R, NEW T, R \subseteq T, NEW ps, NEW ss, Matched(offset, R, ps, ss)
    PROVE  Matched(offset, T, ps, ss)
BY DEF Matched

\* A store among the first k instructions of a method, and a probe on its line.
SameLine(i, m, k) ==
    {x \in Entries \X Store : /\ x[2].at[1] = i /\ x[2].at[2] \in 1..k
                              /\ x[1].line = LineAt(m, x[2].at[2])}

\* What walkProbes and ProbeInserter have after k instructions.
Alike(i, m, offset, st, em, k) ==
    /\ st.seen = em.seen /\ st.line = LineAt(m, k)
    /\ Matched(offset, SameLine(i, m, k), st.probes, em.stores)

LEMMA SameLineMore ==
    ASSUME NEW i, NEW m, NEW k \in Nat \ {0}
    PROVE  SameLine(i, m, k - 1) \subseteq SameLine(i, m, k)
<1>1. \A x \in 1..(k - 1) : x \in 1..k
  OBVIOUS
<1> QED BY <1>1 DEF SameLine

LEMMA AlikeStep ==
    ASSUME NEW i \in Nat, NEW m \in Methods, NEW offset \in Nat,
           NEW k \in 1..Len(m.insns),
           NEW st \in Walking, NEW em \in Emitting, Alike(i, m, offset, st, em, k - 1)
    PROVE  Alike(i, m, offset, Walk(m, st, m.insns[k]), Emit(i, m, offset, em, k), k)
<1> DEFINE insn == m.insns[k]
           At(e) == [at |-> <<i, k, e>>, index |-> offset + Len(em.stores) + e]
<1>1. insn \in Insn /\ k \in Nat \ {0} /\ em.stores \in Seq(Store) /\ Len(em.stores) \in Nat
  BY CodeShape DEF Emitting
<1>2. LineAt(m, k) = IF insn.k = "line" THEN insn.n ELSE LineAt(m, k - 1)
  BY <1>1, LineAtStep
<1>3. \A e \in Nat : At(e) \in Store
  BY <1>1 DEF Store
<1>8. /\ st.probes \in Seq(Entries)
      /\ Matched(offset, SameLine(i, m, k), st.probes, em.stores)
  BY <1>1, SameLineMore, MatchedMore DEF Alike, Walking
<1>4. ASSUME NEW count \in Nat, insn.k # "line", Cardinality(Edges(insn)) = count,
             Walk(m, st, insn) = Branches(m, st, count)
      PROVE  Alike(i, m, offset, Walk(m, st, insn), Emit(i, m, offset, em, k), k)
  <2> DEFINE probes == [x \in 1..count |-> Entry(m, st.line, "BRANCH")]
             stores == [x \in 1..Cardinality(Edges(insn)) |-> At(x - 1)]
  <2>1. st.line \in Int /\ st.line = LineAt(m, k)
    BY <1>2, <1>4 DEF Walking, Alike
  <2>2. probes \in Seq(Entries) /\ Len(probes) = count
    BY <2>1, EntryType
  <2>3. stores \in Seq(Store) /\ Len(stores) = count
    <3> HIDE DEF At
    <3> QED BY <1>3, <1>4
  <2>4. Matched(offset + Len(em.stores), SameLine(i, m, k), probes, stores)
    <3>1. ASSUME NEW n \in 1..count
          PROVE  /\ stores[n].index = offset + Len(em.stores) + n - 1
                 /\ stores[n].at[1] = i /\ stores[n].at[2] = k
                 /\ probes[n].line = LineAt(m, k)
      BY <1>1, <1>4, <2>1 DEF Entry
    <3>2. k \in 1..k
      OBVIOUS
    <3> HIDE DEF probes, stores
    <3>3. \A n \in 1..count : stores[n] \in Store /\ probes[n] \in Entries
      BY <2>2, <2>3
    <3> QED BY <2>2, <2>3, <3>1, <3>2, <3>3 DEF Matched, SameLine
  <2>5. Walk(m, st, insn) = [st EXCEPT !.probes = @ \o probes]
    BY <1>4 DEF Branches
  <2>6. Emit(i, m, offset, em, k) = [em EXCEPT !.stores = @ \o stores]
    BY <1>4 DEF Emit
  <2>7. st.seen = em.seen
    BY DEF Alike
  <2> HIDE DEF probes, stores
  <2>8. /\ Walk(m, st, insn).probes = st.probes \o probes
        /\ Walk(m, st, insn).line = LineAt(m, k)
        /\ Emit(i, m, offset, em, k).stores = em.stores \o stores
        /\ Walk(m, st, insn).seen = Emit(i, m, offset, em, k).seen
    BY <2>1, <2>5, <2>6, <2>7 DEF Walking, Emitting
  <2>9. Matched(offset, SameLine(i, m, k), st.probes \o probes, em.stores \o stores)
    BY <1>1, <1>8, <2>2, <2>3, <2>4, MatchedConcat
  <2> HIDE DEF insn
  <2> QED BY <2>8, <2>9 DEF Alike
<1>5. CASE insn.k = "line" /\ insn.n \in st.seen
  <2>1. st.seen = em.seen
    BY DEF Alike
  <2>2. Walk(m, st, insn) = [line |-> insn.n, seen |-> st.seen \union {insn.n},
                             probes |-> st.probes]
    BY <1>5 DEF Walk
  <2>3. Emit(i, m, offset, em, k) = em
    BY <1>5, <2>1 DEF Emit
  <2> QED BY <1>2, <1>5, <1>8, <2>1, <2>2, <2>3 DEF Alike
<1>6. CASE insn.k = "line" /\ insn.n \notin st.seen
  <2> DEFINE probes == << Entry(m, insn.n, "LINE") >>
             store == At(0)
             stores == << store >>
  <2>1. insn.n \in Nat /\ insn.n = LineAt(m, k)
    BY <1>1, <1>2, <1>6, InsnKinds
  <2>2. probes \in Seq(Entries) /\ Len(probes) = 1
    BY <2>1, EntryType
  <2>3. stores \in Seq(Store) /\ Len(stores) = 1
    <3> HIDE DEF At
    <3> QED BY <1>3
  <2>4. Matched(offset + Len(em.stores), SameLine(i, m, k), probes, stores)
    <3>1. ASSUME NEW n \in 1..1
          PROVE  /\ stores[n].index = offset + Len(em.stores) + n - 1
                 /\ stores[n].at[1] = i /\ stores[n].at[2] = k
                 /\ probes[n].line = LineAt(m, k)
      BY <1>1, <2>1 DEF Entry
    <3>2. k \in 1..k
      OBVIOUS
    <3>3. \A n \in 1..1 : stores[n] \in Store /\ probes[n] \in Entries
      <4>1. Entry(m, insn.n, "LINE") \in Entries
        BY <2>1, EntryType
      <4>2. store \in Store
        BY <1>3
      <4>3. \A n \in 1..1 : stores[n] = store /\ probes[n] = Entry(m, insn.n, "LINE")
        OBVIOUS
      <4> HIDE DEF probes, stores, store
      <4> QED BY <4>1, <4>2, <4>3
    <3> HIDE DEF probes, stores
    <3> QED BY <2>2, <2>3, <3>1, <3>2, <3>3 DEF Matched, SameLine
  <2>5. st.seen = em.seen
    BY DEF Alike
  <2>6. Walk(m, st, insn) = [line |-> insn.n, seen |-> st.seen \union {insn.n},
                             probes |-> Append(st.probes, Entry(m, insn.n, "LINE"))]
    BY <1>6 DEF Walk
  <2>7. Emit(i, m, offset, em, k) =
          [seen |-> em.seen \union {insn.n}, stores |-> Append(em.stores, store)]
    BY <1>6, <2>5 DEF Emit
  <2>8. /\ Append(st.probes, Entry(m, insn.n, "LINE")) = st.probes \o probes
        /\ Append(em.stores, store) = em.stores \o stores
    <3>1. st.probes \in Seq(Entries) /\ Entry(m, insn.n, "LINE") \in Entries /\ store \in Store
      BY <1>3, <2>1, EntryType DEF Walking
    <3>2. st.probes \in Seq(Entries) /\ em.stores \in Seq(Store)
      BY <1>1, <3>1
    <3> HIDE DEF store
    <3> QED BY <3>1, <3>2, AppendConcat
  <2> HIDE DEF probes, stores, store
  <2> HIDE DEF insn
  <2>9. /\ Walk(m, st, insn).probes = st.probes \o probes
        /\ Walk(m, st, insn).line = LineAt(m, k)
        /\ Emit(i, m, offset, em, k).stores = em.stores \o stores
        /\ Walk(m, st, insn).seen = Emit(i, m, offset, em, k).seen
    <3>1. Walk(m, st, insn).probes = st.probes \o probes
      BY <2>6, <2>8
    <3>2. Walk(m, st, insn).line = LineAt(m, k)
      BY <2>1, <2>6
    <3>3. Emit(i, m, offset, em, k).stores = em.stores \o stores
      BY <2>7, <2>8
    <3>4. Walk(m, st, insn).seen = Emit(i, m, offset, em, k).seen
      BY <2>5, <2>6, <2>7
    <3> QED BY <3>1, <3>2, <3>3, <3>4
  <2>10. Matched(offset, SameLine(i, m, k), st.probes \o probes, em.stores \o stores)
    BY <1>1, <1>8, <2>2, <2>3, <2>4, MatchedConcat
  <2> QED BY <2>9, <2>10 DEF Alike, insn
<1>7. CASE insn.k # "line"
  <2>1. PICK count \in Nat : /\ Cardinality(Edges(insn)) = count
                             /\ insn.k = "jump" => count = 2
                             /\ insn.k = "switch" => count = SwitchProbes(insn.arms)
                             /\ insn.k = "goto" => count = 0
    BY <1>1, <1>7, EdgeCount
  <2>2. CASE insn.k \in {"jump", "switch"}
    <3>1. Walk(m, st, insn) = Branches(m, st, count)
      BY <2>1, <2>2 DEF Walk
    <3> QED BY <1>4, <1>7, <2>1, <3>1
  <2>3. CASE insn.k = "goto"
    <3>1. Walk(m, st, insn) = st
      BY <2>3 DEF Walk
    <3>2. Branches(m, st, 0) = st
      <4> DEFINE none == [x \in 1..0 |-> Entry(m, st.line, "BRANCH")]
      <4>1. none \in Seq(Entries) /\ Len(none) = 0 /\ st.probes \in Seq(Entries)
        <5>1. st.line \in Int
          BY DEF Walking
        <5> QED BY <5>1, EntryType DEF Walking
      <4>2. Branches(m, st, 0) = [st EXCEPT !.probes = @ \o none]
        BY DEF Branches
      <4> HIDE DEF none
      <4>3. st.probes \o none = st.probes
        BY <4>1
      <4> QED BY <4>2, <4>3 DEF Walking
    <3> QED BY <1>4, <1>7, <2>1, <2>3, <3>1, <3>2
  <2> QED BY <1>1, <1>7, <2>2, <2>3, InsnKinds
<1> QED BY <1>5, <1>6, <1>7


\* A method's entries in the map and its stores in the code.
LEMMA MethodAlike ==
    ASSUME NEW i \in Nat, NEW m \in Methods, NEW offset \in Nat
    PROVE  /\ Described(m) \in Seq(Entries) /\ Inserted(i, m, offset) \in Seq(Store)
           /\ Matched(offset, SameLine(i, m, Len(m.insns)), Described(m), Inserted(i, m, offset))
<1> DEFINE n == Len(m.insns)
<1>1. n \in Nat
  BY CodeShape
<1>2. PICK st : /\ st[0] = WalkStart
                /\ \A k \in 0..n : st[k] \in Walking
                /\ \A k \in 1..n : st[k] = Walk(m, st[k - 1], m.insns[k])
                /\ Described(m) = st[n].probes
  BY DescribedSteps
<1>3. PICK em : /\ em[0] = EmitStart
                /\ \A k \in 0..n : em[k] \in Emitting
                /\ \A k \in 1..n : em[k] = Emit(i, m, offset, em[k - 1], k)
                /\ Inserted(i, m, offset) = em[n].stores
  BY InsertedSteps
<1> DEFINE S == {k \in 0..n : Alike(i, m, offset, st[k], em[k], k)}
<1>4. 0 \in S
  <2>1. 0 \in 0..n /\ LineAt(m, 0) = -1
    BY <1>1, LineAtStart
  <2>2. Matched(offset, SameLine(i, m, 0), << >>, << >>)
    BY DEF Matched
  <2>3. Alike(i, m, offset, WalkStart, EmitStart, 0)
    BY <2>1, <2>2 DEF Alike, WalkStart, EmitStart
  <2> QED BY <1>2, <1>3, <2>1, <2>3
<1>5. ASSUME NEW k \in 1..n, k - 1 \in S PROVE k \in S
  <2>1. k - 1 \in 0..n /\ k \in 0..n
    BY <1>1
  <2>2. st[k - 1] \in Walking /\ em[k - 1] \in Emitting
    BY <1>2, <1>3, <2>1
  <2>3. Alike(i, m, offset, st[k - 1], em[k - 1], k - 1)
    BY <1>5
  <2>4. Alike(i, m, offset, Walk(m, st[k - 1], m.insns[k]), Emit(i, m, offset, em[k - 1], k), k)
    BY <2>2, <2>3, AlikeStep
  <2> QED BY <1>2, <1>3, <2>1, <2>4
<1>6. n \in 0..n
  BY <1>1
<1>7. n \in S
  <2> HIDE DEF S
  <2> QED BY <1>1, <1>4, <1>5, <1>6, UpTo
<1>8. st[n] \in Walking /\ em[n] \in Emitting /\ Alike(i, m, offset, st[n], em[n], n)
  BY <1>2, <1>3, <1>6, <1>7
<1> QED BY <1>2, <1>3, <1>8 DEF Walking, Emitting, Alike

\* buildProbeMap takes a class method by method.
Gathered(entries, m) == IF Instrumentable(m) THEN entries \o Described(m) ELSE entries

LEMMA GatheredType ==
    ASSUME NEW entries \in Seq(Entries), NEW m \in Methods
    PROVE  Gathered(entries, m) \in Seq(Entries)
<1>1. Described(m) \in Seq(Entries)
  BY MethodAlike
<1> QED BY <1>1, Concat DEF Gathered

\* InstrumentingClassVisitor does, too.
Rewritten(v, stores, i) ==
    IF Instrumentable(Code[v][i]) THEN stores \o Inserted(i, Code[v][i], Len(stores)) ELSE stores

LEMMA RewrittenType ==
    ASSUME NEW v \in Versions, NEW stores \in Seq(Store), NEW i \in DOMAIN Code[v]
    PROVE  Rewritten(v, stores, i) \in Seq(Store)
<1>1. i \in Nat /\ Code[v][i] \in Methods /\ Len(stores) \in Nat
  BY CodeShape
<1>2. Inserted(i, Code[v][i], Len(stores)) \in Seq(Store)
  BY <1>1, MethodAlike
<1> QED BY <1>2, Concat DEF Rewritten

\* The map of a class, method by method.
LEMMA ProbesSteps ==
    ASSUME NEW v \in Versions
    PROVE  \E acc : /\ acc[0] = << >>
                    /\ \A k \in 0..Len(Code[v]) : acc[k] \in Seq(Entries)
                    /\ \A k \in 1..Len(Code[v]) : acc[k] = Gathered(acc[k - 1], Code[v][k])
                    /\ Probes(v) = [i \in DOMAIN acc[Len(Code[v])] |-> [index |-> i - 1, entry |-> acc[Len(Code[v])][i]]]
<1> DEFINE n == Len(Code[v])
           F(f) == [s \in SUBSET (DOMAIN Code[v]) |->
                      IF s = {} THEN << >>
                      ELSE Gathered(f[s \ {Max(s)}], Code[v][Max(s)])]
           f == CHOOSE f : f = F(f)
           G == [x \in (1..n) \X Seq(Entries) |-> Gathered(x[2], Code[v][x[1]])]
<1>1. n \in Nat /\ DOMAIN Code[v] = 1..n /\ (\A i \in 1..n : Code[v][i] \in Methods)
  BY CodeShape
<1>2. << >> \in Seq(Entries)
  BY CodeShape
<1>3. \A q \in 1..n, w \in Seq(Entries) : G[<<q, w>>] = Gathered(w, Code[v][q])
  OBVIOUS
<1>4. ClosedUnder(G, n, Seq(Entries))
  BY <1>1, <1>3, GatheredType DEF ClosedUnder
<1>5. Probes(v) = [i \in DOMAIN f[1..n] |-> [index |-> i - 1, entry |-> f[1..n][i]]]
  BY <1>1 DEF Probes, Gathered, FoldLeft, MapThenFoldSet
<1> HIDE DEF n, G
<1>6. \E g : g = F(g)
  <2>1. PICK g : Solution(g, n, Seq(Entries), << >>, G)
    BY <1>1, <1>2, <1>4, FoldExists
  <2>2. g = F(g)
    BY <1>1, <1>3, <2>1 DEF Solution
  <2> QED BY <2>2
<1>7. f = F(f)
  BY <1>6
<1> HIDE DEF f
<1>8. Folds(f, n, Seq(Entries), << >>, G)
  BY <1>1, <1>3, <1>7, MaxAmong DEF Folds
<1>9. PICK acc : Chain(acc, n, Seq(Entries), << >>, G) /\ acc[n] = f[1..n]
  <2> DEFINE V == Seq(Entries)
             base == << >>
  <2>1. base \in V /\ ClosedUnder(G, n, V) /\ Folds(f, n, V, base, G)
    BY <1>2, <1>4, <1>8
  <2> HIDE DEF V, base
  <2>2. \E acc : Chain(acc, n, V, base, G) /\ acc[n] = f[1..n]
    BY <1>1, <2>1, FoldSteps
  <2> QED BY <2>2 DEF V, base
<1>10. ASSUME NEW k \in 1..n PROVE acc[k] = Gathered(acc[k - 1], Code[v][k])
  BY <1>1, <1>3, <1>9 DEF Chain
<1>11. Probes(v) = [i \in DOMAIN acc[n] |-> [index |-> i - 1, entry |-> acc[n][i]]]
  BY <1>5, <1>9
<1>12. acc[0] = << >> /\ \A k \in 0..n : acc[k] \in Seq(Entries)
  BY <1>9 DEF Chain
<1> QED BY <1>10, <1>11, <1>12 DEF n

\* The stores of a class, method by method.
LEMMA StoresSteps ==
    ASSUME NEW v \in Versions
    PROVE  \E acc : /\ acc[0] = << >>
                    /\ \A k \in 0..Len(Code[v]) : acc[k] \in Seq(Store)
                    /\ \A k \in 1..Len(Code[v]) : acc[k] = Rewritten(v, acc[k - 1], k)
                    /\ Stores(v) = acc[Len(Code[v])]
<1> DEFINE n == Len(Code[v])
           F(f) == [s \in SUBSET (DOMAIN [i \in DOMAIN Code[v] |-> i]) |->
                      IF s = {} THEN << >>
                      ELSE Rewritten(v, f[s \ {Max(s)}], [i \in DOMAIN Code[v] |-> i][Max(s)])]
           f == CHOOSE f : f = F(f)
           G == [x \in (1..n) \X Seq(Store) |-> Rewritten(v, x[2], [i \in DOMAIN Code[v] |-> i][x[1]])]
<1>1. n \in Nat /\ DOMAIN [i \in DOMAIN Code[v] |-> i] = 1..n /\ DOMAIN Code[v] = 1..n
  BY CodeShape
<1>2. << >> \in Seq(Store)
  BY CodeShape
<1>3. \A q \in 1..n, w \in Seq(Store) : G[<<q, w>>] = Rewritten(v, w, [i \in DOMAIN Code[v] |-> i][q])
  OBVIOUS
<1>4. ClosedUnder(G, n, Seq(Store))
  BY <1>1, <1>3, RewrittenType DEF ClosedUnder
<1>5. Stores(v) = f[1..n]
  BY <1>1 DEF Stores, Rewritten, FoldLeft, MapThenFoldSet
<1> HIDE DEF n, G
<1>6. \E g : g = F(g)
  <2>1. PICK g : Solution(g, n, Seq(Store), << >>, G)
    BY <1>1, <1>2, <1>4, FoldExists
  <2>2. g = F(g)
    BY <1>1, <1>3, <2>1 DEF Solution
  <2> QED BY <2>2
<1>7. f = F(f)
  BY <1>6
<1> HIDE DEF f
<1>8. Folds(f, n, Seq(Store), << >>, G)
  BY <1>1, <1>3, <1>7, MaxAmong DEF Folds
<1>9. PICK acc : Chain(acc, n, Seq(Store), << >>, G) /\ acc[n] = f[1..n]
  <2> DEFINE V == Seq(Store)
             base == << >>
  <2>1. base \in V /\ ClosedUnder(G, n, V) /\ Folds(f, n, V, base, G)
    BY <1>2, <1>4, <1>8
  <2> HIDE DEF V, base
  <2>2. \E acc : Chain(acc, n, V, base, G) /\ acc[n] = f[1..n]
    BY <1>1, <2>1, FoldSteps
  <2> QED BY <2>2 DEF V, base
<1>10. ASSUME NEW k \in 1..n PROVE acc[k] = Rewritten(v, acc[k - 1], k)
  BY <1>1, <1>3, <1>9 DEF Chain
<1> QED BY <1>5, <1>9, <1>10 DEF n, Chain

\* A store of the first k methods, and a probe on its line.
InClass(v, k) ==
    {x \in Entries \X Store :
       /\ x[2].at[1] \in 1..k /\ x[2].at[2] \in 1..Len(Code[v][x[2].at[1]].insns)
       /\ x[1].line = LineAt(Code[v][x[2].at[1]], x[2].at[2])}

LEMMA InClassMore ==
    ASSUME NEW v \in Versions, NEW k \in 1..Len(Code[v])
    PROVE  /\ InClass(v, k - 1) \subseteq InClass(v, k)
           /\ SameLine(k, Code[v][k], Len(Code[v][k].insns)) \subseteq InClass(v, k)
<1>1. \A x \in 1..(k - 1) : x \in 1..k
  OBVIOUS
<1>2. k \in 1..k
  OBVIOUS
<1>3. InClass(v, k - 1) \subseteq InClass(v, k)
  BY <1>1 DEF InClass
<1>4. SameLine(k, Code[v][k], Len(Code[v][k].insns)) \subseteq InClass(v, k)
  BY <1>2 DEF InClass, SameLine
<1> QED BY <1>3, <1>4

LEMMA ClassStep ==
    ASSUME NEW v \in Versions, NEW k \in 1..Len(Code[v]),
           NEW es \in Seq(Entries), NEW ss \in Seq(Store),
           Matched(0, InClass(v, k - 1), es, ss)
    PROVE  Matched(0, InClass(v, k), Gathered(es, Code[v][k]), Rewritten(v, ss, k))
<1> DEFINE m == Code[v][k]
           new == Inserted(k, m, Len(ss))
<1>1. k \in Nat /\ m \in Methods /\ Len(ss) \in Nat
  BY CodeShape
<1>2. Matched(0, InClass(v, k), es, ss)
  BY InClassMore, MatchedMore
<1>3. /\ Described(m) \in Seq(Entries) /\ new \in Seq(Store)
      /\ Matched(Len(ss), SameLine(k, m, Len(m.insns)), Described(m), new)
  BY <1>1, MethodAlike
<1>4. Matched(0 + Len(ss), InClass(v, k), Described(m), new)
  <2>1. 0 + Len(ss) = Len(ss)
    BY <1>1
  <2>2. SameLine(k, m, Len(m.insns)) \subseteq InClass(v, k)
    BY InClassMore
  <2> HIDE DEF m, new
  <2>3. Matched(Len(ss), InClass(v, k), Described(m), new)
    BY <1>3, <2>2, MatchedMore
  <2> QED BY <2>1, <2>3
<1>5. Matched(0, InClass(v, k), es \o Described(m), ss \o new)
  <2>1. 0 \in Nat
    OBVIOUS
  <2> HIDE DEF m, new
  <2> QED BY <2>1, <1>2, <1>3, <1>4, MatchedConcat
<1> QED BY <1>2, <1>5 DEF Gathered, Rewritten

\* The probes of a class are numbered from 0, and every store has a probe with
\* its number and its line.
LEMMA ProbesAndStores ==
    ASSUME NEW v \in Versions
    PROVE  /\ Probes(v) \in Seq(Probe) /\ CountProbes(v) \in Nat
           /\ \A k \in 1..CountProbes(v) : Probes(v)[k].index = k - 1
           /\ \A s \in Range(Stores(v)) : \E k \in 1..CountProbes(v) :
                 /\ Probes(v)[k].index = s.index
                 /\ Probes(v)[k].entry.line = LineOf(v, s.at)
<1> DEFINE n == Len(Code[v])
<1>1. n \in Nat /\ n \in 0..n
  BY CodeShape
<1>2. PICK es : /\ es[0] = << >>
                /\ \A k \in 0..n : es[k] \in Seq(Entries)
                /\ \A k \in 1..n : es[k] = Gathered(es[k - 1], Code[v][k])
                /\ Probes(v) = [i \in DOMAIN es[n] |-> [index |-> i - 1, entry |-> es[n][i]]]
  BY ProbesSteps
<1>3. PICK ss : /\ ss[0] = << >>
                /\ \A k \in 0..n : ss[k] \in Seq(Store)
                /\ \A k \in 1..n : ss[k] = Rewritten(v, ss[k - 1], k)
                /\ Stores(v) = ss[n]
  BY StoresSteps
<1> DEFINE S == {k \in 0..n : Matched(0, InClass(v, k), es[k], ss[k])}
<1>4. 0 \in S
  <2>1. Matched(0, InClass(v, 0), << >>, << >>)
    BY DEF Matched
  <2> QED BY <1>1, <1>2, <1>3, <2>1
<1>5. ASSUME NEW k \in 1..n, k - 1 \in S PROVE k \in S
  <2>1. k - 1 \in 0..n /\ k \in 0..n
    BY <1>1
  <2>2. es[k - 1] \in Seq(Entries) /\ ss[k - 1] \in Seq(Store)
    BY <1>2, <1>3, <2>1
  <2>3. Matched(0, InClass(v, k - 1), es[k - 1], ss[k - 1])
    BY <1>5
  <2>4. Matched(0, InClass(v, k), Gathered(es[k - 1], Code[v][k]), Rewritten(v, ss[k - 1], k))
    BY <2>2, <2>3, ClassStep
  <2> QED BY <1>2, <1>3, <2>1, <2>4
<1>6. n \in S
  <2> HIDE DEF S
  <2> QED BY <1>1, <1>4, <1>5, UpTo
<1> DEFINE all == es[n]
<1>7. all \in Seq(Entries) /\ Stores(v) \in Seq(Store) /\ Matched(0, InClass(v, n), all, Stores(v))
  BY <1>1, <1>2, <1>3, <1>6
<1>8. Probes(v) = [i \in DOMAIN all |-> [index |-> i - 1, entry |-> all[i]]]
  BY <1>2
<1> HIDE DEF all, n
<1>9. /\ Len(all) \in Nat /\ DOMAIN all = 1..Len(all)
      /\ \A i \in 1..Len(all) : all[i] \in Entries
  BY <1>7
<1>10. /\ DOMAIN Probes(v) = 1..Len(all)
       /\ \A i \in 1..Len(all) : Probes(v)[i] = [index |-> i - 1, entry |-> all[i]]
  BY <1>8, <1>9
<1>11. Probes(v) \in Seq(Probe) /\ Len(Probes(v)) = Len(all)
  <2>1. \A i \in 1..Len(all) : [index |-> i - 1, entry |-> all[i]] \in Probe
    <3>1. \A i \in 1..Len(all) : i - 1 \in Nat
      BY <1>9
    <3> QED BY <1>9, <3>1 DEF Probe, Entries
  <2>2. [i \in 1..Len(all) |-> [index |-> i - 1, entry |-> all[i]]] \in Seq(Probe)
    BY <1>9, <2>1
  <2>3. Probes(v) = [i \in 1..Len(all) |-> [index |-> i - 1, entry |-> all[i]]]
    BY <1>8, <1>9
  <2> QED BY <1>9, <1>10, <2>2, <2>3
<1>12. ASSUME NEW s \in Range(Stores(v))
       PROVE  \E k \in 1..Len(all) : /\ Probes(v)[k].index = s.index
                                     /\ Probes(v)[k].entry.line = LineOf(v, s.at)
  <2>1. PICK k \in 1..Len(Stores(v)) : s = Stores(v)[k]
    BY <1>7 DEF Range
  <2>2. Len(all) = Len(Stores(v)) /\ s.index = 0 + k - 1 /\ << all[k], s >> \in InClass(v, n)
    BY <1>7, <2>1 DEF Matched
  <2>3. all[k].line = LineAt(Code[v][s.at[1]], s.at[2])
    BY <2>2 DEF InClass
  <2>4. LineOf(v, s.at) = LineAt(Code[v][s.at[1]], s.at[2])
    BY DEF LineOf, LineAt
  <2>5. Probes(v)[k] = [index |-> k - 1, entry |-> all[k]]
    BY <1>10, <2>2
  <2>6. 0 + k - 1 = k - 1
    OBVIOUS
  <2> QED BY <2>2, <2>3, <2>4, <2>5, <2>6
<1> QED BY <1>9, <1>10, <1>11, <1>12 DEF CountProbes

-----------------------------------------------------------------------------
(* What the merges keep *)

\* Some file of the first k has the hit.
Explained(i, order, k) == \E q \in 1..k : /\ files[order[q]].data # NoFile
                                          /\ i \in files[order[q]].data.hits

\* A merged hit comes from a file.
LEMMA MergedHits ==
    ASSUME AgentTypes, NEW order \in Seq(Tasks), \A t \in Tasks : files[t].data # Torn
    PROVE  \A i \in MergeData(order).hits : Explained(i, order, Len(order))
<1> DEFINE n == Len(order)
<1>1. n \in Nat /\ n \in 0..n
  OBVIOUS
<1>2. PICK acc : /\ acc[0] = NoArray
                 /\ \A k \in 0..n : acc[k] \in Array
                 /\ \A k \in 1..n : acc[k] = AddData(acc[k - 1], order[k])
                 /\ MergeData(order) = acc[n]
  BY MergeDataSteps
<1> DEFINE S == {k \in 0..n : \A i \in acc[k].hits : Explained(i, order, k)}
<1>3. 0 \in S
  BY <1>1, <1>2 DEF NoArray
<1>4. ASSUME NEW k \in 1..n, k - 1 \in S PROVE k \in S
  <2>1. SUFFICES ASSUME NEW i \in acc[k].hits PROVE Explained(i, order, k)
    BY <1>1
  <2>2. k - 1 \in 0..n /\ k \in 0..n /\ (\A q \in 1..(k - 1) : q \in 1..k) /\ k \in 1..k
    BY <1>1
  <2>3. acc[k - 1] \in Array /\ acc[k] = AddData(acc[k - 1], order[k])
    BY <1>2, <2>2
  <2>4. i \in acc[k - 1].hits \/ (files[order[k]].data # NoFile /\ i \in files[order[k]].data.hits)
    BY <2>1, <2>3 DEF AddData, Grown, Array
  <2>5. i \in acc[k - 1].hits => Explained(i, order, k - 1)
    BY <1>4
  <2> QED BY <2>2, <2>4, <2>5 DEF Explained
<1>5. n \in S
  <2> HIDE DEF S
  <2> QED BY <1>1, <1>3, <1>4, UpTo
<1> QED BY <1>2, <1>5

\* The probe has the meaning its entry says.
Means(st, p) == p.index \in DOMAIN st.seen /\ st.seen[p.index] = p.entry

\* Later probes change no meaning, and take no conflict back.
Keeps(st, new) ==
    /\ st.conflict => new.conflict
    /\ \A i \in DOMAIN st.seen : i \in DOMAIN new.seen /\ new.seen[i] = st.seen[i]

LEMMA MeansKept ==
    ASSUME NEW st, NEW new, Keeps(st, new), NEW p, Means(st, p)
    PROVE  Means(new, p)
BY DEF Keeps, Means

LEMMA KeepsTransitive ==
    ASSUME NEW a, NEW b, NEW c, Keeps(a, b), Keeps(b, c)
    PROVE  Keeps(a, c)
BY DEF Keeps

LEMMA AddProbeKeeps ==
    ASSUME NEW st \in Merging, NEW p \in Probe
    PROVE  Keeps(st, AddProbe(st, p)) /\ (AddProbe(st, p).conflict \/ Means(AddProbe(st, p), p))
<1>1. st.conflict \in BOOLEAN /\ st = [seen |-> st.seen, conflict |-> st.conflict]
  BY DEF Merging
<1>2. CASE p.index \notin DOMAIN st.seen
  <2> DEFINE g == [i \in DOMAIN st.seen \union {p.index} |->
                     IF i = p.index THEN p.entry ELSE st.seen[i]]
  <2>1. /\ p.index \in DOMAIN g /\ g[p.index] = p.entry
        /\ \A i \in DOMAIN st.seen : i \in DOMAIN g /\ g[i] = st.seen[i]
    BY <1>2
  <2>2. AddProbe(st, p) = [st EXCEPT !.seen = g]
    BY <1>2 DEF AddProbe
  <2> HIDE DEF g
  <2>3. AddProbe(st, p).seen = g /\ AddProbe(st, p).conflict = st.conflict
    BY <1>1, <2>2
  <2> QED BY <2>1, <2>3 DEF Keeps, Means
<1>3. CASE p.index \in DOMAIN st.seen
  <2>1. AddProbe(st, p).seen = st.seen
    BY <1>1, <1>3 DEF AddProbe
  <2>2. AddProbe(st, p).conflict = (st.conflict \/ st.seen[p.index] # p.entry)
    BY <1>1, <1>3 DEF AddProbe
  <2> QED BY <1>3, <2>1, <2>2 DEF Keeps, Means
<1> QED BY <1>2, <1>3

\* Every meaning is a probe's, and a conflict is between two.
Stems(st, P) ==
    /\ \A i \in DOMAIN st.seen : \E p \in P : p.index = i /\ p.entry = st.seen[i]
    /\ st.conflict => \E p, q \in P : p.index = q.index /\ p.entry # q.entry

LEMMA AddProbeStems ==
    ASSUME NEW st \in Merging, NEW P, NEW p \in Probe, p \in P, Stems(st, P)
    PROVE  Stems(AddProbe(st, p), P)
<1>1. st.conflict \in BOOLEAN /\ st = [seen |-> st.seen, conflict |-> st.conflict]
  BY DEF Merging
<1>2. CASE p.index \notin DOMAIN st.seen
  <2> DEFINE g == [i \in DOMAIN st.seen \union {p.index} |->
                     IF i = p.index THEN p.entry ELSE st.seen[i]]
  <2>1. \A i \in DOMAIN g : \E q \in P : q.index = i /\ q.entry = g[i]
    BY <1>2 DEF Stems
  <2>2. AddProbe(st, p) = [st EXCEPT !.seen = g]
    BY <1>2 DEF AddProbe
  <2> HIDE DEF g
  <2>3. AddProbe(st, p).seen = g /\ AddProbe(st, p).conflict = st.conflict
    BY <1>1, <2>2
  <2> QED BY <2>1, <2>3 DEF Stems
<1>3. CASE p.index \in DOMAIN st.seen
  <2>1. AddProbe(st, p).seen = st.seen
    BY <1>1, <1>3 DEF AddProbe
  <2>2. AddProbe(st, p).conflict = (st.conflict \/ st.seen[p.index] # p.entry)
    BY <1>1, <1>3 DEF AddProbe
  <2>3. PICK q \in P : q.index = p.index /\ q.entry = st.seen[p.index]
    BY <1>3 DEF Stems
  <2>4. AddProbe(st, p).conflict => \E a, b \in P : a.index = b.index /\ a.entry # b.entry
    BY <2>2, <2>3 DEF Stems
  <2> QED BY <2>1, <2>4 DEF Stems
<1> QED BY <1>2, <1>3

\* A .probes file, added to what was there.
Added(st, new, map) ==
    /\ Keeps(st, new)
    /\ new.conflict \/ \A k \in 1..Len(map) : Means(new, map[k])

LEMMA AddProbes ==
    ASSUME NEW st \in Merging, NEW map \in Seq(Probe)
    PROVE  /\ Added(st, FoldLeft(AddProbe, st, map), map)
           /\ \A P : Stems(st, P) /\ Range(map) \subseteq P
                       => Stems(FoldLeft(AddProbe, st, map), P)
<1> DEFINE n == Len(map)
<1>1. n \in Nat /\ n \in 0..n /\ \A k \in 1..n : map[k] \in Probe /\ map[k] \in Range(map)
  BY DEF Range
<1>2. PICK acc : /\ acc[0] = st
                 /\ \A k \in 0..n : acc[k] \in Merging
                 /\ \A k \in 1..n : acc[k] = AddProbe(acc[k - 1], map[k])
                 /\ FoldLeft(AddProbe, st, map) = acc[n]
  BY AddProbesSteps
<1>3. ASSUME NEW k \in 1..n PROVE k - 1 \in 0..n /\ k \in 0..n /\ acc[k - 1] \in Merging
  BY <1>1, <1>2
<1> DEFINE S == {k \in 0..n : /\ Keeps(st, acc[k])
                              /\ acc[k].conflict \/ \A q \in 1..k : Means(acc[k], map[q])}
<1>4. 0 \in S
  BY <1>1, <1>2 DEF Keeps
<1>5. ASSUME NEW k \in 1..n, k - 1 \in S PROVE k \in S
  <2>1. /\ Keeps(acc[k - 1], acc[k])
        /\ acc[k].conflict \/ Means(acc[k], map[k])
    BY <1>1, <1>2, <1>3, AddProbeKeeps
  <2>2. Keeps(st, acc[k])
    BY <1>5, <2>1, KeepsTransitive
  <2>3. ASSUME NEW q \in 1..k PROVE acc[k].conflict \/ Means(acc[k], map[q])
    <3>1. CASE q = k
      BY <2>1, <3>1
    <3>2. CASE q # k
      <4>1. q \in 1..(k - 1)
        BY <3>2
      <4>2. acc[k - 1].conflict \/ Means(acc[k - 1], map[q])
        BY <1>5, <4>1
      <4>3. acc[k - 1].conflict => acc[k].conflict
        BY <2>1 DEF Keeps
      <4> QED BY <2>1, <4>2, <4>3, MeansKept
    <3> QED BY <3>1, <3>2
  <2> QED BY <1>3, <2>2, <2>3
<1>6. n \in S
  <2> HIDE DEF S
  <2> QED BY <1>1, <1>4, <1>5, UpTo
<1>7. ASSUME NEW P, Stems(st, P), Range(map) \subseteq P PROVE Stems(acc[n], P)
  <2> DEFINE T == {k \in 0..n : Stems(acc[k], P)}
  <2>1. 0 \in T
    BY <1>1, <1>2, <1>7
  <2>2. ASSUME NEW k \in 1..n, k - 1 \in T PROVE k \in T
    <3>1. Stems(acc[k - 1], P) /\ map[k] \in P /\ map[k] \in Probe
      BY <1>1, <1>7, <2>2
    <3>2. Stems(AddProbe(acc[k - 1], map[k]), P)
      BY <1>3, <3>1, AddProbeStems
    <3> QED BY <1>2, <1>3, <3>2
  <2>3. n \in T
    <3> HIDE DEF T
    <3> QED BY <1>1, <2>1, <2>2, UpTo
  <2> QED BY <2>3
<1> QED BY <1>2, <1>6, <1>7 DEF Added

\* The files that can be read, and their probes.
Readable(t) == files[t].map \notin {NoFile, Torn}
Written(order) == UNION {Range(files[t].map) : t \in {r \in Range(order) : Readable(r)}}

\* The merged maps: without a conflict every probe read has its meaning, and
\* every meaning is that of a probe read.
LEMMA MergedMaps ==
    ASSUME AgentTypes, NEW order \in Seq(Tasks)
    PROVE  /\ MergeMaps(order) \in Merging
           /\ MergeMaps(order).conflict \/ \A p \in Written(order) : Means(MergeMaps(order), p)
           /\ Stems(MergeMaps(order), Written(order))
<1> DEFINE n == Len(order)
<1>1. n \in Nat /\ n \in 0..n /\ \A k \in 1..n : order[k] \in Tasks /\ order[k] \in Range(order)
  BY DEF Range
<1>2. PICK acc : /\ acc[0] = MergeStart
                 /\ \A k \in 0..n : acc[k] \in Merging
                 /\ \A k \in 1..n : acc[k] = AddMap(acc[k - 1], order[k])
                 /\ MergeMaps(order) = acc[n]
  BY MergeMapsSteps
<1>3. ASSUME NEW k \in 1..n PROVE k - 1 \in 0..n /\ k \in 0..n /\ acc[k - 1] \in Merging
  BY <1>1, <1>2
<1>4. ASSUME NEW k \in 1..n
      PROVE  /\ Keeps(acc[k - 1], acc[k])
             /\ Readable(order[k]) =>
                  acc[k].conflict \/ \A p \in Range(files[order[k]].map) : Means(acc[k], p)
             /\ Stems(acc[k - 1], Written(order)) => Stems(acc[k], Written(order))
  <2> DEFINE map == files[order[k]].map
  <2>1. CASE ~Readable(order[k])
    BY <1>2, <2>1 DEF Readable, AddMap, Keeps
  <2>2. CASE Readable(order[k])
    <3>1. map \in Seq(Probe) /\ Range(map) \subseteq Written(order)
      BY <1>1, <2>2 DEF Readable, AgentTypes, Files, Written
    <3>2. acc[k] = FoldLeft(AddProbe, acc[k - 1], map)
      BY <1>2, <2>2 DEF Readable, AddMap
    <3> HIDE DEF map
    <3>3. Added(acc[k - 1], acc[k], map)
      BY <1>3, <3>1, <3>2, AddProbes
    <3>4. Stems(acc[k - 1], Written(order)) => Stems(acc[k], Written(order))
      BY <1>3, <3>1, <3>2, AddProbes
    <3>5. \A p \in Range(map) : \E q \in 1..Len(map) : p = map[q]
      BY <3>1 DEF Range
    <3>6. acc[k].conflict \/ \A p \in Range(map) : Means(acc[k], p)
      BY <3>3, <3>5 DEF Added
    <3> QED BY <3>3, <3>4, <3>6 DEF Added, map
  <2> QED BY <2>1, <2>2
<1> DEFINE S == {k \in 0..n :
                   /\ acc[k].conflict \/ \A q \in 1..k : Readable(order[q]) =>
                        \A p \in Range(files[order[q]].map) : Means(acc[k], p)
                   /\ Stems(acc[k], Written(order))}
<1>5. 0 \in S
  BY <1>1, <1>2 DEF Stems, MergeStart
<1>6. ASSUME NEW k \in 1..n, k - 1 \in S PROVE k \in S
  <2>1. ASSUME NEW q \in 1..k, Readable(order[q]), NEW p \in Range(files[order[q]].map)
        PROVE  acc[k].conflict \/ Means(acc[k], p)
    <3>1. CASE q = k
      BY <1>4, <2>1, <3>1
    <3>2. CASE q # k
      <4>1. q \in 1..(k - 1)
        BY <3>2
      <4>2. acc[k - 1].conflict \/ Means(acc[k - 1], p)
        BY <1>6, <2>1, <4>1
      <4>3. Keeps(acc[k - 1], acc[k])
        BY <1>4
      <4>4. acc[k - 1].conflict => acc[k].conflict
        BY <4>3 DEF Keeps
      <4> QED BY <4>2, <4>3, <4>4, MeansKept
    <3> QED BY <3>1, <3>2
  <2>2. Stems(acc[k], Written(order))
    BY <1>4, <1>6
  <2> QED BY <1>3, <2>1, <2>2
<1>7. n \in S
  <2> HIDE DEF S
  <2> QED BY <1>1, <1>5, <1>6, UpTo
<1>8. ASSUME NEW p \in Written(order)
      PROVE  \E q \in 1..n : Readable(order[q]) /\ p \in Range(files[order[q]].map)
  <2>1. PICK t \in Range(order) : Readable(t) /\ p \in Range(files[t].map)
    BY DEF Written
  <2>2. PICK q \in DOMAIN order : t = order[q]
    BY DEF Range
  <2>3. DOMAIN order = 1..n
    OBVIOUS
  <2> HIDE DEF n
  <2> QED BY <2>1, <2>2, <2>3
<1> QED BY <1>1, <1>2, <1>7, <1>8

-----------------------------------------------------------------------------
(* The inductive invariant *)

\* The map of a JVM has the probes of its copies, and no others.
MapsComplete == \A j \in Jvms :
    Range(jvm[j].map) =
      UNION {Range(Probes(jvm[j].copies[c].version)) : c \in DOMAIN jvm[j].copies}

\* A hit in an array is that of a probe in the map, and its line was executed.
Happened(j, i) == \E p \in Range(jvm[j].map), e \in ran : p.index = i /\ p.entry.line = e.line
HitsExplained == \A j \in Jvms : \A i \in jvm[j].array.hits : Happened(j, i)

\* The array in the store is long enough for every copy that has one, and as
\* long as some copy needs; the hook writes nothing without one.
ArraysFit == \A j \in Jvms :
    /\ \A c \in DOMAIN jvm[j].copies :
         jvm[j].copies[c].array > 0 => Needs(j, c) <= jvm[j].array.len
    /\ jvm[j].gen > 0 => \E c \in DOMAIN jvm[j].copies : jvm[j].array.len = Needs(j, c)
    /\ jvm[j].pc \in {"data", "map"} => jvm[j].gen > 0

\* An array being made is for one of the copies, and has no other hits.
GrowthFits == \A j \in Jvms : jvm[j].growing > 0 =>
    /\ jvm[j].growing \in DOMAIN jvm[j].copies
    /\ jvm[j].grown.len = Needs(j, jvm[j].growing) /\ jvm[j].grown.len > jvm[j].array.len
    /\ jvm[j].grown.hits \subseteq jvm[j].array.hits

\* Whose a .omnivore file is, and what is in it.
DataOf(t, j) ==
    /\ task[j] = t /\ jvm[j].pc \in {"map", "down"} /\ files[t].data \in Array
    /\ \A i \in files[t].data.hits : Happened(j, i)
    /\ \E c \in DOMAIN jvm[j].copies : files[t].data.len = Needs(j, c)
DataAt(t) == IF files[t].dataBy = NoJvm THEN files[t].data \in {NoFile, Torn}
             ELSE DataOf(t, files[t].dataBy)
DataWritten == \A t \in Tasks : DataAt(t)

\* Whose a .probes file is: it is the whole map, and stays so.
MapOf(t, j) ==
    /\ jvm[j].pc = "down" /\ files[t].map = jvm[j].map
    /\ DOMAIN jvm[j].copies # {}
MapAt(t) == IF files[t].mapBy = NoJvm THEN files[t].map \in {NoFile, Torn}
            ELSE MapOf(t, files[t].mapBy)
MapWritten == \A t \in Tasks : MapAt(t)

\* A hit to be reported is in the array, in the one being made of that if any,
\* and in the file once that is written.
Holds(j, i) == /\ i \in jvm[j].array.hits /\ i < jvm[j].array.len
               /\ jvm[j].growing > 0 => i \in jvm[j].grown.hits
KeptIn(e, p) ==
    /\ p.entry.line = e.line /\ Holds(e.jvm, p.index)
    /\ files[task[e.jvm]].dataBy = e.jvm =>
         /\ p.index \in files[task[e.jvm]].data.hits
         /\ p.index < files[task[e.jvm]].data.len
Reported(e) == \E p \in Range(jvm[e.jvm].map) : KeptIn(e, p)
KeptWritten == \A e \in ran : e.kept => Reported(e)

AgentInv ==
    /\ AgentTypes /\ MapsComplete /\ HitsExplained /\ ArraysFit /\ GrowthFits
    /\ DataWritten /\ MapWritten /\ KeptWritten

\* What is in a JVM.
LEMMA JvmFacts ==
    ASSUME AgentTypes, NEW j \in Jvms
    PROVE  /\ jvm[j].pc \in {"running", "data", "map", "down"}
           /\ jvm[j].array \in Array /\ jvm[j].array.len \in Nat /\ jvm[j].array.hits \subseteq Nat
           /\ jvm[j].gen \in Nat /\ jvm[j].map \in Seq(Probe) /\ task[j] \in Tasks
           /\ jvm[j].growing \in Nat /\ jvm[j].grown \in Array
           /\ jvm[j].copies \in Seq([version: Versions, array: Nat])
           /\ Len(jvm[j].copies) \in Nat /\ DOMAIN jvm[j].copies = 1..Len(jvm[j].copies)
           /\ \A c \in DOMAIN jvm[j].copies :
                jvm[j].copies[c].version \in Versions /\ jvm[j].copies[c].array \in Nat
<1>1. jvm[j] \in Agents /\ task[j] \in Tasks
  BY DEF AgentTypes
<1>2. /\ jvm[j].pc \in {"running", "data", "map", "down"} /\ jvm[j].array \in Array
      /\ jvm[j].gen \in Nat /\ jvm[j].map \in Seq(Probe)
      /\ jvm[j].growing \in Nat /\ jvm[j].grown \in Array
      /\ jvm[j].copies \in Seq([version: Versions, array: Nat])
  BY <1>1 DEF Agents
<1>3. jvm[j].array.len \in Nat /\ jvm[j].array.hits \subseteq Nat
  <2>1. jvm[j].array \in Array
    BY <1>2
  <2> QED BY <2>1 DEF Array
<1>4. /\ Len(jvm[j].copies) \in Nat /\ DOMAIN jvm[j].copies = 1..Len(jvm[j].copies)
      /\ \A c \in DOMAIN jvm[j].copies : jvm[j].copies[c] \in [version: Versions, array: Nat]
  <2> DEFINE V == [version: Versions, array: Nat]
             copies == jvm[j].copies
  <2>1. copies \in Seq(V)
    BY <1>2
  <2> HIDE DEF V, copies
  <2>2. /\ Len(copies) \in Nat /\ DOMAIN copies = 1..Len(copies)
        /\ \A c \in DOMAIN copies : copies[c] \in V
    BY <2>1
  <2> QED BY <2>2 DEF V, copies
<1> QED BY <1>1, <1>2, <1>3, <1>4

\* A JVM only gets more copies and probes, what is to be reported stays in its
\* arrays, and nothing changes once it is down.
Grows(j) ==
    /\ jvm[j].pc \in {"map", "down"} => jvm'[j].pc \in {"map", "down"}
    /\ jvm[j].pc = "down" => jvm'[j].pc = "down" /\ jvm'[j].map = jvm[j].map
    /\ \A i \in Nat : Holds(j, i) => Holds(j, i)'
    /\ Range(jvm[j].map) \subseteq Range(jvm'[j].map)
    /\ \A c \in DOMAIN jvm[j].copies : /\ c \in DOMAIN jvm'[j].copies
                                       /\ jvm'[j].copies[c].version = jvm[j].copies[c].version

LEMMA Unmoved ==
    ASSUME AgentTypes, NEW j \in Jvms, jvm'[j] = jvm[j]
    PROVE  Grows(j)
BY JvmFacts DEF Grows, Holds

LEMMA NeedsKept ==
    ASSUME NEW j \in Jvms, Grows(j), NEW c \in DOMAIN jvm[j].copies
    PROVE  c \in DOMAIN jvm'[j].copies /\ Needs(j, c)' = Needs(j, c)
<1>1. c \in DOMAIN jvm'[j].copies /\ jvm'[j].copies[c].version = jvm[j].copies[c].version
  BY DEF Grows
<1> QED BY <1>1 DEF Needs

\* A hit that was explained stays so.
LEMMA HitsPersist ==
    ASSUME NEW j \in Jvms, Grows(j), ran \subseteq ran', NEW i, Happened(j, i)
    PROVE  Happened(j, i)'
<1>1. PICK p \in Range(jvm[j].map), e \in ran : p.index = i /\ p.entry.line = e.line
  BY DEF Happened
<1>2. p \in Range(jvm'[j].map) /\ e \in ran'
  BY DEF Grows
<1> QED BY <1>1, <1>2 DEF Happened

\* While the JVMs grow, a file nobody writes stays what it was.
LEMMA DataPersists ==
    ASSUME AgentInv, \A j \in Jvms : Grows(j), task' = task, ran \subseteq ran', NEW t \in Tasks,
           files'[t].data = files[t].data, files'[t].dataBy = files[t].dataBy
    PROVE  DataAt(t)'
<1>1. ASSUME NEW j \in Jvms, DataOf(t, j) PROVE DataOf(t, j)'
  <2>1. Grows(j)
    OBVIOUS
  <2>2. /\ task[j] = t /\ jvm[j].pc \in {"map", "down"} /\ files[t].data \in Array
        /\ \A i \in files[t].data.hits : Happened(j, i)
    BY <1>1 DEF DataOf
  <2>3. PICK c \in DOMAIN jvm[j].copies : files[t].data.len = Needs(j, c)
    BY <1>1 DEF DataOf
  <2>4. c \in DOMAIN jvm'[j].copies /\ Needs(j, c)' = Needs(j, c)
    BY <2>1, NeedsKept
  <2>5. jvm'[j].pc \in {"map", "down"}
    BY <2>1, <2>2 DEF Grows
  <2>6. ASSUME NEW i \in files[t].data.hits PROVE Happened(j, i)'
    BY <2>1, <2>2, HitsPersist
  <2> QED BY <2>2, <2>3, <2>4, <2>5, <2>6 DEF DataOf
<1>2. files[t].dataBy # NoJvm => files[t].dataBy \in Jvms
  BY DEF AgentInv, AgentTypes, Files
<1>3. DataAt(t)
  BY DEF AgentInv, DataWritten
<1> QED BY <1>1, <1>2, <1>3 DEF DataAt

LEMMA MapPersists ==
    ASSUME AgentInv, \A j \in Jvms : Grows(j), NEW t \in Tasks,
           files'[t].map = files[t].map, files'[t].mapBy = files[t].mapBy
    PROVE  MapAt(t)'
<1>1. ASSUME NEW j \in Jvms, MapOf(t, j) PROVE MapOf(t, j)'
  <2>1. Grows(j) /\ jvm[j].pc = "down" /\ files[t].map = jvm[j].map
    BY <1>1 DEF MapOf
  <2>2. PICK c \in DOMAIN jvm[j].copies : TRUE
    BY <1>1 DEF MapOf
  <2>3. c \in DOMAIN jvm'[j].copies /\ jvm'[j].pc = "down" /\ jvm'[j].map = jvm[j].map
    BY <2>1, <2>2 DEF Grows
  <2> QED BY <2>1, <2>3 DEF MapOf
<1>2. files[t].mapBy # NoJvm => files[t].mapBy \in Jvms
  BY DEF AgentInv, AgentTypes, Files
<1>3. MapAt(t)
  BY DEF AgentInv, MapWritten
<1> QED BY <1>1, <1>2, <1>3 DEF MapAt

\* A hit that is to be reported stays in the array, and in a file nobody writes.
LEMMA KeptPersists ==
    ASSUME AgentInv, task' = task, NEW e \in ran, e.kept, Grows(e.jvm),
           files'[task[e.jvm]].dataBy # e.jvm
             \/ /\ files'[task[e.jvm]].data = files[task[e.jvm]].data
                /\ files'[task[e.jvm]].dataBy = files[task[e.jvm]].dataBy
             \/ files'[task[e.jvm]].data = jvm'[e.jvm].array
    PROVE  Reported(e)'
<1>1. PICK p \in Range(jvm[e.jvm].map) : KeptIn(e, p)
  BY DEF AgentInv, KeptWritten, Reported
<1>2. e.jvm \in Jvms
  BY DEF AgentInv, AgentTypes
<1>3. p \in Range(jvm'[e.jvm].map)
  BY <1>1 DEF Grows
<1>4. Holds(e.jvm, p.index)'
  <2>1. jvm[e.jvm].map \in Seq(Probe)
    BY <1>2, JvmFacts DEF AgentInv
  <2>2. p \in Probe
    BY <2>1 DEF Range
  <2>3. p.index \in Nat
    BY <2>2 DEF Probe
  <2> QED BY <1>1, <2>3 DEF Grows, KeptIn
<1>5. KeptIn(e, p)'
  BY <1>1, <1>4 DEF KeptIn, Holds
<1> QED BY <1>3, <1>5 DEF Reported

LEMMA Persist ==
    ASSUME AgentInv, \A j \in Jvms : Grows(j), task' = task, files' = files, ran \subseteq ran'
    PROVE  /\ DataWritten' /\ MapWritten'
           /\ \A j \in Jvms : \A i \in jvm[j].array.hits : Happened(j, i)'
           /\ \A e \in ran : e.kept => Reported(e)'
<1>1. ASSUME NEW e \in ran, e.kept PROVE Reported(e)'
  <2>1. Grows(e.jvm)
    BY DEF AgentInv, AgentTypes
  <2> QED BY <1>1, <2>1, KeptPersists
<1>2. ASSUME NEW j \in Jvms, NEW i \in jvm[j].array.hits PROVE Happened(j, i)'
  <2>1. Grows(j) /\ Happened(j, i)
    BY DEF AgentInv, HitsExplained
  <2> QED BY <2>1, HitsPersist
<1> QED BY <1>1, <1>2, DataPersists, MapPersists DEF DataWritten, MapWritten

LEMMA TransformInv ==
    ASSUME AgentInv, NEW j \in Jvms, NEW v \in Versions, Transform(j, v)
    PROVE  AgentInv'
<1> DEFINE new == [version |-> v, array |-> 0]
           copies == Append(jvm[j].copies, new)
           map == jvm[j].map \o Probes(v)
<1> USE DEF AgentInv
<1>1. task' = task /\ files' = files /\ ran' = ran /\ jvm[j].pc # "down"
  BY DEF Transform, Alive
<1>2. /\ Probes(v) \in Seq(Probe) /\ map \in Seq(Probe)
      /\ Range(map) = Range(jvm[j].map) \union Range(Probes(v))
  <2>1. Probes(v) \in Seq(Probe) /\ jvm[j].map \in Seq(Probe)
    BY ProbesAndStores, JvmFacts
  <2> QED BY <2>1, RangeConcat
<1>3. /\ copies \in Seq([version: Versions, array: Nat])
      /\ DOMAIN copies = DOMAIN jvm[j].copies \union {Len(jvm[j].copies) + 1}
      /\ \A c \in DOMAIN jvm[j].copies : copies[c] = jvm[j].copies[c]
      /\ copies[Len(jvm[j].copies) + 1] = new
  <2> DEFINE V == [version: Versions, array: Nat]
  <2>1. jvm[j].copies \in Seq(V) /\ new \in V
    BY JvmFacts
  <2> HIDE DEF V, new
  <2>2. /\ copies \in Seq(V)
        /\ DOMAIN copies = DOMAIN jvm[j].copies \union {Len(jvm[j].copies) + 1}
        /\ \A c \in DOMAIN jvm[j].copies : copies[c] = jvm[j].copies[c]
        /\ copies[Len(jvm[j].copies) + 1] = new
    BY <2>1, AppendElements
  <2> QED BY <2>2 DEF V
<1>4. jvm' = [jvm EXCEPT ![j].copies = copies, ![j].map = map]
  BY DEF Transform
<1> HIDE DEF copies, map, new
<1>5. /\ jvm' \in [Jvms -> Agents] /\ (\A i \in Jvms \ {j} : jvm'[i] = jvm[i])
      /\ jvm'[j].pc = jvm[j].pc /\ jvm'[j].array = jvm[j].array /\ jvm'[j].gen = jvm[j].gen
      /\ jvm'[j].growing = jvm[j].growing /\ jvm'[j].grown = jvm[j].grown
      /\ jvm'[j].copies = copies /\ jvm'[j].map = map
  BY <1>2, <1>3, <1>4 DEF AgentTypes, Agents
<1>6. AgentTypes'
  BY <1>1, <1>5 DEF AgentTypes
<1>7. Grows(j)
  BY <1>1, <1>2, <1>3, <1>5, JvmFacts DEF Grows, Holds
<1>8. \A i \in Jvms : Grows(i)
  BY <1>5, <1>7, Unmoved
<1>9. /\ DataWritten' /\ MapWritten'
      /\ \A i \in Jvms : \A h \in jvm[i].array.hits : Happened(i, h)'
      /\ \A e \in ran : e.kept => Reported(e)'
  BY <1>1, <1>8, Persist
<1>10. HitsExplained' /\ KeptWritten'
  BY <1>1, <1>5, <1>9 DEF HitsExplained, KeptWritten
<1>11. MapsComplete'
  <2>1. UNION {Range(Probes(copies[c].version)) : c \in DOMAIN copies} = Range(map)
    <3> DEFINE U == UNION {Range(Probes(jvm[j].copies[c].version)) : c \in DOMAIN jvm[j].copies}
    <3>1. Range(map) = U \union Range(Probes(v))
      BY <1>2 DEF MapsComplete
    <3>2. UNION {Range(Probes(copies[c].version)) : c \in DOMAIN copies}
            = U \union Range(Probes(copies[Len(jvm[j].copies) + 1].version))
      BY <1>3
    <3>3. copies[Len(jvm[j].copies) + 1].version = v
      BY <1>3 DEF new
    <3> QED BY <3>1, <3>2, <3>3
  <2>2. ASSUME NEW i \in Jvms
        PROVE  Range(jvm'[i].map) =
                 UNION {Range(Probes(jvm'[i].copies[c].version)) : c \in DOMAIN jvm'[i].copies}
    BY <1>5, <2>1 DEF MapsComplete
  <2> QED BY <2>2 DEF MapsComplete
<1>12. ArraysFit'
  <2>1. ASSUME NEW c \in DOMAIN copies, copies[c].array > 0
        PROVE  c \in DOMAIN jvm[j].copies /\ copies[c] = jvm[j].copies[c]
    BY <1>3, <2>1 DEF new
  <2>2. ASSUME NEW c \in DOMAIN jvm'[j].copies, jvm'[j].copies[c].array > 0
        PROVE  Needs(j, c)' <= jvm'[j].array.len
    <3>1. c \in DOMAIN jvm[j].copies /\ jvm[j].copies[c].array > 0
      BY <1>5, <2>1, <2>2
    <3> QED BY <1>5, <1>7, <3>1, NeedsKept DEF ArraysFit
  <2>3. jvm'[j].gen > 0 => \E c \in DOMAIN jvm'[j].copies : jvm'[j].array.len = Needs(j, c)'
    BY <1>5, <1>7, NeedsKept DEF ArraysFit
  <2>4. ASSUME NEW i \in Jvms \ {j}, NEW c \in DOMAIN jvm[i].copies PROVE Needs(i, c)' = Needs(i, c)
    BY <1>8, NeedsKept
  <2> QED BY <1>5, <2>2, <2>3, <2>4 DEF ArraysFit
<1>13. GrowthFits'
  <2>1. \A i \in Jvms : \A c \in DOMAIN jvm[i].copies :
          c \in DOMAIN jvm'[i].copies /\ Needs(i, c)' = Needs(i, c)
    BY <1>8, NeedsKept
  <2> QED BY <1>5, <2>1 DEF GrowthFits
<1> QED BY <1>6, <1>9, <1>10, <1>11, <1>12, <1>13

\* A new array is as long as the copy needs, or the old one was longer.
LEMMA GrownArray ==
    ASSUME NEW array \in Array, NEW n \in Nat
    PROVE  /\ Grown(array, n) \in Array /\ Grown(array, n).hits = array.hits
           /\ Grown(array, n).len \in Nat /\ array.len \in Nat
           /\ array.len <= Grown(array, n).len /\ n <= Grown(array, n).len
           /\ Grown(array, n).len > array.len => Grown(array, n).len = n
BY DEF Grown, Array

\* A step of <clinit> changes the arrays of a JVM and what its fields hold.
LEMMA ArrayStep ==
    ASSUME AgentInv, NEW j \in Jvms, NEW new \in Agents, jvm' = [jvm EXCEPT ![j] = new],
           task' = task, files' = files, ran' = ran,
           new.pc = jvm[j].pc, new.map = jvm[j].map, jvm[j].gen <= new.gen,
           DOMAIN new.copies = DOMAIN jvm[j].copies,
           \A d \in DOMAIN new.copies : new.copies[d].version = jvm[j].copies[d].version,
           \A d \in DOMAIN new.copies : new.copies[d].array > 0 => Needs(j, d) <= new.array.len,
           new.gen > 0 => \E d \in DOMAIN new.copies : new.array.len = Needs(j, d),
           new.growing > 0 => /\ new.growing \in DOMAIN new.copies
                              /\ new.grown.len = Needs(j, new.growing)
                              /\ new.grown.len > new.array.len
                              /\ new.grown.hits \subseteq new.array.hits,
           new.array.hits \subseteq jvm[j].array.hits,
           \A i \in Nat : Holds(j, i) => /\ i \in new.array.hits /\ i < new.array.len
                                         /\ new.growing > 0 => i \in new.grown.hits
    PROVE  AgentInv'
<1> USE DEF AgentInv
<1>1. /\ jvm' \in [Jvms -> Agents] /\ (\A i \in Jvms \ {j} : jvm'[i] = jvm[i]) /\ jvm'[j] = new
  BY DEF AgentTypes
<1>2. AgentTypes'
  BY <1>1 DEF AgentTypes
<1>3. Grows(j)
  BY <1>1 DEF Grows, Holds
<1>4. \A i \in Jvms : Grows(i)
  BY <1>1, <1>3, Unmoved
<1>5. /\ DataWritten' /\ MapWritten'
      /\ \A i \in Jvms : \A h \in jvm[i].array.hits : Happened(i, h)'
      /\ \A e \in ran : e.kept => Reported(e)'
  BY <1>4, Persist
<1>6. HitsExplained' /\ KeptWritten'
  BY <1>1, <1>5 DEF HitsExplained, KeptWritten
<1>7. MapsComplete'
  <2>1. UNION {Range(Probes(new.copies[d].version)) : d \in DOMAIN new.copies}
          = UNION {Range(Probes(jvm[j].copies[d].version)) : d \in DOMAIN jvm[j].copies}
    OBVIOUS
  <2>2. ASSUME NEW i \in Jvms
        PROVE  Range(jvm'[i].map) =
                 UNION {Range(Probes(jvm'[i].copies[d].version)) : d \in DOMAIN jvm'[i].copies}
    BY <1>1, <2>1 DEF MapsComplete
  <2> QED BY <2>2 DEF MapsComplete
<1>8. \A i \in Jvms : \A d \in DOMAIN jvm[i].copies :
        d \in DOMAIN jvm'[i].copies /\ Needs(i, d)' = Needs(i, d)
  BY <1>4, NeedsKept
<1>9. ArraysFit'
  <2>1. jvm[j].gen \in Nat /\ new.gen \in Nat
    BY JvmFacts DEF Agents
  <2>2. new.pc \in {"data", "map"} => new.gen > 0
    BY <2>1 DEF ArraysFit
  <2>3. ASSUME NEW i \in Jvms
        PROVE  /\ \A d \in DOMAIN jvm'[i].copies :
                    jvm'[i].copies[d].array > 0 => Needs(i, d)' <= jvm'[i].array.len
               /\ jvm'[i].gen > 0 => \E d \in DOMAIN jvm'[i].copies :
                                       jvm'[i].array.len = Needs(i, d)'
               /\ jvm'[i].pc \in {"data", "map"} => jvm'[i].gen > 0
    <3>1. CASE i = j
      BY <1>1, <1>8, <2>2, <3>1
    <3>2. CASE i # j
      BY <1>1, <1>8, <3>2 DEF ArraysFit
    <3> QED BY <3>1, <3>2
  <2> QED BY <2>3 DEF ArraysFit
<1>10. GrowthFits'
  <2>1. ASSUME NEW i \in Jvms, jvm'[i].growing > 0
        PROVE  /\ jvm'[i].growing \in DOMAIN jvm'[i].copies
               /\ jvm'[i].grown.len = Needs(i, jvm[i].growing)'
               /\ jvm'[i].grown.len > jvm'[i].array.len
               /\ jvm'[i].grown.hits \subseteq jvm'[i].array.hits
    <3>1. CASE i = j
      BY <1>1, <1>8, <2>1, <3>1
    <3>2. CASE i # j
      BY <1>1, <1>8, <2>1, <3>2 DEF GrowthFits
    <3> QED BY <3>1, <3>2
  <2> QED BY <2>1 DEF GrowthFits
<1> QED BY <1>2, <1>5, <1>6, <1>7, <1>9, <1>10

\* A field gets an array.
FieldSet(j, c, gen) == [jvm[j].copies EXCEPT ![c].array = gen]
LEMMA FieldIsSet ==
    ASSUME AgentTypes, NEW j \in Jvms, NEW c \in DOMAIN jvm[j].copies, NEW gen \in Nat
    PROVE  /\ FieldSet(j, c, gen) \in Seq([version: Versions, array: Nat])
           /\ DOMAIN FieldSet(j, c, gen) = DOMAIN jvm[j].copies
           /\ \A d \in DOMAIN jvm[j].copies :
                /\ FieldSet(j, c, gen)[d].version = jvm[j].copies[d].version
                /\ FieldSet(j, c, gen)[d].array = IF d = c THEN gen ELSE jvm[j].copies[d].array
<1> DEFINE copies == [jvm[j].copies EXCEPT ![c].array = gen]
           V == [version: Versions, array: Nat]
           n == Len(jvm[j].copies)
<1>1. jvm[j].copies \in Seq(V)
  BY JvmFacts
<1>2. jvm[j].copies \in [1..n -> V] /\ n \in Nat
  <2> HIDE DEF V
  <2> QED BY <1>1
<1>3. copies \in [1..n -> V]
  BY <1>2
<1>4. copies \in Seq(V)
  <2> HIDE DEF V, n, copies
  <2> QED BY <1>2, <1>3
<1> QED BY <1>2, <1>4 DEF FieldSet

LEMMA InitialiseInv ==
    ASSUME AgentInv, NEW j \in Jvms, NEW c \in DOMAIN jvm[j].copies, Initialise(j, c)
    PROVE  AgentInv'
<1> DEFINE array == Grown(jvm[j].array, Needs(j, c))
           gen == jvm[j].gen + (IF array.len > jvm[j].array.len THEN 1 ELSE 0)
           copies == FieldSet(j, c, gen)
           new == [jvm[j] EXCEPT !.array = array, !.gen = gen, !.copies = copies]
<1> USE DEF AgentInv
<1>1. task' = task /\ files' = files /\ ran' = ran /\ jvm[j].growing = 0
  BY DEF Initialise, Waiting
<1>2. /\ jvm[j].copies[c].version \in Versions /\ jvm[j].array \in Array /\ jvm[j].gen \in Nat
      /\ jvm[j].array.hits \subseteq Nat /\ Needs(j, c) \in Nat
      /\ jvm[j] \in Agents /\ jvm \in [Jvms -> Agents]
  BY JvmFacts, ProbesAndStores DEF Needs, AgentTypes
<1>3. /\ array \in Array /\ array.hits = jvm[j].array.hits /\ array.len \in Nat
      /\ jvm[j].array.len \in Nat
      /\ jvm[j].array.len <= array.len /\ Needs(j, c) <= array.len
      /\ array.len > jvm[j].array.len => array.len = Needs(j, c)
  BY <1>2, GrownArray
<1>4. jvm' = [jvm EXCEPT ![j].array = array, ![j].gen = gen, ![j].copies[c].array = gen]
  BY DEF Initialise
<1> HIDE DEF array
<1>5. /\ gen \in Nat /\ jvm[j].gen <= gen
      /\ gen = jvm[j].gen => array.len = jvm[j].array.len
      /\ gen # jvm[j].gen => array.len = Needs(j, c)
  BY <1>2, <1>3
<1> HIDE DEF gen
<1>6. /\ copies \in Seq([version: Versions, array: Nat])
      /\ DOMAIN copies = DOMAIN jvm[j].copies
      /\ \A d \in DOMAIN copies :
           /\ copies[d].version = jvm[j].copies[d].version
           /\ copies[d].array = IF d = c THEN gen ELSE jvm[j].copies[d].array
  <2>1. AgentTypes /\ gen \in Nat
    BY <1>5
  <2>2. /\ FieldSet(j, c, gen) \in Seq([version: Versions, array: Nat])
        /\ DOMAIN FieldSet(j, c, gen) = DOMAIN jvm[j].copies
        /\ \A d \in DOMAIN jvm[j].copies :
             /\ FieldSet(j, c, gen)[d].version = jvm[j].copies[d].version
             /\ FieldSet(j, c, gen)[d].array = IF d = c THEN gen ELSE jvm[j].copies[d].array
    BY <2>1, FieldIsSet
  <2>3. copies = FieldSet(j, c, gen)
    BY <1>5
  <2> HIDE DEF copies
  <2> QED BY <2>2, <2>3
<1>7. jvm' = [jvm EXCEPT ![j] = new]
  BY <1>2, <1>4 DEF FieldSet
<1> HIDE DEF copies
<1>8. /\ new \in Agents /\ new.pc = jvm[j].pc /\ new.map = jvm[j].map /\ new.gen = gen
      /\ new.copies = copies /\ new.array = array /\ new.growing = 0
  BY <1>1, <1>2, <1>3, <1>5, <1>6 DEF Agents
<1> HIDE DEF new
<1>9. \A d \in DOMAIN copies : copies[d].array > 0 => Needs(j, d) <= array.len
  <2>1. ASSUME NEW d \in DOMAIN copies, copies[d].array > 0, d # c
        PROVE  Needs(j, d) <= array.len
    <3>1. d \in DOMAIN jvm[j].copies /\ jvm[j].copies[d].array > 0
      BY <1>6, <2>1
    <3>2. Needs(j, d) <= jvm[j].array.len /\ Needs(j, d) \in Nat
      BY <3>1, JvmFacts, ProbesAndStores DEF ArraysFit, Needs
    <3> QED BY <1>3, <3>2
  <2> QED BY <1>3, <2>1
<1>10. gen > 0 => \E d \in DOMAIN copies : array.len = Needs(j, d)
  BY <1>5, <1>6 DEF ArraysFit
<1>11. \A i \in Nat : Holds(j, i) => i \in array.hits /\ i < array.len
  BY <1>3 DEF Holds
<1>12. /\ DOMAIN new.copies = DOMAIN jvm[j].copies
       /\ \A d \in DOMAIN new.copies : new.copies[d].version = jvm[j].copies[d].version
       /\ \A d \in DOMAIN new.copies : new.copies[d].array > 0 => Needs(j, d) <= new.array.len
       /\ new.gen > 0 => \E d \in DOMAIN new.copies : new.array.len = Needs(j, d)
       /\ new.array.hits \subseteq jvm[j].array.hits /\ jvm[j].gen <= new.gen
       /\ \A i \in Nat : Holds(j, i) => i \in new.array.hits /\ i < new.array.len
       /\ ~(new.growing > 0)
  BY <1>3, <1>5, <1>6, <1>8, <1>9, <1>10, <1>11
<1> QED BY <1>1, <1>7, <1>8, <1>12, ArrayStep

LEMMA GrowInv ==
    ASSUME AgentInv, NEW j \in Jvms, NEW c \in DOMAIN jvm[j].copies, Grow(j, c)
    PROVE  AgentInv'
<1> DEFINE grown == Grown(jvm[j].array, Needs(j, c))
           new == [jvm[j] EXCEPT !.growing = c, !.grown = grown]
<1> USE DEF AgentInv
<1>1. /\ task' = task /\ files' = files /\ ran' = ran
      /\ Needs(j, c) > jvm[j].array.len
  BY DEF Grow
<1>2. /\ jvm[j].copies[c].version \in Versions /\ jvm[j].array \in Array /\ jvm[j].gen \in Nat
      /\ Needs(j, c) \in Nat /\ c \in Nat
      /\ jvm[j] \in Agents /\ jvm \in [Jvms -> Agents]
  BY JvmFacts, ProbesAndStores DEF Needs, AgentTypes
<1>3. /\ grown \in Array /\ grown.hits = jvm[j].array.hits
      /\ grown.len = Needs(j, c) /\ grown.len > jvm[j].array.len
  <2>1. /\ grown \in Array /\ grown.hits = jvm[j].array.hits /\ grown.len \in Nat
        /\ jvm[j].array.len \in Nat /\ Needs(j, c) <= grown.len
        /\ grown.len > jvm[j].array.len => grown.len = Needs(j, c)
    BY <1>2, GrownArray
  <2> HIDE DEF grown
  <2> QED BY <1>1, <1>2, <2>1
<1>4. jvm' = [jvm EXCEPT ![j].growing = c, ![j].grown = grown]
  BY DEF Grow
<1> HIDE DEF grown
<1>5. jvm' = [jvm EXCEPT ![j] = new]
  BY <1>2, <1>4
<1>6. /\ new \in Agents /\ new.pc = jvm[j].pc /\ new.map = jvm[j].map /\ new.gen = jvm[j].gen
      /\ new.copies = jvm[j].copies /\ new.array = jvm[j].array
      /\ new.growing = c /\ new.grown = grown
  BY <1>2, <1>3 DEF Agents
<1> HIDE DEF new
<1>7. \A d \in DOMAIN jvm[j].copies :
        jvm[j].copies[d].array > 0 => Needs(j, d) <= jvm[j].array.len
  BY DEF ArraysFit
<1>8. jvm[j].gen > 0 => \E d \in DOMAIN jvm[j].copies : jvm[j].array.len = Needs(j, d)
  BY DEF ArraysFit
<1>9. \A i \in Nat : Holds(j, i) => /\ i \in jvm[j].array.hits /\ i < jvm[j].array.len
                                    /\ i \in grown.hits
  BY <1>3 DEF Holds
<1>10. jvm[j].gen <= jvm[j].gen
  BY <1>2
<1> QED BY <1>1, <1>3, <1>5, <1>6, <1>7, <1>8, <1>9, <1>10, ArrayStep

LEMMA PublishInv ==
    ASSUME AgentInv, NEW j \in Jvms, Publish(j)
    PROVE  AgentInv'
<1> DEFINE gen == jvm[j].gen + 1
           array == jvm[j].grown
           copies == FieldSet(j, jvm[j].growing, gen)
           new == [jvm[j] EXCEPT !.array = array, !.gen = gen, !.copies = copies,
                                 !.growing = 0, !.grown = NoArray]
<1> USE DEF AgentInv
<1>1. task' = task /\ files' = files /\ ran' = ran /\ jvm[j].growing > 0
  BY DEF Publish
<1>2. /\ jvm[j].growing \in DOMAIN jvm[j].copies
      /\ array.len = Needs(j, jvm[j].growing) /\ array.len > jvm[j].array.len
      /\ array.hits \subseteq jvm[j].array.hits
  BY <1>1 DEF GrowthFits
<1>3. PICK c \in DOMAIN jvm[j].copies : c = jvm[j].growing
  BY <1>2
<1>4. /\ array \in Array /\ array.len \in Nat /\ jvm[j].array.len \in Nat
      /\ jvm[j].gen \in Nat /\ gen \in Nat /\ jvm[j].gen <= gen
      /\ jvm[j] \in Agents /\ jvm \in [Jvms -> Agents]
      /\ NoArray \in Array
  BY JvmFacts DEF AgentTypes, Array, NoArray
<1>5. jvm' = [jvm EXCEPT ![j].array = array, ![j].gen = @ + 1,
                         ![j].copies[jvm[j].growing].array = gen,
                         ![j].growing = 0, ![j].grown = NoArray]
  BY DEF Publish
<1>6. /\ copies \in Seq([version: Versions, array: Nat])
      /\ DOMAIN copies = DOMAIN jvm[j].copies
      /\ \A d \in DOMAIN copies :
           /\ copies[d].version = jvm[j].copies[d].version
           /\ copies[d].array = IF d = c THEN gen ELSE jvm[j].copies[d].array
  <2>1. AgentTypes /\ gen \in Nat
    BY <1>3, <1>4
  <2>2. /\ FieldSet(j, c, gen) \in Seq([version: Versions, array: Nat])
        /\ DOMAIN FieldSet(j, c, gen) = DOMAIN jvm[j].copies
        /\ \A d \in DOMAIN jvm[j].copies :
             /\ FieldSet(j, c, gen)[d].version = jvm[j].copies[d].version
             /\ FieldSet(j, c, gen)[d].array = IF d = c THEN gen ELSE jvm[j].copies[d].array
    BY <2>1, FieldIsSet
  <2>3. copies = FieldSet(j, c, gen)
    BY <1>3, <1>4
  <2> HIDE DEF copies
  <2> QED BY <2>2, <2>3
<1>7. jvm' = [jvm EXCEPT ![j] = new]
  BY <1>4, <1>5 DEF FieldSet
<1> HIDE DEF copies, array, gen
<1>8. /\ new \in Agents /\ new.pc = jvm[j].pc /\ new.map = jvm[j].map /\ new.gen = gen
      /\ new.copies = copies /\ new.array = array /\ new.growing = 0
  BY <1>4, <1>6 DEF Agents
<1> HIDE DEF new
<1>9. \A d \in DOMAIN copies : copies[d].array > 0 => Needs(j, d) <= array.len
  <2>1. ASSUME NEW d \in DOMAIN copies, copies[d].array > 0, d # c
        PROVE  Needs(j, d) <= array.len
    <3>1. d \in DOMAIN jvm[j].copies /\ jvm[j].copies[d].array > 0
      BY <1>6, <2>1
    <3>2. Needs(j, d) <= jvm[j].array.len /\ Needs(j, d) \in Nat
      BY <3>1, JvmFacts, ProbesAndStores DEF ArraysFit, Needs
    <3> QED BY <1>2, <1>4, <3>2
  <2>2. Needs(j, c) <= array.len
    BY <1>2, <1>3, <1>4
  <2> QED BY <2>1, <2>2
<1>10. \E d \in DOMAIN copies : array.len = Needs(j, d)
  BY <1>2, <1>3, <1>6
<1>11. \A i \in Nat : Holds(j, i) => i \in array.hits /\ i < array.len
  BY <1>1, <1>2, <1>4 DEF Holds, array
<1>12. /\ DOMAIN new.copies = DOMAIN jvm[j].copies
       /\ \A d \in DOMAIN new.copies : new.copies[d].version = jvm[j].copies[d].version
       /\ \A d \in DOMAIN new.copies : new.copies[d].array > 0 => Needs(j, d) <= new.array.len
       /\ \E d \in DOMAIN new.copies : new.array.len = Needs(j, d)
       /\ new.array.hits \subseteq jvm[j].array.hits /\ jvm[j].gen <= new.gen
       /\ \A i \in Nat : Holds(j, i) => i \in new.array.hits /\ i < new.array.len
       /\ ~(new.growing > 0)
  BY <1>2, <1>4, <1>6, <1>8, <1>9, <1>10, <1>11
<1> QED BY <1>1, <1>7, <1>8, <1>12, ArrayStep

\* The line of an instruction is a number.
LEMMA LineAtType ==
    ASSUME NEW m \in Methods, NEW k \in DOMAIN m.insns
    PROVE  LineAt(m, k) \in Int
<1> DEFINE before == {q \in 1..k : m.insns[q].k = "line"}
<1>1. k \in Nat /\ before \subseteq 0..k /\ (\A q \in before : m.insns[q] \in Insn)
  BY CodeShape
<1>2. CASE before = {}
  BY <1>2 DEF LineAt
<1>3. CASE before # {}
  <2>1. Max(before) \in before
    <3> HIDE DEF before
    <3> QED BY <1>1, <1>3, GreatestNumber
  <2>2. m.insns[Max(before)].n \in Nat
    BY <1>1, <2>1, InsnKinds
  <2> QED BY <1>3, <2>2 DEF LineAt
<1> QED BY <1>2, <1>3

LEMMA LineOfType ==
    ASSUME NEW v \in Versions, NEW x \in Points(v)
    PROVE  LineOf(v, x) \in Int
<1>1. PICK i \in DOMAIN Code[v] : \E p \in DOMAIN Code[v][i].insns :
        x \in {<<i, p, e>> : e \in Edges(Code[v][i].insns[p])}
  BY DEF Points
<1>5. PICK p \in DOMAIN Code[v][i].insns :
        x \in {<<i, p, e>> : e \in Edges(Code[v][i].insns[p])}
  BY <1>1
<1>2. x[1] = i /\ x[2] = p
  BY <1>5
<1>3. Code[v][i] \in Methods
  BY CodeShape
<1>4. LineAt(Code[v][i], p) \in Int
  BY <1>3, LineAtType
<1> QED BY <1>2, <1>4 DEF LineOf, LineAt

\* The stores at a point set elements for its line, which the map describes.
LEMMA StoresAt ==
    ASSUME NEW v \in Versions, NEW x,
           NEW i \in {s.index : s \in {t \in Range(Stores(v)) : t.at = x}}
    PROVE  \E p \in Range(Probes(v)) : /\ p.index = i /\ p.entry.line = LineOf(v, x)
                                       /\ i \in Nat /\ i < CountProbes(v)
<1>1. PICK s \in Range(Stores(v)) : s.at = x /\ s.index = i
  OBVIOUS
<1>2. PICK k \in 1..CountProbes(v) : /\ Probes(v)[k].index = i
                                     /\ Probes(v)[k].entry.line = LineOf(v, x)
  BY <1>1, ProbesAndStores
<1>3. /\ Probes(v) \in Seq(Probe) /\ CountProbes(v) \in Nat /\ Probes(v)[k].index = k - 1
  BY ProbesAndStores
<1>4. Probes(v)[k] \in Range(Probes(v))
  BY <1>3 DEF CountProbes, Range
<1>5. i \in Nat /\ i < CountProbes(v)
  BY <1>2, <1>3
<1> QED BY <1>2, <1>4, <1>5

LEMMA ExecuteInv ==
    ASSUME AgentInv, NEW j \in Jvms, NEW c \in DOMAIN jvm[j].copies,
           NEW x \in Points(jvm[j].copies[c].version), Execute(j, c, x)
    PROVE  AgentInv'
<1> DEFINE v == jvm[j].copies[c].version
           stores == {s.index : s \in {t \in Range(Stores(v)) : t.at = x}}
           reached == IF jvm[j].copies[c].array = jvm[j].gen THEN stores ELSE {}
           copied == IF jvm[j].growing > 0 THEN {reached, {}} ELSE {{}}
           new == [jvm |-> j, line |-> LineOf(v, x),
                   kept |-> /\ reached # {} /\ jvm[j].growing = 0 /\ jvm[j].pc = "running"]
           K == jvm'[j].array.hits
           G == jvm'[j].grown.hits
<1> USE DEF AgentInv
<1>1. /\ task' = task /\ files' = files /\ ran' = ran \union {new}
      /\ jvm[j].pc # "down" /\ jvm[j].copies[c].array > 0
      /\ \/ \E in \in copied :
              jvm' = [jvm EXCEPT ![j].array.hits = @ \union reached,
                                 ![j].grown.hits = @ \union in]
         \/ jvm[j].pc # "running" /\ jvm' = jvm
  BY DEF Execute, Alive
<1>2. /\ v \in Versions /\ jvm[j].array \in Array /\ jvm[j].array.hits \subseteq Nat
      /\ jvm[j].grown \in Array /\ jvm[j].grown.hits \subseteq Nat
      /\ jvm[j].array.len \in Nat /\ jvm[j] \in Agents /\ jvm \in [Jvms -> Agents]
  BY JvmFacts DEF AgentTypes, Array
<1>3. LineOf(v, x) \in Int
  BY <1>2, LineOfType
<1>4. \A i \in stores : \E p \in Range(Probes(v)) :
        p.index = i /\ p.entry.line = LineOf(v, x) /\ i \in Nat /\ i < CountProbes(v)
  BY <1>2, StoresAt
<1>5. PICK e \in [jvm: Jvms, line: Int, kept: BOOLEAN] :
        /\ ran' = ran \union {e} /\ e.jvm = j /\ e.line = LineOf(v, x)
        /\ e.kept => reached # {} /\ jvm[j].growing = 0 /\ jvm[j].pc = "running"
  <2>1. /\ new \in [jvm: Jvms, line: Int, kept: BOOLEAN]
        /\ new.jvm = j /\ new.line = LineOf(v, x)
        /\ new.kept => reached # {} /\ jvm[j].growing = 0 /\ jvm[j].pc = "running"
    BY <1>3
  <2> HIDE DEF new
  <2> QED BY <1>1, <2>1
<1>6. reached \subseteq stores /\ reached \subseteq Nat
  BY <1>4
<1>7. /\ jvm' \in [Jvms -> Agents] /\ (\A i \in Jvms \ {j} : jvm'[i] = jvm[i])
      /\ jvm'[j].pc = jvm[j].pc /\ jvm'[j].gen = jvm[j].gen
      /\ jvm'[j].copies = jvm[j].copies /\ jvm'[j].map = jvm[j].map
      /\ jvm'[j].growing = jvm[j].growing
      /\ jvm'[j].array.len = jvm[j].array.len /\ jvm'[j].grown.len = jvm[j].grown.len
      /\ jvm[j].array.hits \subseteq K /\ K \subseteq jvm[j].array.hits \union reached
      /\ jvm[j].grown.hits \subseteq G
      /\ jvm[j].growing > 0 /\ jvm[j].grown.hits \subseteq jvm[j].array.hits => G \subseteq K
      /\ jvm[j].pc = "running" => reached \subseteq K
  <2> HIDE DEF new, stores, reached
  <2>1. CASE jvm' = jvm /\ jvm[j].pc # "running"
    BY <1>2, <2>1
  <2>2. CASE \E in \in copied :
              jvm' = [jvm EXCEPT ![j].array.hits = @ \union reached,
                                 ![j].grown.hits = @ \union in]
    <3>1. PICK in \in copied :
              jvm' = [jvm EXCEPT ![j].array.hits = @ \union reached,
                                 ![j].grown.hits = @ \union in]
      BY <2>2
    <3>2. in \subseteq reached
      OBVIOUS
    <3> DEFINE array == [jvm[j].array EXCEPT !.hits = @ \union reached]
               grown == [jvm[j].grown EXCEPT !.hits = @ \union in]
    <3>3. /\ array \in Array /\ array.hits = jvm[j].array.hits \union reached
          /\ array.len = jvm[j].array.len
          /\ grown \in Array /\ grown.hits = jvm[j].grown.hits \union in
          /\ grown.len = jvm[j].grown.len
      BY <1>2, <1>6, <3>2 DEF Array
    <3>4. jvm' = [jvm EXCEPT ![j].array = array, ![j].grown = grown]
      BY <3>1
    <3> HIDE DEF array, grown
    <3>5. /\ (\A i \in Jvms \ {j} : jvm'[i] = jvm[i]) /\ DOMAIN jvm' = Jvms
          /\ jvm'[j] = [jvm[j] EXCEPT !.array = array, !.grown = grown]
          /\ jvm' = [i \in Jvms |-> jvm'[i]]
      BY <1>2, <3>4
    <3>6. /\ jvm'[j] \in Agents /\ jvm'[j].growing = jvm[j].growing
          /\ jvm'[j].pc = jvm[j].pc /\ jvm'[j].map = jvm[j].map /\ jvm'[j].gen = jvm[j].gen
          /\ jvm'[j].copies = jvm[j].copies /\ jvm'[j].array = array /\ jvm'[j].grown = grown
      BY <1>2, <3>3, <3>5 DEF Agents
    <3>7. jvm' \in [Jvms -> Agents]
      BY <1>2, <3>5, <3>6
    <3> QED BY <3>2, <3>3, <3>5, <3>6, <3>7
  <2> QED BY <1>1, <2>1, <2>2
<1> HIDE DEF new, stores, reached, K, G
<1>8. AgentTypes'
  BY <1>1, <1>5, <1>7 DEF AgentTypes
<1>9. Grows(j)
  BY <1>1, <1>2, <1>7 DEF Grows, Holds, K, G
<1>10. \A i \in Jvms : Grows(i)
  BY <1>7, <1>9, Unmoved
<1>11. /\ DataWritten' /\ MapWritten'
       /\ \A i \in Jvms : \A h \in jvm[i].array.hits : Happened(i, h)'
       /\ \A d \in ran : d.kept => Reported(d)'
  BY <1>1, <1>10, Persist
<1>12. Range(Probes(v)) \subseteq Range(jvm'[j].map)
  BY <1>7 DEF MapsComplete
<1>13. HitsExplained'
  <2>1. ASSUME NEW i \in K PROVE Happened(j, i)'
    <3>1. CASE i \in jvm[j].array.hits
      BY <1>11, <3>1
    <3>2. CASE i \in reached
      <4>1. PICK p \in Range(Probes(v)) : p.index = i /\ p.entry.line = LineOf(v, x)
        BY <1>4, <1>6, <3>2
      <4>2. p \in Range(jvm'[j].map) /\ e \in ran' /\ e.line = LineOf(v, x)
        BY <1>5, <1>12
      <4> QED BY <4>1, <4>2 DEF Happened
    <3> QED BY <1>7, <3>1, <3>2
  <2> QED BY <1>7, <1>11, <2>1 DEF HitsExplained, K
<1>14. ASSUME e.kept PROVE Reported(e)'
  <2>1. reached # {} /\ jvm[j].pc = "running" /\ reached \subseteq K /\ jvm'[j].growing = 0
    BY <1>5, <1>7, <1>14
  <2>2. PICK i \in reached : TRUE
    BY <2>1
  <2>3. PICK p \in Range(Probes(v)) :
          p.index = i /\ p.entry.line = LineOf(v, x) /\ i \in Nat /\ i < CountProbes(v)
    BY <1>4, <1>6
  <2>4. CountProbes(v) <= jvm[j].array.len
    BY <1>1 DEF ArraysFit, Needs
  <2>5. CountProbes(v) \in Nat
    BY <1>2, ProbesAndStores
  <2>6. Holds(j, p.index)'
    BY <1>2, <1>7, <2>1, <2>3, <2>4, <2>5 DEF Holds, K
  <2>7. files[task[j]].dataBy # j
    <3>1. task[j] \in Tasks /\ NoJvm # j
      BY AgentAssumption, JvmFacts
    <3>2. DataAt(task[j])
      BY <3>1 DEF DataWritten
    <3> QED BY <2>1, <3>1, <3>2 DEF DataAt, DataOf
  <2>8. KeptIn(e, p)'
    BY <1>1, <1>5, <2>3, <2>6, <2>7 DEF KeptIn, Holds
  <2> QED BY <1>5, <1>12, <2>8 DEF Reported
<1>15. KeptWritten'
  BY <1>5, <1>11, <1>14 DEF KeptWritten
<1>16. MapsComplete'
  BY <1>7 DEF MapsComplete
<1>17. ArraysFit'
  <2>1. \A i \in Jvms : \A d \in DOMAIN jvm[i].copies : Needs(i, d)' = Needs(i, d)
    BY <1>10, NeedsKept
  <2> QED BY <1>7, <2>1 DEF ArraysFit
<1>18. GrowthFits'
  <2>1. \A i \in Jvms : \A d \in DOMAIN jvm[i].copies : Needs(i, d)' = Needs(i, d)
    BY <1>10, NeedsKept
  <2>2. ASSUME NEW i \in Jvms, jvm'[i].growing > 0
        PROVE  /\ jvm'[i].growing \in DOMAIN jvm'[i].copies
               /\ jvm'[i].grown.len = Needs(i, jvm[i].growing)'
               /\ jvm'[i].grown.len > jvm'[i].array.len
               /\ jvm'[i].grown.hits \subseteq jvm'[i].array.hits
    <3>1. CASE i = j
      BY <1>7, <2>1, <2>2, <3>1 DEF GrowthFits, K, G
    <3>2. CASE i # j
      BY <1>7, <2>1, <2>2, <3>2 DEF GrowthFits
    <3> QED BY <3>1, <3>2
  <2> QED BY <2>2 DEF GrowthFits
<1> QED BY <1>8, <1>11, <1>13, <1>15, <1>16, <1>17, <1>18

\* The hook goes on, or the JVM ends.
Moves(j, pc) == jvm' = [jvm EXCEPT ![j].pc = pc]

LEMMA MovesInv ==
    ASSUME AgentInv, NEW j \in Jvms, NEW pc \in {"data", "map", "down"}, Moves(j, pc),
           task' = task, ran' = ran,
           jvm[j].pc \in {"map", "down"} => pc \in {"map", "down"},
           jvm[j].pc = "down" => pc = "down",
           pc \in {"data", "map"} => jvm[j].gen > 0
    PROVE  /\ jvm' \in [Jvms -> Agents] /\ (\A i \in Jvms : Grows(i))
           /\ jvm'[j].pc = pc /\ jvm'[j].array = jvm[j].array /\ jvm'[j].map = jvm[j].map
           /\ MapsComplete' /\ HitsExplained' /\ ArraysFit' /\ GrowthFits'
           /\ \A i \in Jvms : \A d \in DOMAIN jvm[i].copies :
                d \in DOMAIN jvm'[i].copies /\ Needs(i, d)' = Needs(i, d)
<1> USE DEF AgentInv
<1>1. /\ jvm' \in [Jvms -> Agents] /\ (\A i \in Jvms \ {j} : jvm'[i] = jvm[i])
      /\ jvm'[j].pc = pc /\ jvm'[j].gen = jvm[j].gen /\ jvm'[j].array = jvm[j].array
      /\ jvm'[j].copies = jvm[j].copies /\ jvm'[j].map = jvm[j].map
      /\ jvm'[j].growing = jvm[j].growing /\ jvm'[j].grown = jvm[j].grown
  BY DEF Moves, AgentTypes, Agents
<1>2. Grows(j)
  BY <1>1, JvmFacts DEF Grows, Holds
<1>3. \A i \in Jvms : Grows(i)
  BY <1>1, <1>2, Unmoved
<1>4. \A i \in Jvms : \A d \in DOMAIN jvm[i].copies :
        d \in DOMAIN jvm'[i].copies /\ Needs(i, d)' = Needs(i, d)
  BY <1>3, NeedsKept
<1>5. HitsExplained'
  <2>1. ASSUME NEW i \in Jvms, NEW h \in jvm[i].array.hits PROVE Happened(i, h)'
    BY <1>3, HitsPersist DEF HitsExplained
  <2> QED BY <1>1, <2>1 DEF HitsExplained
<1>6. MapsComplete'
  BY <1>1 DEF MapsComplete
<1>7. ArraysFit'
  BY <1>1, <1>4 DEF ArraysFit
<1>8. GrowthFits'
  BY <1>1, <1>4 DEF GrowthFits
<1> QED BY <1>1, <1>3, <1>4, <1>5, <1>6, <1>7, <1>8

LEMMA ShutDownInv ==
    ASSUME AgentInv, NEW j \in Jvms, ShutDown(j)
    PROVE  AgentInv'
<1> DEFINE pc == IF jvm[j].gen = 0 THEN "down" ELSE "data"
<1> USE DEF AgentInv
<1>1. /\ task' = task /\ files' = files /\ ran' = ran /\ jvm[j].pc = "running" /\ Moves(j, pc)
  BY DEF ShutDown, Moves
<1>2. pc \in {"data", "map", "down"} /\ (pc \in {"data", "map"} => jvm[j].gen > 0)
  BY JvmFacts
<1> HIDE DEF pc
<1>3. /\ jvm' \in [Jvms -> Agents] /\ (\A i \in Jvms : Grows(i))
      /\ MapsComplete' /\ HitsExplained' /\ ArraysFit' /\ GrowthFits'
  BY <1>1, <1>2, MovesInv
<1>4. DataWritten' /\ MapWritten' /\ KeptWritten'
  BY <1>1, <1>3, Persist DEF KeptWritten
<1> QED BY <1>1, <1>3, <1>4 DEF AgentTypes

LEMMA WriteDataInv ==
    ASSUME AgentInv, NEW j \in Jvms, WriteData(j)
    PROVE  AgentInv'
<1> USE DEF AgentInv
<1>0. PICK t \in Tasks : t = task[j]
  BY JvmFacts
<1>1. /\ task' = task /\ ran' = ran /\ jvm[j].pc = "data" /\ Moves(j, "map")
      /\ files' = [files EXCEPT ![t].data = jvm[j].array, ![t].dataBy = j]
  BY <1>0 DEF WriteData, Moves
<1>2. /\ jvm[j].array \in Array /\ t \in Tasks /\ files \in [Tasks -> Files]
      /\ jvm[j].gen > 0
  BY <1>1, JvmFacts DEF AgentTypes, ArraysFit
<1>3. /\ jvm' \in [Jvms -> Agents] /\ (\A i \in Jvms : Grows(i))
      /\ jvm'[j].pc = "map" /\ jvm'[j].array = jvm[j].array
      /\ MapsComplete' /\ HitsExplained' /\ ArraysFit' /\ GrowthFits'
      /\ \A d \in DOMAIN jvm[j].copies :
           d \in DOMAIN jvm'[j].copies /\ Needs(j, d)' = Needs(j, d)
  BY <1>1, <1>2, MovesInv
<1>4. /\ files' \in [Tasks -> Files] /\ (\A r \in Tasks \ {t} : files'[r] = files[r])
      /\ files'[t].data = jvm[j].array /\ files'[t].dataBy = j
      /\ files'[t].map = files[t].map /\ files'[t].mapBy = files[t].mapBy
  BY <1>1, <1>2 DEF Files
<1>5. DataAt(t)'
  <2>1. PICK c \in DOMAIN jvm[j].copies : jvm[j].array.len = Needs(j, c)
    BY <1>2 DEF ArraysFit
  <2>2. DataOf(t, j)'
    <3>1. ASSUME NEW i \in jvm[j].array.hits PROVE Happened(j, i)'
      BY <1>3 DEF HitsExplained
    <3> QED BY <1>0, <1>1, <1>2, <1>3, <1>4, <2>1, <3>1 DEF DataOf
  <2> QED BY <1>4, <2>2, AgentAssumption DEF DataAt, DataOf
<1>6. ASSUME NEW r \in Tasks PROVE DataAt(r)' /\ MapAt(r)'
  <2>1. CASE r = t
    BY <1>1, <1>3, <1>4, <1>5, <2>1, DataPersists, MapPersists
  <2>2. CASE r # t
    BY <1>1, <1>3, <1>4, <2>2, DataPersists, MapPersists
  <2> QED BY <2>1, <2>2
<1>7. ASSUME NEW e \in ran, e.kept PROVE Reported(e)'
  <2>1. e.jvm \in Jvms /\ task[e.jvm] \in Tasks
    BY DEF AgentTypes
  <2>2. Grows(e.jvm)
    BY <1>3, <2>1
  <2>3. CASE task[e.jvm] # t
    BY <1>1, <1>4, <1>7, <2>1, <2>2, <2>3, KeptPersists
  <2>4. CASE task[e.jvm] = t
    BY <1>1, <1>3, <1>4, <1>7, <2>2, <2>4, KeptPersists
  <2> QED BY <2>3, <2>4
<1>8. KeptWritten'
  BY <1>1, <1>7 DEF KeptWritten
<1> QED BY <1>1, <1>3, <1>4, <1>6, <1>8 DEF AgentTypes, DataWritten, MapWritten

LEMMA WriteMapInv ==
    ASSUME AgentInv, NEW j \in Jvms, WriteMap(j)
    PROVE  AgentInv'
<1> USE DEF AgentInv
<1>0. PICK t \in Tasks : t = task[j]
  BY JvmFacts
<1>1. /\ task' = task /\ ran' = ran /\ jvm[j].pc = "map" /\ Moves(j, "down")
      /\ files' = [files EXCEPT ![t].map = jvm[j].map, ![t].mapBy = j]
  BY <1>0 DEF WriteMap, Moves
<1>2. /\ jvm[j].map \in Seq(Probe) /\ t \in Tasks /\ files \in [Tasks -> Files]
      /\ jvm[j].gen > 0
  BY <1>1, JvmFacts DEF AgentTypes, ArraysFit
<1>3. /\ jvm' \in [Jvms -> Agents] /\ (\A i \in Jvms : Grows(i))
      /\ jvm'[j].pc = "down" /\ jvm'[j].map = jvm[j].map
      /\ MapsComplete' /\ HitsExplained' /\ ArraysFit' /\ GrowthFits'
      /\ \A d \in DOMAIN jvm[j].copies : d \in DOMAIN jvm'[j].copies
  BY <1>1, MovesInv
<1>4. /\ files' \in [Tasks -> Files] /\ (\A r \in Tasks \ {t} : files'[r] = files[r])
      /\ files'[t].map = jvm[j].map /\ files'[t].mapBy = j
      /\ files'[t].data = files[t].data /\ files'[t].dataBy = files[t].dataBy
  BY <1>1, <1>2 DEF Files
<1>5. MapAt(t)'
  <2>1. DOMAIN jvm[j].copies # {}
    BY <1>2 DEF ArraysFit
  <2>2. MapOf(t, j)'
    BY <1>3, <1>4, <2>1 DEF MapOf
  <2> QED BY <1>4, <2>2, AgentAssumption DEF MapAt, MapOf
<1>6. ASSUME NEW r \in Tasks PROVE DataAt(r)' /\ MapAt(r)'
  <2>1. CASE r = t
    BY <1>1, <1>3, <1>4, <1>5, <2>1, DataPersists, MapPersists
  <2>2. CASE r # t
    BY <1>1, <1>3, <1>4, <2>2, DataPersists, MapPersists
  <2> QED BY <2>1, <2>2
<1>7. ASSUME NEW e \in ran, e.kept PROVE Reported(e)'
  <2>1. e.jvm \in Jvms /\ task[e.jvm] \in Tasks
    BY DEF AgentTypes
  <2>2. Grows(e.jvm)
    BY <1>3, <2>1
  <2> QED BY <1>1, <1>4, <1>7, <2>1, <2>2, KeptPersists
<1>8. KeptWritten'
  BY <1>1, <1>7 DEF KeptWritten
<1> QED BY <1>1, <1>3, <1>4, <1>6, <1>8 DEF AgentTypes, DataWritten, MapWritten

LEMMA KillInv ==
    ASSUME AgentInv, NEW j \in Jvms, Kill(j)
    PROVE  AgentInv'
<1> USE DEF AgentInv
<1>0. PICK t \in Tasks : t = task[j]
  BY JvmFacts
<1>1. /\ task' = task /\ ran' = ran /\ Moves(j, "down")
      /\ \/ files' = files
         \/ files' = [files EXCEPT ![t].data = Torn, ![t].dataBy = NoJvm]
         \/ files' = [files EXCEPT ![t].map = Torn, ![t].mapBy = NoJvm]
  BY <1>0 DEF Kill, Moves
<1>2. t \in Tasks /\ files \in [Tasks -> Files]
  BY JvmFacts DEF AgentTypes
<1>3. /\ jvm' \in [Jvms -> Agents] /\ (\A i \in Jvms : Grows(i))
      /\ MapsComplete' /\ HitsExplained' /\ ArraysFit' /\ GrowthFits'
  BY <1>1, MovesInv
<1>4. /\ files' \in [Tasks -> Files] /\ (\A r \in Tasks \ {t} : files'[r] = files[r])
      /\ \/ files'[t].data = files[t].data /\ files'[t].dataBy = files[t].dataBy
         \/ files'[t].data = Torn /\ files'[t].dataBy = NoJvm
      /\ \/ files'[t].map = files[t].map /\ files'[t].mapBy = files[t].mapBy
         \/ files'[t].map = Torn /\ files'[t].mapBy = NoJvm
  <2>1. CASE files' = files
    BY <1>2, <2>1
  <2>2. CASE files' = [files EXCEPT ![t].data = Torn, ![t].dataBy = NoJvm]
    BY <1>2, <2>2 DEF Files
  <2>3. CASE files' = [files EXCEPT ![t].map = Torn, ![t].mapBy = NoJvm]
    BY <1>2, <2>3 DEF Files
  <2> QED BY <1>1, <2>1, <2>2, <2>3
<1>5. DataAt(t)' /\ MapAt(t)'
  <2>1. ASSUME files'[t].data = files[t].data /\ files'[t].dataBy = files[t].dataBy
        PROVE  DataAt(t)'
    BY <1>1, <1>2, <1>3, <2>1, DataPersists
  <2>2. ASSUME files'[t].data = Torn /\ files'[t].dataBy = NoJvm
        PROVE  DataAt(t)'
    BY <2>2 DEF DataAt
  <2>3. ASSUME files'[t].map = files[t].map /\ files'[t].mapBy = files[t].mapBy
        PROVE  MapAt(t)'
    BY <1>1, <1>2, <1>3, <2>3, MapPersists
  <2>4. ASSUME files'[t].map = Torn /\ files'[t].mapBy = NoJvm
        PROVE  MapAt(t)'
    BY <2>4 DEF MapAt
  <2> QED BY <1>4, <2>1, <2>2, <2>3, <2>4
<1>6. ASSUME NEW r \in Tasks PROVE DataAt(r)' /\ MapAt(r)'
  <2>1. CASE r = t
    BY <1>1, <1>3, <1>4, <1>5, <2>1, DataPersists, MapPersists
  <2>2. CASE r # t
    BY <1>1, <1>3, <1>4, <2>2, DataPersists, MapPersists
  <2> QED BY <2>1, <2>2
<1>7. ASSUME NEW e \in ran, e.kept PROVE Reported(e)'
  <2>1. e.jvm \in Jvms /\ task[e.jvm] \in Tasks /\ e.jvm # NoJvm
    BY AgentAssumption DEF AgentTypes
  <2>2. Grows(e.jvm)
    BY <1>3, <2>1
  <2>3. \/ files'[task[e.jvm]].dataBy # e.jvm
        \/ /\ files'[task[e.jvm]].data = files[task[e.jvm]].data
           /\ files'[task[e.jvm]].dataBy = files[task[e.jvm]].dataBy
    BY <1>4, <2>1
  <2> QED BY <1>1, <1>7, <2>2, <2>3, KeptPersists
<1>8. KeptWritten'
  BY <1>1, <1>7 DEF KeptWritten
<1> QED BY <1>1, <1>3, <1>4, <1>6, <1>8 DEF AgentTypes, DataWritten, MapWritten

LEMMA AgentInvInit == AgentInit => AgentInv
<1> SUFFICES ASSUME AgentInit PROVE AgentInv
  OBVIOUS
<1>1. /\ task \in [Jvms -> Tasks] /\ ran = {}
      /\ jvm = [j \in Jvms |-> [pc |-> "running", array |-> NoArray, gen |-> 0,
                                growing |-> 0, grown |-> NoArray,
                                copies |-> << >>, map |-> << >>]]
      /\ files = [t \in Tasks |-> [data |-> NoFile, dataBy |-> NoJvm,
                                   map |-> NoFile, mapBy |-> NoJvm]]
  BY DEF AgentInit
<1>2. NoArray \in Array /\ NoArray.hits = {}
  BY DEF NoArray, Array
<1>3. AgentTypes
  <2>1. << >> \in Seq(Probe) /\ << >> \in Seq([version: Versions, array: Nat])
    OBVIOUS
  <2>2. jvm \in [Jvms -> Agents]
    BY <1>1, <1>2, <2>1 DEF Agents
  <2>3. files \in [Tasks -> Files]
    BY <1>1 DEF Files
  <2> QED BY <1>1, <2>2, <2>3 DEF AgentTypes
<1>4. \A j \in Jvms : /\ DOMAIN jvm[j].copies = {} /\ Range(jvm[j].map) = {}
                      /\ jvm[j].array.hits = {} /\ jvm[j].gen = 0 /\ jvm[j].pc = "running"
                      /\ jvm[j].growing = 0
  BY <1>1, <1>2 DEF Range
<1>5. MapsComplete
  BY <1>4 DEF MapsComplete
<1>6. HitsExplained /\ ArraysFit /\ GrowthFits
  BY <1>4 DEF HitsExplained, ArraysFit, GrowthFits
<1>7. DataWritten /\ MapWritten /\ KeptWritten
  BY <1>1 DEF DataWritten, MapWritten, KeptWritten, DataAt, MapAt
<1> QED BY <1>3, <1>5, <1>6, <1>7 DEF AgentInv

LEMMA AgentInvStep == AgentInv /\ [AgentNext]_agentvars => AgentInv'
<1> SUFFICES ASSUME AgentInv, [AgentNext]_agentvars PROVE AgentInv'
  OBVIOUS
<1>1. ASSUME NEW j \in Jvms, NEW v \in Versions, Transform(j, v) PROVE AgentInv'
  BY <1>1, TransformInv
<1>2. ASSUME NEW j \in Jvms, NEW c \in DOMAIN jvm[j].copies, Initialise(j, c) PROVE AgentInv'
  BY <1>2, InitialiseInv
<1>6. ASSUME NEW j \in Jvms, NEW c \in DOMAIN jvm[j].copies, Grow(j, c) PROVE AgentInv'
  BY <1>6, GrowInv
<1>7. ASSUME NEW j \in Jvms, Publish(j) PROVE AgentInv'
  BY <1>7, PublishInv
<1>3. ASSUME NEW j \in Jvms, NEW c \in DOMAIN jvm[j].copies,
             NEW x \in Points(jvm[j].copies[c].version), Execute(j, c, x)
      PROVE  AgentInv'
  BY <1>3, ExecuteInv
<1>4. ASSUME NEW j \in Jvms, ShutDown(j) \/ WriteData(j) \/ WriteMap(j) \/ Kill(j)
      PROVE  AgentInv'
  BY <1>4, ShutDownInv, WriteDataInv, WriteMapInv, KillInv
<1>5. ASSUME UNCHANGED agentvars PROVE AgentInv'
  <2>1. task' = task /\ jvm' = jvm /\ files' = files /\ ran' = ran
    BY <1>5 DEF agentvars
  <2>2. AgentTypes' /\ MapsComplete'
    BY <2>1 DEF AgentInv, AgentTypes, MapsComplete
  <2>3. \A j \in Jvms : Grows(j)
    BY <2>1, Unmoved DEF AgentInv
  <2>4. /\ DataWritten' /\ MapWritten'
        /\ \A j \in Jvms : \A i \in jvm[j].array.hits : Happened(j, i)'
        /\ \A e \in ran : e.kept => Reported(e)'
    BY <2>1, <2>3, Persist
  <2>5. HitsExplained' /\ KeptWritten'
    BY <2>1, <2>4 DEF HitsExplained, KeptWritten
  <2>6. ArraysFit' /\ GrowthFits'
    BY <2>1 DEF AgentInv, ArraysFit, GrowthFits, Needs
  <2> QED BY <2>2, <2>4, <2>5, <2>6 DEF AgentInv
<1> QED BY <1>1, <1>2, <1>3, <1>4, <1>5, <1>6, <1>7 DEF AgentNext

\* The invariant, with the types of the agent's variables (Agents, Files): what
\* is in a JVM's map, array and files belongs together, whatever its class
\* loaders, its shutdown hook and a kill do (OmnivoreClassTransformer,
\* ExecutionDataStore, ShutdownHook).
THEOREM AgentInvariant == AgentSpec => []AgentInv
BY AgentInvInit, AgentInvStep, PTL DEF AgentSpec

-----------------------------------------------------------------------------
(* The report *)

\* The directory walk finds the files of every task.
LEMMA OrderOfAll ==
    ASSUME NEW order \in Orders
    PROVE  order \in Seq(Tasks) /\ Range(order) = Tasks
<1> DEFINE n == Cardinality(Tasks)
<1>1. n \in Nat /\ IsFiniteSet(Tasks)
  BY AgentAssumption, FS_CardinalityType
<1>2. /\ order \in [1..n -> Tasks]
      /\ \A i, j \in 1..n : i # j => order[i] # order[j]
  BY DEF Orders, SetToSeqs
<1> HIDE DEF n
<1>3. order \in Injection(1..n, Tasks)
  BY <1>2 DEF Injection, IsInjective
<1>4. Cardinality(1..n) = n
  <2>1. PICK b \in Nat : b = 1
    OBVIOUS
  <2>2. Cardinality(b..n) = IF b > n THEN 0 ELSE n - b + 1
    BY <1>1, <2>1, FS_Interval
  <2> QED BY <1>1, <2>1, <2>2
<1>5. order \in Surjection(1..n, Tasks)
  BY <1>1, <1>3, <1>4, FS_Injection DEF n
<1>6. Range(order) = Tasks
  BY <1>2, <1>5 DEF Surjection, Range
<1> QED BY <1>1, <1>2, <1>6

\* The merged array has every hit of every file, and is as long as the longest.
LEMMA MergedAll ==
    ASSUME AgentTypes, NEW order \in Seq(Tasks), \A t \in Tasks : files[t].data # Torn
    PROVE  /\ MergeData(order) \in Array
           /\ \A t \in Range(order) : files[t].data # NoFile =>
                /\ files[t].data.hits \subseteq MergeData(order).hits
                /\ files[t].data.len <= MergeData(order).len
           /\ \/ MergeData(order).len = 0
              \/ \E t \in Range(order) : /\ files[t].data # NoFile
                                         /\ MergeData(order).len = files[t].data.len
<1> DEFINE n == Len(order)
           D(k) == files[order[k]].data
<1>1. /\ n \in Nat /\ n \in 0..n /\ DOMAIN order = 1..n
      /\ \A k \in 1..n : order[k] \in Tasks /\ order[k] \in Range(order)
  BY DEF Range
<1>2. PICK acc : /\ acc[0] = NoArray
                 /\ \A k \in 0..n : acc[k] \in Array
                 /\ \A k \in 1..n : acc[k] = AddData(acc[k - 1], order[k])
                 /\ MergeData(order) = acc[n]
  BY MergeDataSteps
<1>3. ASSUME NEW k \in 1..n
      PROVE  /\ k - 1 \in 0..n /\ k \in 0..n /\ acc[k - 1] \in Array /\ acc[k] \in Array
             /\ D(k) # NoFile => /\ D(k) \in Array
                                 /\ acc[k] = [Grown(acc[k - 1], D(k).len)
                                                EXCEPT !.hits = @ \union D(k).hits]
             /\ D(k) = NoFile => acc[k] = acc[k - 1]
  <2>1. k - 1 \in 0..n /\ k \in 0..n /\ acc[k] = AddData(acc[k - 1], order[k])
    BY <1>1, <1>2
  <2>2. D(k) \in Array \union {NoFile}
    BY <1>1 DEF AgentTypes, Files
  <2> QED BY <1>2, <2>1, <2>2 DEF AddData
<1>4. ASSUME NEW k \in 1..n
      PROVE  /\ acc[k - 1].hits \subseteq acc[k].hits /\ acc[k - 1].len <= acc[k].len
             /\ acc[k - 1].len \in Nat /\ acc[k].len \in Nat
             /\ D(k) # NoFile => /\ D(k).hits \subseteq acc[k].hits
                                 /\ D(k).len \in Nat /\ D(k).len <= acc[k].len
             /\ acc[k].len = acc[k - 1].len \/ (D(k) # NoFile /\ acc[k].len = D(k).len)
  <2> HIDE DEF D
  <2>1. CASE D(k) = NoFile
    <3>1. acc[k] = acc[k - 1] /\ acc[k - 1] \in Array
      BY <1>3, <2>1
    <3>2. acc[k - 1].len \in Nat
      BY <3>1 DEF Array
    <3> QED BY <2>1, <3>1, <3>2
  <2>2. CASE D(k) # NoFile
    <3> DEFINE grown == Grown(acc[k - 1], D(k).len)
    <3>1. D(k) \in Array /\ D(k).len \in Nat /\ acc[k - 1] \in Array /\ acc[k] \in Array
      BY <1>3, <2>2 DEF Array
    <3>2. /\ grown \in Array /\ grown.hits = acc[k - 1].hits
          /\ grown.len \in Nat /\ acc[k - 1].len \in Nat
          /\ acc[k - 1].len <= grown.len /\ D(k).len <= grown.len
          /\ grown.len > acc[k - 1].len => grown.len = D(k).len
      BY <3>1, GrownArray
    <3>3. acc[k] = [grown EXCEPT !.hits = @ \union D(k).hits]
      BY <1>3, <2>2
    <3> HIDE DEF grown
    <3>4. acc[k].len = grown.len /\ acc[k].hits = grown.hits \union D(k).hits
      BY <3>2, <3>3 DEF Array
    <3> QED BY <2>2, <3>1, <3>2, <3>4
  <2> QED BY <2>1, <2>2
<1> DEFINE S == {k \in 0..n :
                   /\ \A q \in 1..k : D(q) # NoFile => /\ D(q).hits \subseteq acc[k].hits
                                                       /\ D(q).len <= acc[k].len
                   /\ \/ acc[k].len = 0
                      \/ \E q \in 1..k : D(q) # NoFile /\ acc[k].len = D(q).len}
<1>5. 0 \in S
  BY <1>1, <1>2 DEF NoArray
<1>6. ASSUME NEW k \in 1..n, k - 1 \in S PROVE k \in S
  <2> HIDE DEF D
  <2>1. ASSUME NEW q \in 1..k, D(q) # NoFile
        PROVE  D(q).hits \subseteq acc[k].hits /\ D(q).len <= acc[k].len
    <3>1. CASE q = k
      BY <1>4, <2>1, <3>1
    <3>2. CASE q # k
      <4>1. q \in 1..(k - 1) /\ q \in 1..n
        BY <1>1, <3>2
      <4>2. D(q).hits \subseteq acc[k - 1].hits /\ D(q).len <= acc[k - 1].len
        BY <1>6, <2>1, <4>1
      <4>3. D(q).len \in Nat
        BY <1>4, <2>1, <4>1
      <4>4. /\ acc[k - 1].hits \subseteq acc[k].hits /\ acc[k - 1].len <= acc[k].len
            /\ acc[k - 1].len \in Nat /\ acc[k].len \in Nat
        BY <1>4
      <4> QED BY <4>2, <4>3, <4>4
    <3> QED BY <3>1, <3>2
  <2>2. acc[k].len = 0 \/ \E q \in 1..k : D(q) # NoFile /\ acc[k].len = D(q).len
    <3>1. (\A q \in 1..(k - 1) : q \in 1..k) /\ k \in 1..k
      BY <1>1
    <3>2. acc[k - 1].len = 0 \/ \E q \in 1..(k - 1) : D(q) # NoFile /\ acc[k - 1].len = D(q).len
      BY <1>6
    <3>3. acc[k].len = acc[k - 1].len \/ (D(k) # NoFile /\ acc[k].len = D(k).len)
      BY <1>4
    <3> QED BY <3>1, <3>2, <3>3
  <2> QED BY <1>3, <2>1, <2>2
<1>7. n \in S
  <2> HIDE DEF S
  <2> QED BY <1>1, <1>5, <1>6, UpTo
<1>8. ASSUME NEW t \in Range(order) PROVE \E q \in 1..n : t = order[q]
  BY <1>1 DEF Range
<1> QED BY <1>1, <1>2, <1>7, <1>8

\* Of a report with a class: it has files, no torn .omnivore file, and a .probes
\* file that can be read; and if the class is in it, the maps agree.
LEMMA ReportWithClass ==
    ASSUME NEW order \in Seq(Tasks)
    PROVE  /\ Report(order).kind \in {"class", "dropped"} =>
                /\ \A t \in Tasks : files[t].data # Torn
                /\ \E t \in Tasks : files[t].data # NoFile
                /\ \E t \in Tasks : Readable(t)
           /\ Report(order).kind \in {"class", "dropped"}
                /\ ~MergeMaps(order).conflict /\ ~Stale(MergeMaps(order).seen, MergeData(order))
                => Report(order) = Analyze(MergeMaps(order).seen, MergeData(order))
           /\ Report(order).kind = "class" =>
                /\ ~MergeMaps(order).conflict
                /\ Report(order) = Analyze(MergeMaps(order).seen, MergeData(order))
           /\ Report(order).hits # {} => Report(order).kind = "class"
<1> DEFINE map == MergeMaps(order)
           array == MergeData(order)
           class == Analyze(map.seen, array)
           With(field) == {t \in Tasks : files[t][field] # NoFile}
<1>1. \A kind : NoClass(kind).kind = kind /\ NoClass(kind).hits = {}
  BY DEF NoClass
<1>2. class.kind = "class"
  BY DEF Analyze
<1>3. Report(order) =
        IF With("data") = {} \/ With("map") = {} THEN NoClass("none")
        ELSE IF \/ \E t \in Tasks : files[t].data = Torn
                \/ \A t \in With("map") : files[t].map = Torn
        THEN NoClass("error")
        ELSE IF map.conflict \/ Stale(map.seen, array) THEN NoClass("dropped")
        ELSE class
  BY DEF Report
<1>4. /\ With("data") # {} => \E t \in Tasks : files[t].data # NoFile
      /\ (\E t \in With("map") : files[t].map # Torn) => \E t \in Tasks : Readable(t)
  BY DEF Readable
<1> HIDE DEF map, array, class, With
<1> QED BY <1>1, <1>2, <1>3, <1>4 DEF map, array, class

\* If the two files of a task are from one JVM, that is down, and the .probes
\* file is its map.
LEMMA PairedFiles ==
    ASSUME AgentInv, Paired, NEW t \in Tasks, files[t].data \in Array
    PROVE  \E j \in Jvms : /\ files[t].dataBy = j /\ DataOf(t, j) /\ MapOf(t, j)
                           /\ Readable(t) /\ files[t].map = jvm[j].map
<1>1. files[t].data \notin {NoFile, Torn}
  BY AgentAssumption
<1>2. DataAt(t) /\ MapAt(t)
  BY DEF AgentInv, DataWritten, MapWritten
<1>3. PICK j \in Jvms : files[t].dataBy = j /\ files[t].mapBy = j /\ j # NoJvm
  <2>1. files[t].dataBy \in Jvms \union {NoJvm} /\ files[t].mapBy = files[t].dataBy
    BY DEF AgentInv, AgentTypes, Files, Paired
  <2>2. files[t].dataBy # NoJvm
    BY <1>1, <1>2 DEF DataAt
  <2> QED BY <2>1, <2>2
<1>4. DataOf(t, j) /\ MapOf(t, j)
  BY <1>2, <1>3 DEF DataAt, MapAt
<1>5. files[t].map = jvm[j].map /\ jvm[j].map \in Seq(Probe)
  BY <1>4, JvmFacts DEF MapOf, AgentInv
<1>6. Readable(t)
  BY <1>5, AgentAssumption DEF Readable
<1> QED BY <1>3, <1>4, <1>5, <1>6

LEMMA HappenedInv ==
    ASSUME AgentInv
    PROVE  HitsHappened
<1> SUFFICES ASSUME Paired, NEW order \in Orders, NEW line \in Report(order).hits
             PROVE  \E e \in ran : line = e.line
  BY DEF HitsHappened
<1> DEFINE map == MergeMaps(order)
           array == MergeData(order)
<1>1. order \in Seq(Tasks) /\ Range(order) = Tasks
  BY OrderOfAll
<1>2. /\ \A t \in Tasks : files[t].data # Torn
      /\ ~map.conflict /\ Report(order) = Analyze(map.seen, array)
  BY <1>1, ReportWithClass
<1>3. PICK i \in DOMAIN map.seen : i \in array.hits /\ map.seen[i].line = line
  <2> HIDE DEF map, array
  <2>1. line \in Analyze(map.seen, array).hits
    BY <1>2
  <2> QED BY <2>1 DEF Analyze
<1>4. AgentTypes
  BY DEF AgentInv
<1>5. Explained(i, order, Len(order))
  BY <1>1, <1>2, <1>3, <1>4, MergedHits
<1>6. PICK q \in 1..Len(order) : /\ files[order[q]].data # NoFile
                                 /\ i \in files[order[q]].data.hits
  BY <1>5 DEF Explained
<1>7. PICK t \in Tasks : t = order[q]
  BY <1>1
<1>8. files[t].data \in Array /\ i \in files[t].data.hits
  BY <1>2, <1>4, <1>6, <1>7 DEF AgentTypes, Files
<1>9. PICK j \in Jvms : DataOf(t, j) /\ Readable(t) /\ files[t].map = jvm[j].map
  BY <1>8, PairedFiles
<1>10. Happened(j, i)
  BY <1>8, <1>9 DEF DataOf, AgentInv, HitsExplained
<1>11. PICK p \in Range(jvm[j].map), e \in ran : p.index = i /\ p.entry.line = e.line
  BY <1>10 DEF Happened
<1>12. p \in Written(order)
  BY <1>1, <1>9, <1>11 DEF Written
<1>13. Means(map, p)
  BY <1>1, <1>2, <1>4, <1>12, MergedMaps
<1> QED BY <1>3, <1>11, <1>13 DEF Means

LEMMA KeptInv ==
    ASSUME AgentInv, Paired, NEW order \in Orders, Report(order).kind = "class",
           NEW e \in ran, e.kept, e.line > 0, files[task[e.jvm]].dataBy = e.jvm
    PROVE  e.line \in Report(order).hits
<1> DEFINE map == MergeMaps(order)
           array == MergeData(order)
<1>1. order \in Seq(Tasks) /\ Range(order) = Tasks /\ AgentTypes
  BY OrderOfAll DEF AgentInv
<1>2. /\ \A t \in Tasks : files[t].data # Torn
      /\ ~map.conflict /\ Report(order) = Analyze(map.seen, array)
  BY <1>1, ReportWithClass
<1>3. PICK j \in Jvms : j = e.jvm
  BY DEF AgentInv, AgentTypes
<1>4. PICK t \in Tasks : t = task[j]
  BY <1>1 DEF AgentTypes
<1>5. files[t].data \in Array /\ files[t].dataBy = j
  <2>1. files[t].dataBy # NoJvm /\ files[t].dataBy = j
    BY <1>3, <1>4, AgentAssumption
  <2>2. DataOf(t, j)
    BY <2>1 DEF AgentInv, DataWritten, DataAt
  <2> QED BY <2>1, <2>2 DEF DataOf
<1>6. Readable(t) /\ files[t].map = jvm[j].map
  BY <1>5, PairedFiles
<1>7. PICK p \in Range(jvm[j].map) : KeptIn(e, p)
  BY <1>3 DEF AgentInv, KeptWritten, Reported
<1>8. /\ p.entry.line = e.line
      /\ p.index \in files[t].data.hits /\ p.index < files[t].data.len
  BY <1>3, <1>4, <1>5, <1>7 DEF KeptIn
<1>9. p \in Written(order)
  BY <1>1, <1>6, <1>7 DEF Written
<1>10. p.index \in DOMAIN map.seen /\ map.seen[p.index] = p.entry
  BY <1>1, <1>2, <1>9, MergedMaps DEF Means
<1>11. files[t].data # NoFile
  BY <1>5, AgentAssumption
<1>12. p.index \in array.hits /\ p.index < array.len
  <2>1. /\ array \in Array /\ files[t].data.hits \subseteq array.hits
        /\ files[t].data.len <= array.len
    BY <1>1, <1>2, <1>11, MergedAll
  <2>2. p.index \in Nat /\ files[t].data.len \in Nat /\ array.len \in Nat
    BY <1>5, <1>8, <2>1 DEF Array
  <2> QED BY <1>8, <2>1, <2>2
<1> HIDE DEF map, array
<1> QED BY <1>2, <1>8, <1>10, <1>12 DEF Analyze

\* With one version loaded, every .probes file has the probes of that version,
\* and every .omnivore file an element for each.
LEMMA OneVersion ==
    ASSUME AgentInv, NEW v \in Versions, Loaded = {v}, NEW j \in Jvms
    PROVE  \A c \in DOMAIN jvm[j].copies : /\ jvm[j].copies[c].version = v
                                           /\ Needs(j, c) = CountProbes(v)
                                           /\ Range(jvm[j].map) = Range(Probes(v))
<1>1. ASSUME NEW c \in DOMAIN jvm[j].copies PROVE jvm[j].copies[c].version = v
  <2>1. jvm[j].copies[c] \in Range(jvm[j].copies)
    BY DEF Range
  <2>2. jvm[j].copies[c].version \in Loaded
    BY <2>1 DEF Loaded
  <2> QED BY <2>2
<1>2. ASSUME NEW c \in DOMAIN jvm[j].copies PROVE Range(jvm[j].map) = Range(Probes(v))
  <2>1. Range(jvm[j].map) =
          UNION {Range(Probes(jvm[j].copies[d].version)) : d \in DOMAIN jvm[j].copies}
    BY DEF AgentInv, MapsComplete
  <2> QED BY <1>1, <2>1
<1> QED BY <1>1, <1>2 DEF Needs

\* The probes of a class, by index.
LEMMA ProbesByIndex ==
    ASSUME NEW v \in Versions
    PROVE  /\ \A i \in 0..(CountProbes(v) - 1) : /\ Probes(v)[i + 1] \in Range(Probes(v))
                                                 /\ Probes(v)[i + 1].index = i
           /\ \A p \in Range(Probes(v)) : /\ p.index \in 0..(CountProbes(v) - 1)
                                          /\ p = Probes(v)[p.index + 1]
<1>1. /\ Probes(v) \in Seq(Probe) /\ CountProbes(v) \in Nat /\ CountProbes(v) = Len(Probes(v))
      /\ \A k \in 1..CountProbes(v) : Probes(v)[k].index = k - 1
  BY ProbesAndStores DEF CountProbes
<1>2. DOMAIN Probes(v) = 1..CountProbes(v)
  BY <1>1
<1>3. ASSUME NEW i \in 0..(CountProbes(v) - 1)
      PROVE  Probes(v)[i + 1] \in Range(Probes(v)) /\ Probes(v)[i + 1].index = i
  <2>1. i + 1 \in 1..CountProbes(v) /\ (i + 1) - 1 = i
    BY <1>1
  <2> QED BY <1>1, <1>2, <2>1 DEF Range
<1>4. ASSUME NEW p \in Range(Probes(v))
      PROVE  p.index \in 0..(CountProbes(v) - 1) /\ p = Probes(v)[p.index + 1]
  <2>1. PICK k \in 1..CountProbes(v) : p = Probes(v)[k]
    BY <1>2 DEF Range
  <2>2. p.index = k - 1 /\ k - 1 \in 0..(CountProbes(v) - 1) /\ (k - 1) + 1 = k
    BY <1>1, <2>1
  <2> QED BY <2>1, <2>2
<1> QED BY <1>3, <1>4

LEMMA CountedOnce ==
    ASSUME AgentInv, Paired, NEW order \in Orders,
           Report(order).kind \in {"class", "dropped"},
           NEW v \in Versions, Loaded = {v},
           NEW real, real = {p \in Range(Probes(v)) : p.entry.line > 0}
    PROVE  /\ Report(order).lines = {p.entry.line : p \in real}
           /\ Report(order).edges = Cardinality({p \in real : p.entry.type = "BRANCH"})
<1> DEFINE map == MergeMaps(order)
           array == MergeData(order)
           n == CountProbes(v)
           P == Range(Probes(v))
<1>1. order \in Seq(Tasks) /\ Range(order) = Tasks /\ AgentTypes
  BY OrderOfAll DEF AgentInv
<1>2. /\ \A t \in Tasks : files[t].data # Torn
      /\ \E t \in Tasks : files[t].data # NoFile
      /\ \E t \in Tasks : Readable(t)
  BY <1>1, ReportWithClass
<1>3. n \in Nat
  BY ProbesAndStores
<1>4. ASSUME NEW t \in Tasks, Readable(t) PROVE Range(files[t].map) = P
  <2>1. PICK j \in Jvms : MapOf(t, j)
    <3>1. MapAt(t) /\ files[t].mapBy \in Jvms \union {NoJvm}
      BY DEF AgentInv, MapWritten, AgentTypes, Files
    <3> QED BY <1>4, <3>1 DEF MapAt, Readable
  <2>2. PICK c \in DOMAIN jvm[j].copies : files[t].map = jvm[j].map
    BY <2>1 DEF MapOf
  <2> QED BY <2>2, OneVersion
<1>5. ASSUME NEW t \in Tasks, files[t].data # NoFile PROVE files[t].data.len = n
  <2>1. files[t].data \in Array
    BY <1>1, <1>2, <1>5 DEF AgentTypes, Files
  <2>2. PICK j \in Jvms : DataOf(t, j)
    BY <2>1, PairedFiles
  <2>3. PICK c \in DOMAIN jvm[j].copies : files[t].data.len = Needs(j, c)
    BY <2>2 DEF DataOf
  <2> QED BY <2>3, OneVersion
<1>6. Written(order) = P
  <2>1. Written(order) = UNION {Range(files[t].map) : t \in {r \in Tasks : Readable(r)}}
    BY <1>1 DEF Written
  <2> HIDE DEF P
  <2> QED BY <1>2, <1>4, <2>1
<1>7. /\ map \in Merging
      /\ map.conflict \/ \A p \in P : Means(map, p)
      /\ Stems(map, P)
  BY <1>1, <1>6, MergedMaps
<1>8. array.len = n
  <2>1. /\ \A t \in Tasks : files[t].data # NoFile => files[t].data.len <= array.len
        /\ \/ array.len = 0
           \/ \E t \in Tasks : files[t].data # NoFile /\ array.len = files[t].data.len
    BY <1>1, <1>2, MergedAll
  <2>2. PICK t \in Tasks : files[t].data # NoFile
    BY <1>2
  <2>3. n <= array.len
    BY <1>5, <2>1, <2>2
  <2>4. array.len = 0 \/ array.len = n
    BY <1>5, <2>1
  <2> HIDE DEF array, n
  <2> QED BY <1>3, <2>3, <2>4
<1>9. /\ \A i \in 0..(n - 1) : Probes(v)[i + 1] \in P /\ Probes(v)[i + 1].index = i
      /\ \A p \in P : p.index \in 0..(n - 1) /\ p = Probes(v)[p.index + 1]
  BY ProbesByIndex
<1> HIDE DEF P, n, map, array
<1>10. ~map.conflict
  <2>1. \A p, q \in P : p.index = q.index => p.entry = q.entry
    BY <1>9
  <2> QED BY <1>7, <2>1 DEF Stems
<1>11. /\ DOMAIN map.seen = 0..(n - 1)
       /\ \A i \in 0..(n - 1) : map.seen[i] = Probes(v)[i + 1].entry
  <2>1. ASSUME NEW i \in 0..(n - 1)
        PROVE  i \in DOMAIN map.seen /\ map.seen[i] = Probes(v)[i + 1].entry
    BY <1>7, <1>9, <1>10 DEF Means
  <2>2. ASSUME NEW i \in DOMAIN map.seen PROVE i \in 0..(n - 1)
    BY <1>7, <1>9 DEF Stems
  <2> QED BY <2>1, <2>2
<1>12. ~Stale(map.seen, array)
  <2>1. Cardinality(0..(n - 1)) = n
    <3>1. n - 1 \in Int /\ 0 \in Int
      BY <1>3
    <3>2. Cardinality(0..(n - 1)) = IF 0 > n - 1 THEN 0 ELSE (n - 1) - 0 + 1
      BY <3>1, FS_Interval
    <3> QED BY <1>3, <3>2
  <2>2. ~(n > n)
    BY <1>3
  <2> QED BY <1>8, <1>11, <2>1, <2>2 DEF Stale
<1>13. Report(order) = Analyze(map.seen, array)
  BY <1>1, <1>10, <1>12, ReportWithClass DEF map, array
<1> DEFINE R == {i \in DOMAIN map.seen : map.seen[i].line > 0}
           I == {i \in R : map.seen[i].type = "BRANCH"}
           B == {p \in real : p.entry.type = "BRANCH"}
<1>14. Report(order).lines = {map.seen[i].line : i \in R} /\ Report(order).edges = Cardinality(I)
  BY <1>13 DEF Analyze
<1>15. real = {p \in P : p.entry.line > 0}
  BY DEF P
<1>16. /\ \A i \in R : Probes(v)[i + 1] \in real /\ map.seen[i] = Probes(v)[i + 1].entry
                       /\ Probes(v)[i + 1].index = i
       /\ \A p \in real : p.index \in R /\ map.seen[p.index] = p.entry
                          /\ p = Probes(v)[p.index + 1]
  BY <1>9, <1>11, <1>15
<1>17. {map.seen[i].line : i \in R} = {p.entry.line : p \in real}
  <2> HIDE DEF R
  <2> QED BY <1>16
<1>18. Cardinality(I) = Cardinality(B)
  <2> DEFINE f == [i \in I |-> Probes(v)[i + 1]]
  <2>1. /\ f \in [I -> B] /\ (\A i \in I : f[i].index = i)
        /\ \A p \in B : p.index \in I /\ f[p.index] = p
    BY <1>16
  <2> HIDE DEF f
  <2>2. f \in Bijection(I, B)
    BY <2>1 DEF Bijection, Injection, Surjection, IsInjective
  <2>3. IsFiniteSet(I)
    <3>1. IsFiniteSet(0..(n - 1))
      <4>1. n - 1 \in Int /\ 0 \in Int
        BY <1>3
      <4> QED BY <4>1, FS_Interval
    <3>2. I \subseteq 0..(n - 1)
      BY <1>11
    <3> QED BY <3>1, <3>2, FS_Subset
  <2>4. ExistsBijection(I, B)
    BY <2>2 DEF ExistsBijection
  <2> QED BY <2>3, <2>4, FS_Bijection
<1> QED BY <1>14, <1>17, <1>18

\* A line is reported as executed only if it was: the map numbers the probes as
\* the code does, for every class there is (walkProbes, ProbeInserter), and
\* probes of two versions that share a number are a conflict, so that no hit is
\* counted for another line (mergeData, dropStaleClasses).
THEOREM HitsAreHappened == AgentSpec => []HitsHappened
BY AgentInvariant, HappenedInv, PTL

\* What was executed while nobody was growing its array is reported: growing it
\* later keeps the hits, the hook writes them all, the merges lose none
\* (getOrCreateProbes, ShutdownHook, mergeData); the lines and edges of the only
\* version are counted once.
THEOREM HitsAreKept == AgentSpec => []HitsKept
<1>1. ASSUME AgentInv PROVE HitsKept
  BY <1>1, KeptInv, CountedOnce DEF HitsKept
<1> QED BY <1>1, AgentInvariant, PTL

=============================================================================

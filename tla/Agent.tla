------------------------------- MODULE Agent -------------------------------
(***************************************************************************)
(* The coverage agent in the JVMs of the test tasks, and the report made   *)
(* of what they leave behind:                                              *)
(*  - a class that is loaded is described, probe by probe, in the JVM's    *)
(*    probe map, and rewritten to set an element of its probe array where  *)
(*    each probe is (ClassInstrumenter, ProbeInserter); its <clinit> gets  *)
(*    the array from the store (ExecutionDataStore);                       *)
(*  - at shutdown a hook writes the arrays to the task's .omnivore file,   *)
(*    then the map to its .probes file (ShutdownHook), while other threads *)
(*    go on; a JVM may be killed at any time, in the middle of a file too; *)
(*  - the report task merges the files of all tasks and counts lines and   *)
(*    edges (OmnivoreReportTask.mergeData, CoverageAnalyzer).              *)
(* A store and a map are keyed by the class's name, so one class is        *)
(* modelled; its versions are builds of it, a JVM's class loaders may have *)
(* several.  Any instruction of an initialised class may be executed at    *)
(* any time.  The JVMs of one task share its files.  Excludes and Compose  *)
(* filters are left out, and so is the Android listener, which writes the  *)
(* same two files in the same order.                                       *)
(***************************************************************************)
EXTENDS Integers, SequencesExt

CONSTANTS
    Code,      \* versions of the class: sequences of methods, see below
    Jvms, Tasks,
    MaxLoads,  \* bound: classes loaded, in all JVMs
    MaxHits,   \* bound: instructions executed
    NoFile, Torn, NoJvm

\* A method has a name, may be instrumentable (on), and its instructions are
\* "line" (number n), "jump" (conditional), "goto" and "switch" with some arms.
Insn == [k: {"line"}, n: Nat] \union [k: {"jump", "goto"}] \union [k: {"switch"}, arms: Nat]
Versions == DOMAIN Code
Methods == UNION {Range(Code[v]) : v \in Versions}

\* What a probe is (ProbeEntry), and the array of a class (ClassExecutionData).
Probe == [index: Nat, entry: [method: {m.name : m \in Methods}, line: Int,
                              type: {"LINE", "BRANCH"}]]
Array == [len: Nat, hits: SUBSET Nat]

ASSUME AgentAssumption ==
    /\ Code \in Seq(Seq(Methods)) /\ \A m \in Methods : m.insns \in Seq(Insn)
    /\ {MaxLoads, MaxHits} \subseteq Nat
    /\ NoJvm \notin Jvms /\ IsFiniteSet(Tasks)
    /\ \A file \in {NoFile, Torn} : file \notin Array /\ file \notin Seq(Probe)
    /\ NoFile # Torn

VARIABLES
    task,   \* the test task each JVM is forked for
    jvm,    \* the agent in each JVM
    files,  \* the two files of each task; by whom is auxiliary
    ran     \* auxiliary: lines executed, and whether that must be reported

agentvars == <<task, jvm, files, ran>>

-----------------------------------------------------------------------------
(* Probes *)

Entry(m, line, type) == [method |-> m.name, line |-> line, type |-> type]

\* Mutant: the default edge is not counted.
SwitchProbesArms(arms) == arms
\* switchProbeCount
SwitchProbes(arms) == arms + 1

\* walkProbes, for one method.
Branches(m, st, n) ==
    [st EXCEPT !.probes = @ \o [i \in 1..n |-> Entry(m, st.line, "BRANCH")]]
Walk(m, st, insn) ==
    CASE insn.k = "line" ->
           [line |-> insn.n, seen |-> st.seen \union {insn.n},
            probes |-> IF insn.n \in st.seen THEN st.probes
                       ELSE Append(st.probes, Entry(m, insn.n, "LINE"))]
      [] insn.k = "jump" -> Branches(m, st, 2)
      [] insn.k = "switch" -> Branches(m, st, SwitchProbes(insn.arms))
      [] OTHER -> st
Described(m) ==
    FoldLeft(LAMBDA st, insn : Walk(m, st, insn),
             [line |-> -1, seen |-> {}, probes |-> << >>], m.insns).probes

Instrumentable(m) == m.on

\* buildProbeMap: indices count from 0.
Probes(v) ==
    LET all == FoldLeft(LAMBDA entries, m : IF Instrumentable(m)
                                            THEN entries \o Described(m) ELSE entries,
                        << >>, Code[v])
    IN  [i \in DOMAIN all |-> [index |-> i - 1, entry |-> all[i]]]
CountProbes(v) == Len(Probes(v))

\* The edges of an instruction: fall-through and taken, default and arms.
Edges(insn) == CASE insn.k = "line" -> {0}
                 [] insn.k = "jump" -> 0..1
                 [] insn.k = "switch" -> 0..insn.arms
                 [] OTHER -> {}

\* ProbeInserter: the stores it puts into method number i, from an offset on.
Emit(i, m, offset, st, p) ==
    LET insn == m.insns[p]
        Store(e) == [at |-> <<i, p, e>>, index |-> offset + Len(st.stores) + e]
    IN  CASE insn.k # "line" ->
               [st EXCEPT !.stores =
                  @ \o [e \in 1..Cardinality(Edges(insn)) |-> Store(e - 1)]]
          [] insn.k = "line" /\ insn.n \in st.seen -> st
          [] OTHER -> [seen |-> st.seen \union {insn.n},
                       stores |-> Append(st.stores, Store(0))]
Inserted(i, m, offset) ==
    FoldLeft(LAMBDA st, p : Emit(i, m, offset, st, p),
             [seen |-> {}, stores |-> << >>], [p \in DOMAIN m.insns |-> p]).stores

\* InstrumentingClassVisitor
Stores(v) ==
    FoldLeft(LAMBDA stores, i : IF Instrumentable(Code[v][i])
                                THEN stores \o Inserted(i, Code[v][i], Len(stores))
                                ELSE stores,
             << >>, [i \in DOMAIN Code[v] |-> i])

\* What the program may execute: edges of instructions, and their lines.
Points(v) == UNION {UNION {{<<i, p, e>> : e \in Edges(Code[v][i].insns[p])} :
                             p \in DOMAIN Code[v][i].insns} : i \in DOMAIN Code[v]}
LineOf(v, x) ==
    LET insns == Code[v][x[1]].insns
        before == {q \in 1..x[2] : insns[q].k = "line"}
    IN  IF before = {} THEN -1 ELSE insns[Max(before)].n

-----------------------------------------------------------------------------
(* The agent *)

NoArray == [len |-> 0, hits |-> {}]

\* Mutant: growing forgets the hits.
GrownEmpty(array, n) == IF array.len < n THEN [len |-> n, hits |-> {}] ELSE array
\* getOrCreateProbes: a new array, or the old one grown to a copy, or as it is.
Grown(array, n) == IF array.len < n THEN [array EXCEPT !.len = n] ELSE array

\* gen: how often the store's array was replaced; copies: the loaded versions,
\* each with the array its field holds (0: <clinit> has not run); growing: the
\* copy whose <clinit> is growing the array, if any, and grown: the new array.
AgentInit ==
    /\ task \in [Jvms -> Tasks]
    /\ jvm = [j \in Jvms |-> [pc |-> "running", array |-> NoArray, gen |-> 0,
                              growing |-> 0, grown |-> NoArray,
                              copies |-> << >>, map |-> << >>]]
    /\ files = [t \in Tasks |-> [data |-> NoFile, dataBy |-> NoJvm,
                                 map |-> NoFile, mapBy |-> NoJvm]]
    /\ ran = {}

Alive(j) == jvm[j].pc # "down"
Loads == FoldSet(LAMBDA j, n : n + Len(jvm[j].copies), 0, Jvms)
Loaded == UNION {{c.version : c \in Range(jvm[j].copies)} : j \in Jvms}

\* OmnivoreClassTransformer: a class loader of j defines version v.  The map of
\* the JVM gets its probes, again if it had them.
Transform(j, v) ==
    /\ Alive(j) /\ Loads < MaxLoads
    /\ jvm' = [jvm EXCEPT ![j].copies = Append(@, [version |-> v, array |-> 0]),
                          ![j].map = @ \o Probes(v)]
    /\ UNCHANGED <<task, files, ran>>

\* <clinit>: OmnivoreRuntime.getProbes.  Only one thread at a time is in compute.
Needs(j, c) == CountProbes(jvm[j].copies[c].version)
Waiting(j, c) == Alive(j) /\ jvm[j].copies[c].array = 0 /\ jvm[j].growing = 0

\* There is no array yet, or it is long enough.
Initialise(j, c) ==
    LET new == Grown(jvm[j].array, Needs(j, c))
        gen == jvm[j].gen + (IF new.len > jvm[j].array.len THEN 1 ELSE 0)
    IN  /\ Waiting(j, c) /\ (jvm[j].gen = 0 \/ Needs(j, c) <= jvm[j].array.len)
        /\ jvm' = [jvm EXCEPT ![j].array = new, ![j].gen = gen,
                              ![j].copies[c].array = gen]
        /\ UNCHANGED <<task, files, ran>>

\* The array is too short: a longer copy is made, which the store gets later.
Grow(j, c) ==
    /\ Waiting(j, c) /\ jvm[j].gen > 0 /\ Needs(j, c) > jvm[j].array.len
    /\ jvm' = [jvm EXCEPT ![j].growing = c,
                          ![j].grown = Grown(jvm[j].array, Needs(j, c))]
    /\ UNCHANGED <<task, files, ran>>
Publish(j) ==
    /\ Alive(j) /\ jvm[j].growing > 0
    /\ jvm' = [jvm EXCEPT ![j].array = jvm[j].grown, ![j].gen = @ + 1,
                          ![j].copies[jvm[j].growing].array = jvm[j].gen + 1,
                          ![j].growing = 0, ![j].grown = NoArray]
    /\ UNCHANGED <<task, files, ran>>

\* A thread executes point x of copy c: its store, if it has one, goes to the
\* array the copy holds.  If that is being copied, copyInto may have passed the
\* element; if it is being written, the file may miss it.
Execute(j, c, x) ==
    LET copy == jvm[j].copies[c]
        stores == {s.index : s \in {t \in Range(Stores(copy.version)) : t.at = x}}
        reached == IF copy.array = jvm[j].gen THEN stores ELSE {}
        copied == IF jvm[j].growing > 0 THEN {reached, {}} ELSE {{}}
    IN  /\ Alive(j) /\ copy.array > 0 /\ Cardinality(ran) < MaxHits
        /\ \/ \E in \in copied :
                jvm' = [jvm EXCEPT ![j].array.hits = @ \union reached,
                                   ![j].grown.hits = @ \union in]
           \/ jvm[j].pc # "running" /\ UNCHANGED jvm
        /\ ran' = ran \union {[jvm |-> j, line |-> LineOf(copy.version, x),
                               kept |-> /\ reached # {} /\ jvm[j].growing = 0
                                        /\ jvm[j].pc = "running"]}
        /\ UNCHANGED <<task, files>>

\* The shutdown hook starts; it writes nothing if no class has an array.
ShutDown(j) ==
    /\ jvm[j].pc = "running"
    /\ jvm' = [jvm EXCEPT ![j].pc = IF jvm[j].gen = 0 THEN "down" ELSE "data"]
    /\ UNCHANGED <<task, files, ran>>

WriteData(j) ==
    /\ jvm[j].pc = "data"
    /\ files' = [files EXCEPT ![task[j]].data = jvm[j].array, ![task[j]].dataBy = j]
    /\ jvm' = [jvm EXCEPT ![j].pc = "map"]
    /\ UNCHANGED <<task, ran>>

WriteMap(j) ==
    /\ jvm[j].pc = "map"
    /\ files' = [files EXCEPT ![task[j]].map = jvm[j].map, ![task[j]].mapBy = j]
    /\ jvm' = [jvm EXCEPT ![j].pc = "down"]
    /\ UNCHANGED <<task, ran>>

\* A file that was being written may be left torn.
Kill(j) ==
    /\ Alive(j)
    /\ jvm' = [jvm EXCEPT ![j].pc = "down"]
    /\ \/ UNCHANGED files
       \/ /\ jvm[j].pc = "data"
          /\ files' = [files EXCEPT ![task[j]].data = Torn, ![task[j]].dataBy = NoJvm]
       \/ /\ jvm[j].pc = "map"
          /\ files' = [files EXCEPT ![task[j]].map = Torn, ![task[j]].mapBy = NoJvm]
    /\ UNCHANGED <<task, ran>>

AgentNext == \E j \in Jvms :
    \/ \E v \in Versions : Transform(j, v)
    \/ \E c \in DOMAIN jvm[j].copies :
         \/ Initialise(j, c) \/ Grow(j, c)
         \/ \E x \in Points(jvm[j].copies[c].version) : Execute(j, c, x)
    \/ Publish(j) \/ ShutDown(j) \/ WriteData(j) \/ WriteMap(j) \/ Kill(j)

AgentSpec == AgentInit /\ [][AgentNext]_agentvars

-----------------------------------------------------------------------------
(* The report, of the tasks' files in the order of the directory walk *)

\* mergeData: the arrays grow to the longest, the hits are united.
AddData(array, t) ==
    IF files[t].data = NoFile THEN array
    ELSE [Grown(array, files[t].data.len) EXCEPT !.hits = @ \union files[t].data.hits]
MergeData(order) == FoldLeft(AddData, NoArray, order)

\* What an index means is what the first entry for it says; another entry that
\* says something else is a conflict.
AddProbe(st, p) ==
    IF p.index \notin DOMAIN st.seen
    THEN [st EXCEPT !.seen = [i \in DOMAIN @ \union {p.index} |->
                                IF i = p.index THEN p.entry ELSE @[i]]]
    ELSE [st EXCEPT !.conflict = @ \/ st.seen[p.index] # p.entry]
AddMap(st, t) ==
    IF files[t].map \in {NoFile, Torn} THEN st ELSE FoldLeft(AddProbe, st, files[t].map)
MergeMaps(order) == FoldLeft(AddMap, [seen |-> [i \in {} |-> i], conflict |-> FALSE], order)

Stale(map, array) == Cardinality(DOMAIN map) > array.len

\* CoverageAnalyzer.analyze
Analyze(map, array) ==
    LET real == {i \in DOMAIN map : map[i].line > 0}
        hit == {i \in real : i < array.len /\ i \in array.hits}
    IN  [kind |-> "class",
         lines |-> {map[i].line : i \in real}, hits |-> {map[i].line : i \in hit},
         edges |-> Cardinality({i \in real : map[i].type = "BRANCH"})]

NoClass(kind) == [kind |-> kind, lines |-> {}, hits |-> {}, edges |-> 0]

\* generateReport: nothing without files, an error for a torn .omnivore file
\* or when no .probes file can be read, and no class whose files disagree.
Report(order) ==
    LET map == MergeMaps(order)
        array == MergeData(order)
        With(field) == {t \in Tasks : files[t][field] # NoFile}
    IN  IF With("data") = {} \/ With("map") = {} THEN NoClass("none")
        ELSE IF \/ \E t \in Tasks : files[t].data = Torn
                \/ \A t \in With("map") : files[t].map = Torn
        THEN NoClass("error")
        ELSE IF map.conflict \/ Stale(map.seen, array) THEN NoClass("dropped")
        ELSE Analyze(map.seen, array)

-----------------------------------------------------------------------------
(* Properties *)

\* The two files of a task are from one JVM: it was not killed between them,
\* and no other fork of the task wrote one of them.
Paired == \A t \in Tasks : files[t].dataBy = files[t].mapBy

Orders == SetToSeqs(Tasks)

\* A line is reported as executed only if it was executed: probes are numbered
\* alike in the map and in the code (walkProbes, ProbeInserter), and hits of
\* one version are never counted by the map of another, whatever versions,
\* class loaders, tasks and orders of files there are (mergeData,
\* dropStaleClasses), if the two files of each task are of one JVM.
HitsHappened ==
    Paired => \A order \in Orders : Report(order).hits \subseteq {e.line : e \in ran}

\* What was executed is reported: every probe a running JVM hit through the
\* array the store holds, while no thread was growing that, however often it is
\* grown afterwards, if that JVM was the last to write its task's files and the
\* class is in the report; and if there is only one version, it is in the
\* report, with each of its lines and edges once, however often it was loaded
\* (getOrCreateProbes, mergeData).  Code without a line is left out.  A hit
\* between copyInto and the publication of the copy may be lost.
HitsKept ==
    Paired => \A order \in Orders :
        LET r == Report(order) IN
        /\ r.kind = "class" =>
             \A e \in ran : e.kept /\ e.line > 0 /\ files[task[e.jvm]].dataBy = e.jvm
                           => e.line \in r.hits
        /\ r.kind \in {"class", "dropped"} => \A v \in Versions : Loaded = {v} =>
             LET real == {p \in Range(Probes(v)) : p.entry.line > 0} IN
             /\ r.lines = {p.entry.line : p \in real}
             /\ r.edges = Cardinality({p \in real : p.entry.type = "BRANCH"})
=============================================================================

----------------------------- MODULE SourceView -----------------------------
(***************************************************************************)
(* The source pane of a file (file_source_fragment in                      *)
(* routes/pages/file_coverage.rs) and its two caches: the file's text in   *)
(* table source_cache, kept for an hour, and in memory the list of a       *)
(* repository's files, kept for a quarter of one (github/source.rs), which *)
(* turns the path a coverage report names into a path of the repository.   *)
(* A repository is its versions; a push makes the next one the head, which *)
(* GitHub answers with.  What is fetched is used within the tick.          *)
(***************************************************************************)
EXTENDS Clock, Sequences, FiniteSets

CONSTANTS
    Repos,        \* linked repositories; one file of each is looked at
    Views,        \* viewers' requests
    History,      \* the versions of a repository: sequences of sets of paths
    Reported,     \* the path in the coverage report
    MainDirs,     \* "/src/main/": the two directory names
    FloatTTL,     \* FLOATING_SOURCE_TTL_SECONDS
    TreeTTL,      \* TREE_TTL
    MaxTrees,     \* TREE_CACHE_MAX_REPOS
    NoText, NoRepo

Versions == 1..Len(History)
Paths == UNION {History[v] : v \in Versions}
Text == [version: Versions, path: Paths]

ASSUME SourceAssumption ==
    /\ {FloatTTL, TreeTTL, MaxTrees} \subseteq Nat \ {0}
    /\ Len(History) \in Nat \ {0}
    /\ NoRepo \notin Repos
    /\ NoText \notin Text

VARIABLES
    head,     \* GitHub: the newest version of each repository
    cached,   \* table source_cache: the text of the file, by repository
    trees,    \* TREE_CACHE
    view,     \* the requests
    seen      \* auxiliary: when each version was the head last

sourcevars == <<head, cached, trees, view, seen>>

Fetching == {"cached", "tree", "raw", "store"}
View == [pc: Fetching \union {"idle", "done"}, repo: Repos \union {NoRepo},
         path: Paths \union {<< >>}, text: Text \union {NoText},
         failed: BOOLEAN]       \* auxiliary: a call to GitHub failed
Blank == [pc |-> "idle", repo |-> NoRepo, path |-> << >>, text |-> NoText,
          failed |-> FALSE]

SourceTypeOK ==
    /\ head \in [Repos -> Versions]
    /\ \A r \in Repos :
          cached[r] # NoText => cached[r].text \in Text /\ cached[r].at \in Nat
    /\ DOMAIN trees \subseteq Repos
    /\ \A r \in DOMAIN trees : trees[r].at \in Nat /\ trees[r].version \in Versions
    /\ view \in [Views -> View]
    /\ seen \in [Repos -> [Versions -> Nat]]

SourceInit ==
    /\ now = 0
    /\ head = [r \in Repos |-> 1]
    /\ cached = [r \in Repos |-> NoText]
    /\ trees = [r \in {} |-> NoText]
    /\ view = [w \in Views |-> Blank]
    /\ seen = [r \in Repos |-> [v \in Versions |-> 0]]

-----------------------------------------------------------------------------
(* resolve_file_path *)

Ends(path, tail) ==
    /\ Len(tail) <= Len(path)
    /\ SubSeq(path, Len(path) - Len(tail) + 1, Len(path)) = tail
InMain(path) ==
    \E i \in 2..Len(path) - 2 : <<path[i], path[i + 1]>> = MainDirs
Shortest(paths) == {p \in paths : \A q \in paths : Len(p) <= Len(q)}
Overlap(p, q) ==
    CHOOSE n \in 0..Len(p) :
        /\ n <= Len(q)
        /\ Ends(p, SubSeq(q, Len(q) - n + 1, Len(q)))
        /\ n < Len(p) /\ n < Len(q) => p[Len(p) - n] # q[Len(q) - n]

\* The paths it may return: a match of the whole path, of several the only one
\* under src/main, else one of the shortest (in the order of a hash map); with
\* no match a file of that name, of several one that agrees furthest.
Resolve(tree) ==
    LET whole == {p \in tree : Ends(p, Reported)}
        main == {p \in whole : InMain(p)}
        named == {p \in tree : p[Len(p)] = Reported[Len(Reported)]}
    IN IF whole # {} THEN IF Cardinality(main) = 1 /\ Cardinality(whole) > 1
                          THEN main ELSE Shortest(whole)
       ELSE {p \in named : \A q \in named :
                              Overlap(p, Reported) >= Overlap(q, Reported)}

-----------------------------------------------------------------------------
(* The caches *)

\* Mutant of TextFresh: a row without a commit is kept like one with.
TextFreshForever(row) == TRUE

\* get_cached_source, whose callers all leave the commit out
TextFresh(row) == now - row.at < FloatTTL

\* Mutant of TreeFresh: no expiry.
TreeFreshForever(tree) == TRUE

TreeFresh(tree) == now - tree.at < TreeTTL
FreshTrees == [r \in {r \in DOMAIN trees : TreeFresh(trees[r])} |-> trees[r]]

\* A full table gives up its oldest entry, and then takes the new one.
Oldest == {r \in DOMAIN trees : \A q \in DOMAIN trees : trees[r].at <= trees[q].at}
InsertTree(repo) ==
    \E evicted \in IF Cardinality(DOMAIN trees) < MaxTrees THEN {{}}
                    ELSE {{r} : r \in Oldest} :
        trees' = [r \in (DOMAIN trees \ evicted) \union {repo} |->
                    IF r = repo THEN [at |-> now, version |-> head[repo]]
                    ELSE trees[r]]

-----------------------------------------------------------------------------
(* The request *)

Viewing(w, pc) == view[w].pc = pc
Repo(w) == view[w].repo

\* Past the project, the file and the session.
Open(w, r) ==
    /\ Viewing(w, "idle")
    /\ view' = [view EXCEPT ![w].pc = "cached", ![w].repo = r]
    /\ UNCHANGED <<head, cached, trees, seen>>

\* Resolve over this version's listing, then ask for the file or give up.
Ask(w, version) ==
    IF Resolve(History[version]) = {}
    THEN view' = [view EXCEPT ![w].pc = "done"]
    ELSE \E p \in Resolve(History[version]) :
            view' = [view EXCEPT ![w].pc = "raw", ![w].path = p]

\* The text from the cache; without one, or if the read fails, the listing
\* from the other, else from GitHub.
LookUp(w) ==
    /\ Viewing(w, "cached")
    /\ \/ /\ cached[Repo(w)] # NoText
          /\ TextFresh(cached[Repo(w)])
          /\ view' = [view EXCEPT ![w].pc = "done", ![w].text = cached[Repo(w)].text]
          /\ UNCHANGED trees
       \/ /\ trees' = FreshTrees
          /\ IF Repo(w) \in DOMAIN FreshTrees
             THEN Ask(w, FreshTrees[Repo(w)].version)
             ELSE view' = [view EXCEPT ![w].pc = "tree"]
    /\ UNCHANGED <<head, cached, seen>>

Fails(w) == view' = [view EXCEPT ![w].pc = "done", ![w].failed = TRUE]

\* get_or_fetch_tree past its cache
FetchTree(w) ==
    /\ Viewing(w, "tree")
    /\ \/ Fails(w) /\ UNCHANGED trees
       \/ InsertTree(Repo(w)) /\ Ask(w, head[Repo(w)])
    /\ UNCHANGED <<head, cached, seen>>

\* fetch_source at HEAD: a path that is not there is a 404.
FetchRaw(w) ==
    /\ Viewing(w, "raw")
    /\ \/ Fails(w)
       \/ LET version == head[Repo(w)] IN
          IF view[w].path \in History[version]
          THEN view' = [view EXCEPT
                   ![w].pc = "store",
                   ![w].text = [version |-> version, path |-> view[w].path]]
          ELSE view' = [view EXCEPT ![w].pc = "done"]
    /\ UNCHANGED <<head, cached, trees, seen>>

\* cache_source; a failure is ignored.
StoreText(w) ==
    /\ Viewing(w, "store")
    /\ \/ cached' = [cached EXCEPT ![Repo(w)] = [at |-> now, text |-> view[w].text]]
       \/ UNCHANGED cached
    /\ view' = [view EXCEPT ![w].pc = "done"]
    /\ UNCHANGED <<head, trees, seen>>

Show(w) ==
    /\ Viewing(w, "done")
    /\ view' = [view EXCEPT ![w] = Blank]
    /\ UNCHANGED <<head, cached, trees, seen>>

-----------------------------------------------------------------------------
Push(r) ==
    /\ head[r] < Len(History)
    /\ head' = [head EXCEPT ![r] = @ + 1]
    /\ seen' = [seen EXCEPT ![r] = [@ EXCEPT ![head[r]] = now, ![head[r] + 1] = now]]
    /\ UNCHANGED <<cached, trees, view>>

\* prune_source_cache, from the housekeeping loop
SweepTexts ==
    /\ cached' = [r \in Repos |->
                    IF cached[r] # NoText /\ now - cached[r].at > FloatTTL
                    THEN NoText ELSE cached[r]]
    /\ UNCHANGED <<head, trees, view, seen>>

SourceTick ==
    /\ \A w \in Views : view[w].pc \notin {"raw", "store", "done"}
    /\ Passes
    /\ seen' = [r \in Repos |-> [seen[r] EXCEPT ![head[r]] = now']]
    /\ UNCHANGED <<head, cached, trees, view>>

SourceNext ==
    \/ /\ \/ \E w \in Views :
                \/ \E r \in Repos : Open(w, r)
                \/ LookUp(w) \/ FetchTree(w) \/ FetchRaw(w) \/ StoreText(w)
                \/ Show(w)
          \/ \E r \in Repos : Push(r)
          \/ SweepTexts
       /\ UNCHANGED now
    \/ SourceTick

SourceSpec == SourceInit /\ [][SourceNext]_<<now, sourcevars>>

-----------------------------------------------------------------------------
(* Properties *)

\* The text shown was the repository's head within the last hour, however it
\* came: from the cache, or filled in by another viewer meanwhile.
SourceIsRecent ==
    \A w \in Views : Viewing(w, "done") /\ view[w].text # NoText =>
        now - seen[view[w].repo][view[w].text.version] < FloatTTL

\* No text, though every call was answered, means that a version of the last
\* quarter of an hour does not have the file, or has it at a path that the
\* head does not have as the answer is made: a rename is missed for no longer
\* than a listing is kept.
MissHasCause ==
    \A w \in Views :
        Viewing(w, "done") /\ view[w].text = NoText /\ ~view[w].failed =>
            \E v, h \in Versions :
                /\ now - seen[view[w].repo][v] < TreeTTL
                /\ seen[view[w].repo][h] = now
                /\ \/ Resolve(History[v]) = {}
                   \/ ~(Resolve(History[v]) \subseteq History[h])
=============================================================================

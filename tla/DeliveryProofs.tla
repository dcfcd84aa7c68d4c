--------------------------- MODULE DeliveryProofs ---------------------------
(***************************************************************************)
(* Proofs about Delivery: for any number of jobs, files, re-runs and       *)
(* clients, what a job that ends well has stored, what a comment says and  *)
(* when there are two; that the limiter's table keeps within its cap; and  *)
(* that its quota binds and nobody is refused before using it up.          *)
(***************************************************************************)
EXTENDS Delivery, FoldLemmas, FiniteSetTheorems

DeliveryTypes ==
    /\ job \in [Jobs -> Job]
    /\ up \in [Uploads -> Upload]
    /\ gone \in [Uploads -> {"no", "pruned", "deleted"}]
    /\ comments \in Seq(Comment)
    /\ parsed \in Nat

\* What the state of a handler says of its upload.
Flow(u) ==
    /\ up[u].status # "none" => up[u].pc \in {"answered", "dropped"}
    /\ up[u].status = "created" => up[u].stored
    /\ up[u].pc \in {"prune", "token", "baseline", "find", "write"} => up[u].stored
    /\ up[u].stored => up[u].pc \notin {"unsent", "limit", "parse", "store"}
    /\ up[u].heard => up[u].status # "none"
    /\ up[u].created <= parsed
    /\ \A q \in up[u].after : up[q].heard
    /\ up[u].base # NoUpload => up[up[u].base].stored

\* The uploads the job has not sent yet.
Pending(u) ==
    \/ u[2] > job[u[1]].run
    \/ /\ u[2] = job[u[1]].run
       /\ u[3] > job[u[1]].file \/ (u[3] = job[u[1]].file /\ job[u[1]].state = "ready")

\* Where a job is in its list of files, and what it has stored by then.
Progress(j) ==
    /\ job[j].run <= Plan[j].runs
    /\ job[j].state # "idle" => job[j].run >= 1 /\ job[j].file \in 1..Plan[j].files
    /\ job[j].state \in {"ready", "waiting"} /\ ~job[j].failed =>
          \A f \in 1..(job[j].file - 1) : up[<<j, job[j].run, f>>].stored
    /\ job[j].state = "ok" =>
          \A f \in 1..Plan[j].files : up[<<j, job[j].run, f>>].stored

\* What a handler knows of the comments when it is about to write one.
Seeking(u) ==
    up[u].pc = "write" =>
        /\ up[u].looked <= Len(comments)
        /\ up[u].found # 0 => up[u].found \in DOMAIN comments /\ Marked(up[u].found)
        /\ up[u].found = 0 =>
              \A k \in DOMAIN comments :
                  k <= up[u].looked /\ k <= PageSize => ~Marked(k)

\* BaselineIsCurrent, for one upload.
Based(u) ==
    \A q \in up[u].after :
        up[u].pc \in {"find", "write"} /\ ~up[u].failed
            /\ up[q].status = "created" /\ JobOf(q).branch = JobOf(u).base
            /\ gone[q] # "deleted"
        => \/ up[u].base # NoUpload /\ up[up[u].base].created >= up[q].created
           \/ Outlived(q)

\* A row is pruned when its series has as many newer snapshots as it may keep.
InTurn(q) == gone[q] = "pruned" => up[q].stored /\ Outlived(q)

DeliveryInv ==
    /\ DeliveryTypes
    /\ \A u \in Uploads : /\ Flow(u)
                          /\ Pending(u) => up[u].pc = "unsent"
                          /\ Seeking(u)
                          /\ Based(u)
                          /\ InTurn(u)
    /\ \A j \in Jobs : Progress(j)
    /\ DuplicateNeedsCause

-----------------------------------------------------------------------------
LEMMA UploadShape ==
    /\ \A u \in Uploads : /\ u[1] \in Jobs
                          /\ u[2] \in 1..Plan[u[1]].runs
                          /\ u[3] \in 1..Plan[u[1]].files
                          /\ u = <<u[1], u[2], u[3]>>
    /\ \A j \in Jobs : \A r \in 1..Plan[j].runs, f \in 1..Plan[j].files :
          <<j, r, f>> \in Uploads
    /\ NoUpload \notin Uploads
    /\ \A j \in Jobs : Plan[j].runs \in Nat /\ Plan[j].files \in Nat \ {0}
<1>1. \A j \in Jobs : Plan[j].runs \in Nat /\ Plan[j].files \in Nat \ {0}
  BY DeliveryAssumption DEF JobSpec
<1>2. ASSUME NEW u \in Uploads
      PROVE  /\ u[1] \in Jobs
             /\ u[2] \in 1..Plan[u[1]].runs
             /\ u[3] \in 1..Plan[u[1]].files
             /\ u = <<u[1], u[2], u[3]>>
  BY DEF Uploads
<1>3. \A j \in Jobs : \A r \in 1..Plan[j].runs, f \in 1..Plan[j].files :
          <<j, r, f>> \in Uploads
  BY DEF Uploads
<1>4. NoUpload \notin Uploads
  <2>1. \A u \in Uploads : u \in Jobs \X Nat \X Nat
    BY <1>1, <1>2
  <2> QED BY <2>1, DeliveryAssumption
<1> QED BY <1>1, <1>2, <1>3, <1>4

LEMMA UnsentIsUpload == Unsent \in Upload
BY DEF Unsent, Upload

LEMMA InitDelivery == Init => DeliveryInv
<1> SUFFICES ASSUME Init PROVE DeliveryInv
  OBVIOUS
<1> USE UploadShape, UnsentIsUpload DEF Init
<1>1. DeliveryTypes
  BY DEF DeliveryTypes, Job
<1>2. \A u \in Uploads : Flow(u) /\ Seeking(u) /\ Based(u) /\ up[u].pc = "unsent"
  BY DEF Flow, Seeking, Based, Unsent
<1>5. \A u \in Uploads : InTurn(u)
  BY DEF InTurn
<1>3. \A j \in Jobs : Progress(j)
  BY DEF Progress
<1>4. DuplicateNeedsCause
  BY DEF DuplicateNeedsCause
<1> QED BY <1>1, <1>2, <1>3, <1>4, <1>5 DEF DeliveryInv

-----------------------------------------------------------------------------
(* What a step of a handler does to its upload *)

Becomes(u, x) == /\ up' \in [Uploads -> Upload]
                 /\ up'[u] = x
                 /\ \A q \in Uploads \ {u} : up'[q] = up[q]

LEMMA Replaced ==
    ASSUME DeliveryTypes, NEW u \in Uploads, NEW x \in Upload,
           up' = [up EXCEPT ![u] = x]
    PROVE  Becomes(u, x)
BY DEF DeliveryTypes, Becomes

\* What every step of a handler keeps to.
Works(u) ==
    /\ up' \in [Uploads -> Upload]
    /\ \A q \in Uploads \ {u} : up'[q] = up[q]
    /\ up'[u].heard = up[u].heard /\ up'[u].after = up[u].after
    /\ up[u].pc \in Handling /\ up'[u].pc # "unsent"
    /\ up[u].stored => up'[u].stored
    /\ up'[u].status # "none" => up'[u].pc \in {"answered", "dropped"}
    /\ up'[u].status = "created" => up'[u].stored
    /\ up'[u].pc \in {"prune", "token", "baseline", "find", "write"} => up'[u].stored
    /\ up'[u].stored => up'[u].pc \notin {"unsent", "limit", "parse", "store"}
    /\ up'[u].created # up[u].created => up[u].pc = "parse" /\ up'[u].created = parsed'
    /\ parsed' \in Nat /\ parsed <= parsed'

LEMMA ReplyWorks ==
    ASSUME DeliveryTypes, NEW u \in Uploads, Flow(u), up[u].pc \in Handling,
           NEW status \in {"created", "error"}, Reply(u, status), UNCHANGED parsed,
           status = "created" => up[u].stored
    PROVE  Works(u) /\ up'[u].pc = "answered" /\ up'[u].base = NoUpload
<1> DEFINE x == [up[u] EXCEPT !.pc = "answered", !.status = status,
                              !.base = NoUpload, !.failed = FALSE,
                              !.found = 0, !.looked = 0]
<1>1. up[u] \in Upload
  BY DEF DeliveryTypes
<1>2. x \in Upload
  BY <1>1 DEF Upload
<1>3. /\ x.pc = "answered" /\ x.base = NoUpload /\ x.status = status /\ x.stored = up[u].stored
      /\ x.heard = up[u].heard /\ x.after = up[u].after /\ x.created = up[u].created
  BY <1>1 DEF Upload
<1>4. up' = [up EXCEPT ![u] = x]
  BY DEF Reply
<1> HIDE DEF x
<1>5. Becomes(u, x)
  BY <1>2, <1>4, Replaced
<1> QED BY <1>3, <1>5 DEF Becomes, Works, DeliveryTypes

LEMMA GotoWorks ==
    ASSUME DeliveryTypes, NEW u \in Uploads, Flow(u), up[u].pc \in Handling,
           NEW pc \in {"parse", "baseline", "dropped"}, Goto(u, pc), UNCHANGED parsed,
           pc = "parse" => up[u].pc = "limit", pc = "baseline" => up[u].pc = "token"
    PROVE  Works(u) /\ up'[u].pc = pc /\ up'[u].base = up[u].base
<1> DEFINE x == [up[u] EXCEPT !.pc = pc]
<1>1. up[u] \in Upload
  BY DEF DeliveryTypes
<1>2. x \in Upload
  BY <1>1 DEF Upload, Handling
<1>3. /\ x.pc = pc /\ x.base = up[u].base /\ x.status = up[u].status /\ x.stored = up[u].stored
      /\ x.heard = up[u].heard /\ x.after = up[u].after /\ x.created = up[u].created
  BY <1>1 DEF Upload
<1>4. up' = [up EXCEPT ![u] = x]
  BY DEF Goto, DeliveryTypes
<1> HIDE DEF x
<1>5. Becomes(u, x)
  BY <1>2, <1>4, Replaced
<1> QED BY <1>3, <1>5 DEF Becomes, Works, DeliveryTypes, Flow, Handling

\* Stored snapshots are dated for good, so there are ever more that are newer.
Dated == \A q \in Uploads : up[q].stored => up'[q].stored /\ up'[q].created = up[q].created

LEMMA OutlivedStays ==
    ASSUME Dated, NEW q \in Uploads, up[q].stored, Outlived(q)
    PROVE  Outlived(q)'
<1>1. IsFiniteSet(Uploads) /\ Newer(q)' \subseteq Uploads /\ Retentions \subseteq Nat
  BY DeliveryAssumption DEF Newer
<1>2. Newer(q) \subseteq Newer(q)'
  BY DEF Newer, Dated
<1>3. IsFiniteSet(Newer(q)')
  BY <1>1, FS_Subset
<1>4. IsFiniteSet(Newer(q)) /\ Cardinality(Newer(q)) <= Cardinality(Newer(q)')
  BY <1>2, <1>3, FS_Subset
<1>5. Cardinality(Newer(q)) \in Nat /\ Cardinality(Newer(q)') \in Nat
  BY <1>3, <1>4, FS_CardinalityType
<1>6. PICK k \in Retentions : Cardinality(Newer(q)) >= k
  BY DEF Outlived
<1>7. Cardinality(Newer(q)') >= k
  BY <1>1, <1>4, <1>5, <1>6
<1> QED BY <1>7 DEF Outlived

\* What any step may do to the rows.
Ages ==
    /\ gone' \in [Uploads -> {"no", "pruned", "deleted"}]
    /\ \A q \in Uploads :
          /\ gone[q] = "deleted" => gone'[q] = "deleted"
          /\ gone'[q] = "pruned" /\ gone[q] # "pruned" => up[q].stored /\ Outlived(q)

LEMMA SameAges == DeliveryTypes /\ UNCHANGED gone => Ages
BY DEF DeliveryTypes, Ages

LEMMA AgesInTurn ==
    ASSUME DeliveryInv, Dated, Ages PROVE \A q \in Uploads : InTurn(q)'
<1> SUFFICES ASSUME NEW q \in Uploads, gone'[q] = "pruned"
             PROVE  up'[q].stored /\ Outlived(q)'
  BY DEF InTurn
<1>1. up[q].stored /\ Outlived(q)
  BY DEF Ages, DeliveryInv, InTurn
<1> QED BY <1>1, OutlivedStays DEF Dated

LEMMA SameRows ==
    ASSUME DeliveryInv, UNCHANGED <<up, gone>>
    PROVE  \A u \in Uploads : Based(u)' /\ InTurn(u)'
<1>1. Dated /\ Ages
  BY SameAges DEF Dated, DeliveryInv
<1>2. \A q \in Uploads : up[q].stored /\ Outlived(q) => Outlived(q)'
  BY <1>1, OutlivedStays
<1>3. ASSUME NEW u \in Uploads PROVE Based(u)'
  <2>1. \A q \in up[u].after : /\ q \in Uploads
                               /\ up[q].status = "created" => up[q].stored
    BY DEF DeliveryInv, DeliveryTypes, Flow, Upload
  <2> QED BY <1>2, <2>1 DEF Based, JobOf, DeliveryInv
<1> QED BY <1>1, <1>3, AgesInTurn

LEMMA WorksDated ==
    ASSUME DeliveryInv, NEW u \in Uploads, Works(u) PROVE Dated
BY DEF DeliveryInv, Works, Flow, Dated

\* The uploads a handler leaves alone, and jobs, know what they knew.
LEMMA WorksFlow ==
    ASSUME DeliveryInv, NEW u \in Uploads, Works(u),
           up'[u].base # NoUpload => up[up'[u].base].stored
    PROVE  \A q \in Uploads : Flow(q)'
<1> USE DEF DeliveryInv, DeliveryTypes
<1>1. \A q \in Uploads : /\ up'[q].heard = up[q].heard
                         /\ up[q].stored => up'[q].stored
  BY DEF Works
<1>2. \A q \in Uploads : up'[q] \in Upload /\ up[q] \in Upload
  BY DEF Works
<1>3. ASSUME NEW q \in Uploads PROVE Flow(q)'
  <2>1. up'[q].base # NoUpload =>
            up'[q].base \in Uploads /\ up[up'[q].base].stored
    <3>1. up'[q].base \in Uploads \union {NoUpload}
      BY <1>2 DEF Upload
    <3>2. CASE q = u
      BY <3>1, <3>2
    <3>3. CASE q # u
      BY <3>1, <3>3 DEF Works, Flow
    <3> QED BY <3>2, <3>3
  <2>2. up'[q].base # NoUpload => up'[up'[q].base].stored
    BY <1>1, <2>1
  <2>3. up'[q].after \subseteq Uploads /\ up'[q].after = up[q].after
    <3>1. up'[q].after \subseteq Uploads
      BY <1>2 DEF Upload
    <3>2. up'[q].after = up[q].after
      BY DEF Works
    <3> QED BY <3>1, <3>2
  <2>4. \A r \in up'[q].after : up'[r].heard
    BY <1>1, <2>3 DEF Flow
  <2>5. up'[q].created <= parsed'
    <3>1. up'[q].created \in Nat /\ up[q].created \in Nat
      BY <1>2 DEF Upload
    <3>2. up'[q].created \in {up[q].created, parsed'}
      BY DEF Works
    <3> QED BY <3>1, <3>2 DEF Works, Flow
  <2>6. up'[q].heard => up'[q].status # "none"
    <3>1. CASE q = u
      BY <3>1 DEF Works, Flow, Handling
    <3>2. CASE q # u
      BY <3>2 DEF Works, Flow
    <3> QED BY <3>1, <3>2
  <2> QED BY <2>2, <2>4, <2>5, <2>6 DEF Works, Flow
<1> QED BY <1>3

LEMMA WorksProgress ==
    ASSUME DeliveryInv, NEW u \in Uploads, Works(u), UNCHANGED job
    PROVE  /\ \A j \in Jobs : Progress(j)'
           /\ \A q \in Uploads : Pending(q)' => up'[q].pc = "unsent"
<1> USE DEF DeliveryInv, DeliveryTypes
<1>1. \A q \in Uploads : up[q].stored => up'[q].stored
  BY DEF Works
<1>2. ASSUME NEW j \in Jobs PROVE Progress(j)'
  <2>1. Progress(j) /\ job[j] \in Job
    OBVIOUS
  <2>2. /\ job[j].run \in Nat /\ job[j].file \in Nat
        /\ Plan[j].runs \in Nat /\ Plan[j].files \in Nat
    BY <2>1, UploadShape DEF Job
  <2>3. ASSUME job[j].state # "idle", NEW f \in 1..Plan[j].files,
               up[<<j, job[j].run, f>>].stored
        PROVE  up'[<<j, job[j].run, f>>].stored
    BY <1>1, <2>1, <2>2, <2>3, UploadShape DEF Progress
  <2>4. job'[j] = job[j]
    OBVIOUS
  <2>5. job[j].state \in {"ready", "waiting"} =>
           1..(job[j].file - 1) \subseteq 1..Plan[j].files
    BY <2>1, <2>2 DEF Progress
  <2> QED BY <2>1, <2>3, <2>4, <2>5 DEF Progress
<1>3. \A q \in Uploads : Pending(q)' => Pending(q)
  BY DEF Pending
<1>4. \A q \in Uploads : up[q].pc = "unsent" => up'[q].pc = "unsent"
  BY DEF Works, Handling
<1> QED BY <1>2, <1>3, <1>4

\* A baseline stays what it was, and so do the uploads that were heard of.
LEMMA WorksBased ==
    ASSUME DeliveryInv, NEW u \in Uploads, Works(u), Ages,
           up'[u].pc \in {"find", "write"} => Based(u)'
    PROVE  \A w \in Uploads : Based(w)'
<1> USE DEF DeliveryInv, DeliveryTypes
<1>1. \A q \in Uploads : up[q].heard => up'[q] = up[q]
  BY DEF Works, Flow, Handling
<1>2. \A q \in Uploads : up[q].stored => up'[q].created = up[q].created
  BY DEF Works, Flow
<1>3. ASSUME NEW w \in Uploads, w # u PROVE Based(w)'
  <2>1. up'[w] = up[w] /\ up[w] \in Upload
    BY <1>3 DEF Works
  <2>2. \A q \in up[w].after : q \in Uploads /\ up'[q] = up[q]
    BY <1>1, <2>1 DEF Flow, Upload
  <2>3. up[w].base # NoUpload => up'[up[w].base].created = up[up[w].base].created
    BY <1>2, <2>1 DEF Flow, Upload
  <2>4. Based(w)
    OBVIOUS
  <2>5. ASSUME NEW q \in up[w].after, up[q].status = "created"
        PROVE  /\ Outlived(q) => Outlived(q)'
               /\ gone'[q] # "deleted" => gone[q] # "deleted"
    BY <2>2, <2>5, WorksDated, OutlivedStays DEF Flow, Ages
  <2> QED BY <2>1, <2>2, <2>3, <2>4, <2>5 DEF Based, JobOf
<1>4. up'[u].pc \notin {"find", "write"} => Based(u)'
  BY DEF Based
<1> QED BY <1>3, <1>4

LEMMA WorksSeeking ==
    ASSUME DeliveryInv, NEW u \in Uploads, Works(u), UNCHANGED comments,
           up'[u].pc = "write" => Seeking(u)'
    PROVE  \A w \in Uploads : Seeking(w)'
<1>1. ASSUME NEW w \in Uploads, w # u PROVE Seeking(w)'
  BY <1>1 DEF DeliveryInv, Works, Seeking, Marked
<1>2. up'[u].pc # "write" => Seeking(u)'
  BY DEF Seeking
<1> QED BY <1>1, <1>2

\* All of this together, for a step that leaves the comments alone.
LEMMA WorksInv ==
    ASSUME DeliveryInv, NEW u \in Uploads, Works(u), Ages, UNCHANGED <<job, comments>>,
           up'[u].base # NoUpload => up[up'[u].base].stored,
           up'[u].pc \in {"find", "write"} => Based(u)',
           up'[u].pc = "write" => Seeking(u)'
    PROVE  DeliveryInv'
<1>1. DeliveryTypes'
  BY DEF DeliveryInv, DeliveryTypes, Works, Ages
<1>2. DuplicateNeedsCause'
  BY DEF DeliveryInv, DuplicateNeedsCause, Marked
<1>3. \A q \in Uploads : InTurn(q)'
  BY WorksDated, AgesInTurn
<1> QED BY <1>1, <1>2, <1>3, WorksFlow, WorksProgress, WorksBased, WorksSeeking
    DEF DeliveryInv

\* A step after which the handler has read nothing of the comment's.
LEMMA PlainInv ==
    ASSUME DeliveryInv, NEW u \in Uploads, Works(u), Ages, UNCHANGED <<job, comments>>,
           up'[u].pc \notin {"find", "write"},
           up'[u].base \in {up[u].base, NoUpload}
    PROVE  DeliveryInv'
<1>1. up'[u].base # NoUpload => up[up'[u].base].stored
  BY DEF DeliveryInv, Flow
<1> QED BY <1>1, WorksInv

-----------------------------------------------------------------------------
(* The steps of a handler *)

LEMMA ArriveStep == ASSUME DeliveryInv, NEW u \in Uploads, Arrive(u) PROVE DeliveryInv'
<1>1. up[u].pc \in Handling /\ up[u].pc = "limit" /\ Flow(u) /\ DeliveryTypes
  BY DEF Arrive, Pc, Handling, DeliveryInv
<1>2. Reply(u, "error") \/ Goto(u, "parse")
  BY DEF Arrive
<1>3. UNCHANGED <<job, comments, parsed>> /\ Ages
  BY <1>1, SameAges DEF Arrive
<1> QED BY <1>1, <1>2, <1>3, ReplyWorks, GotoWorks, PlainInv

LEMMA ParseStep == ASSUME DeliveryInv, NEW u \in Uploads, Parse(u) PROVE DeliveryInv'
<1>1. /\ up[u].pc \in Handling /\ up[u].pc = "parse" /\ Flow(u) /\ DeliveryTypes
      /\ up[u] \in Upload /\ parsed \in Nat
  BY DEF Parse, Pc, Handling, DeliveryInv, DeliveryTypes
<1>2. UNCHANGED <<job, comments>> /\ Ages
  BY <1>1, SameAges DEF Parse
<1>3. CASE Reply(u, "error") /\ UNCHANGED parsed
  BY <1>1, <1>2, <1>3, ReplyWorks, PlainInv
<1>4. CASE /\ parsed' = parsed + 1
           /\ up' = [up EXCEPT ![u].pc = "store", ![u].created = parsed + 1]
  <2> DEFINE x == [up[u] EXCEPT !.pc = "store", !.created = parsed + 1]
  <2>1. parsed + 1 \in Nat
    BY <1>1
  <2>2. x \in Upload
    BY <1>1, <2>1 DEF Upload, Handling
  <2>3. /\ x.pc = "store" /\ x.base = up[u].base /\ x.status = up[u].status
        /\ x.stored = up[u].stored /\ x.heard = up[u].heard
        /\ x.after = up[u].after /\ x.created = parsed + 1
    BY <1>1 DEF Upload
  <2>4. up' = [up EXCEPT ![u] = x]
    BY <1>4 DEF DeliveryInv, DeliveryTypes
  <2> HIDE DEF x
  <2>5. Becomes(u, x)
    BY <1>1, <2>2, <2>4, Replaced
  <2>6. Works(u) /\ up'[u].pc = "store" /\ up'[u].base = up[u].base
    BY <1>1, <1>4, <2>1, <2>3, <2>5 DEF Becomes, Works, Flow
  <2> QED BY <1>2, <2>6, PlainInv
<1> QED BY <1>3, <1>4 DEF Parse

LEMMA StoreStep == ASSUME DeliveryInv, NEW u \in Uploads, Store(u) PROVE DeliveryInv'
<1>1. /\ up[u].pc \in Handling /\ up[u].pc = "store" /\ Flow(u) /\ DeliveryTypes
      /\ up[u] \in Upload
  BY DEF Store, Pc, Handling, DeliveryInv, DeliveryTypes
<1>2. UNCHANGED <<job, comments, parsed>> /\ Ages
  BY <1>1, SameAges DEF Store
<1>3. CASE Reply(u, "error")
  BY <1>1, <1>2, <1>3, ReplyWorks, PlainInv
<1>4. CASE up' = [up EXCEPT ![u].pc = "prune", ![u].stored = TRUE]
  <2> DEFINE x == [up[u] EXCEPT !.pc = "prune", !.stored = TRUE]
  <2>1. x \in Upload
    BY <1>1 DEF Upload, Handling
  <2>2. /\ x.pc = "prune" /\ x.base = up[u].base /\ x.status = up[u].status
        /\ x.stored /\ x.heard = up[u].heard
        /\ x.after = up[u].after /\ x.created = up[u].created
    BY <1>1 DEF Upload
  <2>3. up' = [up EXCEPT ![u] = x]
    BY <1>4 DEF DeliveryInv, DeliveryTypes
  <2> HIDE DEF x
  <2>4. Becomes(u, x)
    BY <1>1, <2>1, <2>3, Replaced
  <2>5. Works(u) /\ up'[u].pc = "prune" /\ up'[u].base = up[u].base
    BY <1>1, <1>2, <2>2, <2>4 DEF Becomes, Works, Flow, DeliveryTypes
  <2> QED BY <1>2, <2>5, PlainInv
<1> QED BY <1>3, <1>4 DEF Store

\* Pruning takes the rows whose turn it is.
LEMMA PrunesAges ==
    ASSUME DeliveryTypes, NEW u \in Uploads, NEW k \in Retentions, Prunes(u, k)
    PROVE  Ages
<1>1. gone' \in [Uploads -> {"no", "pruned", "deleted"}]
  BY DEF Prunes, DeliveryTypes
<1>2. ASSUME NEW q \in Uploads, gone[q] = "deleted" PROVE gone'[q] = "deleted"
  BY <1>2 DEF Prunes, Surplus, Rows
<1>3. ASSUME NEW q \in Uploads, gone'[q] = "pruned", gone[q] # "pruned"
      PROVE  up[q].stored /\ Outlived(q)
  <2> DEFINE series == {r \in Rows : SeriesOf[r] = SeriesOf[u]}
             newer == {p \in series : up[p].created > up[q].created}
  <2>1. q \in Surplus(u, k)
    BY <1>3 DEF Prunes
  <2>2. q \in series /\ Cardinality(newer) >= k
    BY <2>1 DEF Surplus
  <2>3. newer \subseteq Newer(q)
    BY <2>2 DEF Newer, Rows
  <2>4. IsFiniteSet(Newer(q))
    <3>1. IsFiniteSet(Uploads) /\ Newer(q) \subseteq Uploads
      BY DeliveryAssumption DEF Newer
    <3> QED BY <3>1, FS_Subset
  <2>5. IsFiniteSet(newer) /\ Cardinality(newer) <= Cardinality(Newer(q))
    BY <2>3, <2>4, FS_Subset
  <2>6. Cardinality(newer) \in Nat /\ Cardinality(Newer(q)) \in Nat /\ k \in Nat
    BY <2>4, <2>5, FS_CardinalityType, DeliveryAssumption
  <2>7. Cardinality(Newer(q)) >= k
    BY <2>2, <2>5, <2>6
  <2> QED BY <2>2, <2>7 DEF Outlived, Rows
<1> QED BY <1>1, <1>2, <1>3 DEF Ages

LEMMA PruneStep == ASSUME DeliveryInv, NEW u \in Uploads, Prune(u) PROVE DeliveryInv'
<1>1. /\ up[u].pc \in Handling /\ up[u].pc = "prune" /\ Flow(u) /\ DeliveryTypes
      /\ up[u] \in Upload /\ up[u].stored
  BY DEF Prune, Pc, Handling, DeliveryInv, DeliveryTypes, Flow
<1>2. UNCHANGED <<job, comments, parsed>> /\ Ages
  BY <1>1, SameAges, PrunesAges DEF Prune
<1>3. CASE Reply(u, "error")
  BY <1>1, <1>2, <1>3, ReplyWorks, PlainInv
<1> DEFINE pc == AfterStore(u)
           status == IF AnswersNow(u) THEN "created" ELSE "none"
<1>4. CASE up' = [up EXCEPT ![u].pc = pc, ![u].status = status]
  <2>1. /\ pc \in {"answered", "token", "baseline"} /\ status \in {"created", "none"}
        /\ status # "none" => pc = "answered"
    BY DEF AfterStore, AnswersNow
  <2> HIDE DEF pc, status
  <2> DEFINE x == [up[u] EXCEPT !.pc = pc, !.status = status]
  <2>2. x \in Upload
    BY <1>1, <2>1 DEF Upload, Handling
  <2>3. /\ x.pc = pc /\ x.base = up[u].base /\ x.status = status
        /\ x.stored /\ x.heard = up[u].heard
        /\ x.after = up[u].after /\ x.created = up[u].created
    BY <1>1 DEF Upload
  <2>4. up' = [up EXCEPT ![u] = x]
    BY <1>4 DEF DeliveryInv, DeliveryTypes
  <2> HIDE DEF x
  <2>5. Becomes(u, x)
    BY <1>1, <2>2, <2>4, Replaced
  <2>6. Works(u) /\ up'[u].pc = pc /\ up'[u].base = up[u].base
    BY <1>1, <1>2, <2>1, <2>3, <2>5 DEF Becomes, Works, Flow, DeliveryTypes
  <2> QED BY <1>2, <2>1, <2>6, PlainInv
<1> QED BY <1>3, <1>4 DEF Prune

LEMMA TokenStep == ASSUME DeliveryInv, NEW u \in Uploads, Token(u) PROVE DeliveryInv'
<1>1. up[u].pc \in Handling /\ up[u].pc = "token" /\ Flow(u) /\ DeliveryTypes
  BY DEF Token, Pc, Handling, DeliveryInv
<1>2. up[u].stored
  BY <1>1 DEF Flow
<1>3. Reply(u, "created") \/ Goto(u, "baseline")
  BY DEF Token
<1>4. UNCHANGED <<job, comments, parsed>> /\ Ages
  BY <1>1, SameAges DEF Token
<1> QED BY <1>1, <1>2, <1>3, <1>4, ReplyWorks, GotoWorks, PlainInv

LEMMA DropStep == ASSUME DeliveryInv, NEW u \in Uploads, Drop(u) PROVE DeliveryInv'
<1>1. up[u].pc \in Handling /\ Flow(u) /\ DeliveryTypes
  BY DEF Drop, InHandler, Pc, DeliveryInv
<1>2. Goto(u, "dropped") /\ UNCHANGED <<job, comments, parsed>> /\ Ages
  BY <1>1, SameAges DEF Drop
<1> QED BY <1>1, <1>2, GotoWorks, PlainInv

\* The baseline is the newest snapshot of the base branch.
LEMMA BaselineIsNewest ==
    ASSUME DeliveryInv, NEW u \in Uploads, OnBase(u) # {}
    PROVE  /\ Baseline(u) \in OnBase(u)
           /\ \A q \in OnBase(u) : up[Baseline(u)].created >= up[q].created
<1> DEFINE Age(q) == parsed - up[q].created
           S == {Age(q) : q \in OnBase(u)}
<1>1. \A q \in OnBase(u) : /\ up[q].created \in Nat /\ up[q].created <= parsed
                           /\ parsed \in Nat
  BY DEF DeliveryInv, DeliveryTypes, Flow, OnBase, Rows, Upload
<1>2. \A q \in OnBase(u) : Age(q) \in Nat
  BY <1>1
<1>3. S \subseteq Nat /\ S # {}
  BY <1>2
<1>4. PICK m \in S : \A n \in S : m <= n
  BY <1>3, LeastNumber
<1>5. PICK q \in OnBase(u) : m = Age(q)
  BY <1>4
<1>6. \A p \in OnBase(u) : Age(q) <= Age(p)
  BY <1>4, <1>5
<1>7. \A p \in OnBase(u) : up[q].created >= up[p].created
  BY <1>1, <1>6
<1> QED BY <1>7 DEF Baseline

LEMMA ReadBaselineStep ==
    ASSUME DeliveryInv, NEW u \in Uploads, ReadBaseline(u) PROVE DeliveryInv'
<1>1. /\ up[u].pc \in Handling /\ up[u].pc = "baseline" /\ Flow(u) /\ DeliveryTypes
      /\ up[u] \in Upload /\ up[u].stored /\ up[u].status = "none" /\ ~up[u].heard
  BY DEF ReadBaseline, Pc, Handling, DeliveryInv, DeliveryTypes, Flow
<1>2. UNCHANGED <<job, gone, comments, parsed>> /\ Ages
  BY <1>1, SameAges DEF ReadBaseline
<1>3. PICK failed \in BOOLEAN, base \in Uploads \union {NoUpload} :
         /\ up' = [up EXCEPT ![u] = [up[u] EXCEPT !.pc = "find", !.failed = failed,
                                                  !.base = base]]
         /\ base # NoUpload => up[base].stored
         /\ ~failed => IF OnBase(u) = {} THEN base = NoUpload ELSE base = Baseline(u)
  <2>1. CASE up' = [up EXCEPT ![u].pc = "find", ![u].failed = TRUE]
    <3>1. [up[u] EXCEPT !.pc = "find", !.failed = TRUE]
            = [up[u] EXCEPT !.pc = "find", !.failed = TRUE, !.base = up[u].base]
      BY <1>1 DEF Upload
    <3>2. up' = [up EXCEPT ![u] = [up[u] EXCEPT !.pc = "find", !.failed = TRUE]]
      BY <2>1 DEF DeliveryInv, DeliveryTypes
    <3>3. up[u].base \in Uploads \union {NoUpload}
      BY <1>1 DEF Upload
    <3>4. up[u].base # NoUpload => up[up[u].base].stored
      BY <1>1 DEF Flow
    <3> QED BY <3>1, <3>2, <3>3, <3>4
  <2>2. CASE up' = [up EXCEPT ![u].pc = "find",
                     ![u].base = IF OnBase(u) = {} THEN NoUpload ELSE Baseline(u)]
    <3> DEFINE base == IF OnBase(u) = {} THEN NoUpload ELSE Baseline(u)
    <3>1. base \in Uploads \union {NoUpload} /\ (base # NoUpload => up[base].stored)
      BY BaselineIsNewest DEF OnBase, Rows
    <3>2. up' = [up EXCEPT ![u].pc = "find", ![u].base = base]
      BY <2>2
    <3>3. IF OnBase(u) = {} THEN base = NoUpload ELSE base = Baseline(u)
      OBVIOUS
    <3> HIDE DEF base
    <3>4. up' = [up EXCEPT ![u] = [up[u] EXCEPT !.pc = "find", !.base = base]]
      BY <3>2 DEF DeliveryInv, DeliveryTypes
    <3>5. [up[u] EXCEPT !.pc = "find", !.base = base]
            = [up[u] EXCEPT !.pc = "find", !.failed = up[u].failed, !.base = base]
      BY <1>1 DEF Upload
    <3>6. up[u].failed \in BOOLEAN
      BY <1>1 DEF Upload
    <3> QED BY <3>1, <3>3, <3>4, <3>5, <3>6
  <2> QED BY <2>1, <2>2 DEF ReadBaseline
<1> DEFINE x == [up[u] EXCEPT !.pc = "find", !.failed = failed, !.base = base]
<1>4. x \in Upload
  BY <1>1 DEF Upload, Handling
<1>5. /\ x.pc = "find" /\ x.base = base /\ x.failed = failed
      /\ x.status = up[u].status /\ x.stored = up[u].stored /\ x.heard = up[u].heard
      /\ x.after = up[u].after /\ x.created = up[u].created
  BY <1>1 DEF Upload
<1>6. up' = [up EXCEPT ![u] = x]
  BY <1>3
<1> HIDE DEF x
<1>7. Becomes(u, x)
  BY <1>1, <1>4, <1>6, Replaced
<1>8. Works(u)
  <2>1. parsed' \in Nat /\ parsed <= parsed'
    BY <1>1, <1>2 DEF DeliveryTypes
  <2> QED BY <1>1, <1>5, <1>7, <2>1 DEF Becomes, Works
<1>9. Based(u)'
  <2> SUFFICES ASSUME NEW q \in up[u].after, ~failed, up'[q].status = "created",
                      JobOf(q).branch = JobOf(u).base, gone'[q] # "deleted"
               PROVE  \/ base # NoUpload /\ up'[base].created >= up'[q].created
                      \/ Outlived(q)'
    BY <1>5, <1>7 DEF Based, Becomes, JobOf
  <2>1. q \in Uploads /\ up[q].heard /\ q # u
    BY <1>1 DEF Flow, Upload
  <2>2. up'[q] = up[q]
    BY <1>7, <2>1 DEF Becomes
  <2>3. up[q].stored /\ gone[q] \in {"no", "pruned"}
    BY <1>2, <2>1, <2>2 DEF DeliveryInv, DeliveryTypes, Flow
  <2>4. CASE gone[q] = "no"
    <3>1. q \in OnBase(u)
      BY <2>1, <2>3, <2>4 DEF OnBase, Rows
    <3>2. base = Baseline(u) /\ base \in Uploads /\ up[base].created >= up[q].created
      BY <1>3, <3>1, BaselineIsNewest DEF OnBase, Rows
    <3>3. up'[base].created = up[base].created
      BY <1>5, <1>7, <3>2 DEF Becomes
    <3> QED BY <2>2, <3>2, <3>3, UploadShape
  <2>5. CASE gone[q] = "pruned"
    BY <1>8, <2>1, <2>3, <2>5, WorksDated, OutlivedStays DEF DeliveryInv, InTurn
  <2> QED BY <2>3, <2>4, <2>5
<1> QED BY <1>2, <1>3, <1>5, <1>7, <1>8, <1>9, WorksInv DEF Becomes

LEMMA FindStep == ASSUME DeliveryInv, NEW u \in Uploads, Find(u) PROVE DeliveryInv'
<1>1. /\ up[u].pc \in Handling /\ up[u].pc = "find" /\ Flow(u) /\ DeliveryTypes
      /\ up[u] \in Upload /\ up[u].stored /\ up[u].status = "none"
      /\ ~up[u].heard /\ Based(u)
  BY DEF Find, Pc, Handling, DeliveryInv, DeliveryTypes, Flow
<1>2. UNCHANGED <<job, gone, comments, parsed>> /\ Ages
  BY <1>1, SameAges DEF Find
<1>3. CASE FindFails(u)
  BY <1>1, <1>2, <1>3, ReplyWorks, PlainInv DEF FindFails
<1> DEFINE mine == {k \in Page : Marked(k)}
           found == IF mine = {} THEN 0 ELSE CHOOSE k \in mine : \A l \in mine : k <= l
           looked == Len(comments)
<1>4. CASE up' = [up EXCEPT ![u].pc = "write", ![u].looked = looked, ![u].found = found]
  <2>1. /\ looked \in Nat /\ DOMAIN comments = 1..looked /\ Page \subseteq Nat
        /\ mine \subseteq DOMAIN comments
    BY DEF DeliveryInv, DeliveryTypes, Page
  <2>2. IF mine = {} THEN found = 0 ELSE found \in mine
    <3>1. CASE mine # {}
      <4>1. \E k \in mine : \A l \in mine : k <= l
        BY <2>1, <3>1, LeastNumber
      <4> QED BY <3>1, <4>1
    <3> QED BY <3>1
  <2>3. /\ found \in Nat
        /\ found # 0 => found \in DOMAIN comments /\ Marked(found)
        /\ found = 0 => \A k \in DOMAIN comments : k <= PageSize => ~Marked(k)
    <3>1. CASE mine = {}
      BY <2>1, <2>2, <3>1 DEF Page
    <3>2. CASE mine # {}
      <4>1. found \in mine /\ found \in DOMAIN comments /\ found \in 1..looked
        BY <2>1, <2>2, <3>2
      <4> HIDE DEF found
      <4>2. Marked(found)
        BY <4>1
      <4> QED BY <2>1, <4>1, <4>2
    <3> QED BY <3>1, <3>2
  <2> HIDE DEF found, looked
  <2> DEFINE x == [up[u] EXCEPT !.pc = "write", !.looked = looked, !.found = found]
  <2>4. x \in Upload
    BY <1>1, <2>1, <2>3 DEF Upload, Handling
  <2>5. /\ x.pc = "write" /\ x.base = up[u].base /\ x.failed = up[u].failed
        /\ x.looked = looked /\ x.found = found
        /\ x.status = up[u].status /\ x.stored = up[u].stored
        /\ x.heard = up[u].heard /\ x.after = up[u].after /\ x.created = up[u].created
    BY <1>1 DEF Upload
  <2>6. up' = [up EXCEPT ![u] = x]
    BY <1>4 DEF DeliveryInv, DeliveryTypes
  <2> HIDE DEF x
  <2>7. Becomes(u, x)
    BY <1>1, <2>4, <2>6, Replaced
  <2>8. Works(u)
    <3>1. parsed' \in Nat /\ parsed <= parsed'
      BY <1>1, <1>2 DEF DeliveryTypes
    <3> QED BY <1>1, <2>5, <2>7, <3>1 DEF Becomes, Works
  <2>9. Seeking(u)'
    <3>1. looked = Len(comments)
      BY DEF looked
    <3> QED BY <1>2, <2>1, <2>3, <2>5, <2>7, <3>1 DEF Becomes, Seeking, Marked
  <2>10. Based(u)'
    <3>1. \A q \in up[u].after : q \in Uploads /\ up'[q] = up[q]
      BY <1>1, <2>7 DEF Becomes, Flow, Upload
    <3>2. up[u].base # NoUpload => up'[up[u].base].created = up[up[u].base].created
      BY <1>1, <2>5, <2>7 DEF Becomes, Upload
    <3>3. \A q \in up[u].after : /\ up[q].status = "created" => up[q].stored
                                 /\ up[q].stored /\ Outlived(q) => Outlived(q)'
      BY <2>8, <3>1, WorksDated, OutlivedStays DEF DeliveryInv, Flow
    <3> QED BY <1>1, <1>2, <2>5, <2>7, <3>1, <3>2, <3>3 DEF Becomes, Based, JobOf
  <2>11. up'[u].base # NoUpload => up[up'[u].base].stored
    BY <1>1, <2>5, <2>7 DEF Becomes, Flow
  <2> QED BY <1>2, <2>8, <2>9, <2>10, <2>11, WorksInv
<1> QED BY <1>3, <1>4 DEF Find

\* Comments are added and replaced; what is marked, and what the handler that
\* posted it saw, does not change.
Grows ==
    /\ comments' \in Seq(Comment)
    /\ Len(comments) <= Len(comments')
    /\ \A k \in DOMAIN comments :
          /\ comments'[k].by # NoUpload <=> comments[k].by # NoUpload
          /\ comments'[k].looked = comments[k].looked

LEMMA GrowsSeeking ==
    ASSUME DeliveryTypes, Grows, NEW w \in Uploads, Seeking(w), up'[w] = up[w]
    PROVE  Seeking(w)'
<1>1. /\ DOMAIN comments = 1..Len(comments) /\ DOMAIN comments' = 1..Len(comments')
      /\ Len(comments) \in Nat /\ Len(comments') \in Nat /\ up[w].looked \in Nat
  BY DEF DeliveryTypes, Grows, Upload
<1>2. DOMAIN comments \subseteq DOMAIN comments'
  BY <1>1 DEF Grows
<1>3. \A k \in DOMAIN comments' : k <= Len(comments) => k \in DOMAIN comments
  BY <1>1
<1>4. ASSUME up[w].pc = "write"
      PROVE  /\ up[w].looked <= Len(comments')
             /\ up[w].found # 0 =>
                  up[w].found \in DOMAIN comments' /\ comments'[up[w].found].by # NoUpload
             /\ up[w].found = 0 =>
                  \A k \in DOMAIN comments' :
                      k <= up[w].looked /\ k <= PageSize => comments'[k].by = NoUpload
  <2>1. up[w].looked <= Len(comments)
    BY <1>4 DEF Seeking
  <2>2. \A k \in DOMAIN comments' : k <= up[w].looked => k \in DOMAIN comments
    BY <1>1, <1>3, <2>1
  <2> QED BY <1>1, <1>2, <1>4, <2>1, <2>2 DEF Seeking, Grows, Marked
<1> QED BY <1>4 DEF Seeking, Marked

\* The comment that is put in the place of an earlier one.
LEMMA Replacing ==
    ASSUME DeliveryInv, NEW u \in Uploads, NEW i \in DOMAIN comments, Marked(i),
           comments' = [comments EXCEPT ![i] = Body(u, @.looked)]
    PROVE  Grows /\ DuplicateNeedsCause'
<1>1. /\ comments \in Seq(Comment) /\ DOMAIN comments = 1..Len(comments)
      /\ \A k \in DOMAIN comments : comments[k] \in Comment
  BY DEF DeliveryInv, DeliveryTypes
<1>2. Body(u, comments[i].looked) \in Comment
  BY <1>1 DEF Body, Comment
<1>3. comments' \in Seq(Comment) /\ Len(comments') = Len(comments)
      /\ DOMAIN comments' = DOMAIN comments
  BY <1>1, <1>2
<1>4. \A k \in DOMAIN comments :
          /\ comments'[k].by # NoUpload <=> comments[k].by # NoUpload
          /\ comments'[k].looked = comments[k].looked
  BY <1>1, UploadShape DEF Body, Marked
<1> QED BY <1>1, <1>3, <1>4 DEF Grows, DeliveryInv, DuplicateNeedsCause, Marked

LEMMA Appending ==
    ASSUME DeliveryInv, NEW c \in Comment, comments' = Append(comments, c),
           c.by # NoUpload =>
               \A k \in DOMAIN comments : Marked(k) => c.looked < k \/ PageSize < k
    PROVE  Grows /\ DuplicateNeedsCause'
<1>1. comments \in Seq(Comment) /\ DOMAIN comments = 1..Len(comments)
  BY DEF DeliveryInv, DeliveryTypes
<1>2. /\ comments' \in Seq(Comment) /\ Len(comments') = Len(comments) + 1
      /\ DOMAIN comments' = 1..(Len(comments) + 1)
      /\ comments'[Len(comments) + 1] = c
      /\ \A k \in DOMAIN comments : comments'[k] = comments[k]
  BY <1>1
<1>3. Grows
  BY <1>1, <1>2 DEF Grows
<1>4. ASSUME NEW k \in DOMAIN comments', NEW l \in DOMAIN comments', k < l,
             comments'[k].by # NoUpload, comments'[l].by # NoUpload
      PROVE  comments'[l].looked < k \/ PageSize < k
  <2>1. k \in DOMAIN comments
    BY <1>1, <1>2, <1>4
  <2>2. CASE l \in DOMAIN comments
    BY <1>2, <1>4, <2>1, <2>2 DEF DeliveryInv, DuplicateNeedsCause, Marked
  <2>3. CASE l = Len(comments) + 1
    BY <1>2, <1>4, <2>1, <2>3 DEF Marked
  <2> QED BY <1>1, <1>2, <2>2, <2>3
<1> QED BY <1>3, <1>4 DEF DuplicateNeedsCause, Marked

LEMMA WriteStep == ASSUME DeliveryInv, NEW u \in Uploads, Write(u) PROVE DeliveryInv'
<1>1. /\ up[u].pc \in Handling /\ up[u].pc = "write" /\ Flow(u) /\ DeliveryTypes
      /\ up[u] \in Upload /\ up[u].stored /\ Seeking(u)
  BY DEF Write, Pc, Handling, DeliveryInv, DeliveryTypes, Flow
<1>2. Reply(u, "created") /\ UNCHANGED <<job, parsed>> /\ Ages
  BY <1>1, SameAges DEF Write
<1>3. Works(u) /\ up'[u].pc = "answered" /\ up'[u].base = NoUpload
  BY <1>1, <1>2, ReplyWorks
<1>4. Grows /\ DuplicateNeedsCause'
  <2>1. CASE UNCHANGED comments
    BY <1>1, <2>1 DEF Grows, DeliveryTypes, DeliveryInv, DuplicateNeedsCause, Marked
  <2>2. CASE /\ up[u].found # 0
             /\ comments' = [comments EXCEPT ![up[u].found] = Body(u, @.looked)]
    BY <1>1, <2>2, Replacing DEF Seeking
  <2>3. CASE /\ up[u].found = 0
             /\ comments' = Append(comments, Body(u, up[u].looked))
    <3>1. Body(u, up[u].looked) \in Comment
      BY <1>1 DEF Body, Comment, Upload
    <3>2. \A k \in DOMAIN comments : Marked(k) => up[u].looked < k \/ PageSize < k
      <4>1. up[u].looked \in Nat /\ PageSize \in Nat /\ DOMAIN comments \subseteq Nat
        BY <1>1, DeliveryAssumption DEF Upload, DeliveryTypes
      <4> QED BY <1>1, <2>3, <4>1 DEF Seeking
    <3> QED BY <2>3, <3>1, <3>2, Appending DEF Body
  <2> QED BY <2>1, <2>2, <2>3 DEF Write
<1>5. \A w \in Uploads : Seeking(w)'
  <2>1. \A w \in Uploads \ {u} : Seeking(w)'
    BY <1>1, <1>3, <1>4, GrowsSeeking DEF Works, DeliveryInv
  <2>2. Seeking(u)'
    BY <1>3 DEF Seeking
  <2> QED BY <2>1, <2>2
<1>6. DeliveryTypes'
  BY <1>1, <1>2, <1>3, <1>4 DEF DeliveryTypes, Works, Grows, Ages
<1>7. \A q \in Uploads : InTurn(q)'
  BY <1>2, <1>3, WorksDated, AgesInTurn
<1> QED BY <1>2, <1>3, <1>4, <1>5, <1>6, <1>7, WorksFlow, WorksProgress, WorksBased
    DEF DeliveryInv

LEMMA ChatStep == ASSUME DeliveryInv, Chat PROVE DeliveryInv'
<1>1. UNCHANGED <<job, up, gone, parsed>> /\ DeliveryTypes
  BY DEF Chat, DeliveryInv
<1>2. [by |-> NoUpload, looked |-> 0] \in Comment
  BY DEF Comment
<1>3. Grows /\ DuplicateNeedsCause'
  BY <1>2, Appending DEF Chat
<1>4. \A w \in Uploads : Seeking(w)'
  BY <1>1, <1>3, GrowsSeeking DEF DeliveryInv
<1>5. DeliveryTypes'
  BY <1>1, <1>3 DEF DeliveryTypes, Grows
<1>6. \A u \in Uploads : Based(u)' /\ InTurn(u)'
  BY <1>1, SameRows
<1> QED BY <1>1, <1>3, <1>4, <1>5, <1>6 DEF DeliveryInv, Flow, Pending, Progress

-----------------------------------------------------------------------------
(* The steps of the jobs *)

LEMMA StartStep == ASSUME DeliveryInv, NEW j \in Jobs, Start(j) PROVE DeliveryInv'
<1> USE DEF DeliveryInv, DeliveryTypes
<1>1. /\ job[j] \in Job /\ Plan[j].runs \in Nat /\ Plan[j].files \in Nat \ {0}
      /\ job[j].run \in Nat /\ job[j].run < Plan[j].runs
  BY UploadShape DEF Start, Job
<1> DEFINE x == [state |-> "ready", run |-> job[j].run + 1, file |-> 1, failed |-> FALSE]
<1>2. x \in Job
  BY <1>1 DEF Job
<1>3. job' = [job EXCEPT ![j] = x] /\ UNCHANGED <<up, gone, comments, parsed>>
  BY DEF Start
<1>4. \A i \in Jobs : Progress(i)'
  <2>1. \A i \in Jobs \ {j} : Progress(i)'
    BY <1>3 DEF Progress
  <2>2. job'[j] = x
    BY <1>3
  <2> QED BY <1>1, <2>1, <2>2 DEF Progress
<1>5. ASSUME NEW u \in Uploads, Pending(u)' PROVE up'[u].pc = "unsent"
  <2>1. CASE u[1] = j
    <3>1. u[2] \in Nat /\ u[2] >= job[j].run + 1
      BY <1>1, <1>3, <1>5, <2>1, UploadShape DEF Pending
    <3>2. Pending(u)
      BY <1>1, <2>1, <3>1 DEF Pending
    <3> QED BY <1>3, <3>2
  <2>2. CASE u[1] # j
    <3>1. job'[u[1]] = job[u[1]]
      BY <1>3, <2>2, UploadShape
    <3> QED BY <1>3, <1>5, <3>1 DEF Pending
  <2> QED BY <2>1, <2>2
<1>6. \A u \in Uploads : Based(u)' /\ InTurn(u)'
  BY <1>3, SameRows
<1> QED BY <1>2, <1>3, <1>4, <1>5, <1>6 DEF Flow, Seeking, DuplicateNeedsCause, Marked

\* The upload a job is at.
LEMMA CurrentUpload ==
    ASSUME DeliveryInv, NEW j \in Jobs, job[j].state \in {"ready", "waiting"}
    PROVE  /\ Current(j) \in Uploads
           /\ Current(j)[1] = j /\ Current(j)[2] = job[j].run
           /\ Current(j)[3] = job[j].file
           /\ \A u \in Uploads : u[1] = j /\ u[2] = job[j].run /\ u[3] = job[j].file =>
                 u = Current(j)
<1>1. job[j] \in Job /\ Progress(j)
  BY DEF DeliveryInv, DeliveryTypes
<1>2. job[j].run \in 1..Plan[j].runs /\ job[j].file \in 1..Plan[j].files
  BY <1>1, UploadShape DEF Progress, Job
<1> QED BY <1>2, UploadShape DEF Current

LEMMA SendStep == ASSUME DeliveryInv, NEW j \in Jobs, Send(j) PROVE DeliveryInv'
<1> DEFINE c == Current(j)
           after == {u \in Uploads : up[u].heard}
           x == [up[c] EXCEPT !.pc = "limit", !.after = after]
<1>1. /\ c \in Uploads /\ c[1] = j /\ c[2] = job[j].run /\ c[3] = job[j].file
      /\ \A u \in Uploads : u[1] = j /\ u[2] = job[j].run /\ u[3] = job[j].file => u = c
  BY CurrentUpload DEF Send
<1>2. /\ up[c] \in Upload /\ Flow(c) /\ up[c].pc = "unsent" /\ job[j] \in Job
      /\ ~up[c].stored /\ up[c].status = "none" /\ ~up[c].heard
  <2>1. Pending(c)
    BY <1>1 DEF Pending, Send
  <2> QED BY <1>1, <2>1 DEF DeliveryInv, DeliveryTypes, Flow
<1>3. /\ job' = [job EXCEPT ![j] = [job[j] EXCEPT !.state = "waiting"]]
      /\ UNCHANGED <<gone, comments, parsed>>
  BY DEF Send, DeliveryInv, DeliveryTypes
<1>4. up' = [up EXCEPT ![c].pc = "limit", ![c].after = after]
  BY DEF Send
<1>5. after \subseteq Uploads /\ \A q \in after : up[q].heard
  OBVIOUS
<1> HIDE DEF c, after
<1>6. x \in Upload
  BY <1>2, <1>5 DEF Upload, Handling
<1>7. /\ x.pc = "limit" /\ x.after = after /\ x.status = "none" /\ ~x.stored /\ ~x.heard
      /\ x.base = up[c].base /\ x.created = up[c].created
      /\ x.heard = up[c].heard /\ x.stored = up[c].stored
  BY <1>2 DEF Upload
<1>8. up' = [up EXCEPT ![c] = x]
  BY <1>1, <1>4 DEF DeliveryInv, DeliveryTypes
<1> HIDE DEF x
<1>9. Becomes(c, x)
  BY <1>1, <1>6, <1>8, Replaced DEF DeliveryInv
<1>10. \A q \in Uploads : /\ up'[q].heard = up[q].heard /\ up'[q].stored = up[q].stored
                          /\ up'[q].created = up[q].created /\ up'[q].status = up[q].status
                          /\ up'[q].base = up[q].base
  BY <1>2, <1>7, <1>9 DEF Becomes
<1>17. Dated /\ Ages
  BY <1>3, <1>10, SameAges DEF Dated, DeliveryInv
<1>11. DeliveryTypes'
  <2>1. [job[j] EXCEPT !.state = "waiting"] \in Job
    BY <1>2 DEF Job
  <2> QED BY <1>3, <1>9, <2>1 DEF Becomes, DeliveryInv, DeliveryTypes
<1>12. ASSUME NEW q \in Uploads PROVE Flow(q)'
  <2>1. Flow(q) /\ up[q] \in Upload
    BY DEF DeliveryInv, DeliveryTypes
  <2>2. CASE q = c
    <3>1. \A r \in up'[c].after : up'[r].heard
      BY <1>5, <1>7, <1>9, <1>10 DEF Becomes
    <3>2. up'[c].base # NoUpload => up'[up'[c].base].stored
      BY <1>2, <1>10, <2>1, <2>2 DEF Flow, Upload
    <3> QED BY <1>3, <1>7, <1>9, <1>10, <2>1, <2>2, <3>1, <3>2 DEF Becomes, Flow
  <2>3. CASE q # c
    <3>1. up'[q] = up[q]
      BY <1>9, <2>3 DEF Becomes
    <3>2. /\ \A r \in up[q].after : up'[r].heard
          /\ up[q].base # NoUpload => up'[up[q].base].stored
      BY <1>10, <2>1 DEF Flow, Upload
    <3> QED BY <1>3, <2>1, <3>1, <3>2 DEF Flow
  <2> QED BY <2>2, <2>3
<1>13. ASSUME NEW q \in Uploads PROVE Based(q)' /\ Seeking(q)'
  <2>1. CASE q = c
    BY <1>7, <1>9, <2>1 DEF Becomes, Based, Seeking
  <2>2. CASE q # c
    <3>1. up'[q] = up[q] /\ up[q].after \subseteq Uploads
             /\ up[q].base \in Uploads \union {NoUpload}
      BY <1>9, <2>2 DEF Becomes, DeliveryInv, DeliveryTypes, Upload
    <3>2. \A r \in up[q].after : /\ up[r].status = "created" => up[r].stored
                                 /\ up[r].stored /\ Outlived(r) => Outlived(r)'
      BY <1>17, <3>1, OutlivedStays DEF DeliveryInv, Flow
    <3>3. Based(q)'
      BY <1>3, <1>10, <3>1, <3>2 DEF Based, DeliveryInv, JobOf
    <3> QED BY <1>3, <3>1, <3>3 DEF Seeking, Marked, DeliveryInv
  <2> QED BY <2>1, <2>2
<1>14. \A i \in Jobs : Progress(i)'
  <2>1. /\ job'[j].state = "waiting" /\ job'[j].run = job[j].run
        /\ job'[j].file = job[j].file /\ job'[j].failed = job[j].failed
    BY <1>2, <1>3 DEF Job, DeliveryInv, DeliveryTypes
  <2>2. \A i \in Jobs \ {j} : job'[i] = job[i]
    BY <1>3 DEF DeliveryInv, DeliveryTypes
  <2>3. \A i \in Jobs : Progress(i) /\ job[i] \in Job
    BY DEF DeliveryInv, DeliveryTypes
  <2>4. ASSUME NEW i \in Jobs, job[i].state # "idle", NEW f \in 1..Plan[i].files
        PROVE  up'[<<i, job[i].run, f>>].stored = up[<<i, job[i].run, f>>].stored
    BY <1>10, <2>3, <2>4, UploadShape DEF Progress, Job
  <2>5. ASSUME NEW i \in Jobs, job[i].state # "idle"
        PROVE  1..(job[i].file - 1) \subseteq 1..Plan[i].files
    BY <2>3, <2>5, UploadShape DEF Progress, Job
  <2>6. Progress(j)'
    <3>1. job[j].state = "ready" /\ Progress(j)
      BY <2>3 DEF Send
    <3>2. ~job[j].failed =>
              \A f \in 1..(job[j].file - 1) : up'[<<j, job[j].run, f>>].stored
      BY <2>4, <2>5, <3>1 DEF Progress
    <3> QED BY <2>1, <3>1, <3>2 DEF Progress
  <2>7. ASSUME NEW i \in Jobs \ {j} PROVE Progress(i)'
    BY <2>2, <2>3, <2>4, <2>5 DEF Progress
  <2> QED BY <2>6, <2>7
<1>15. ASSUME NEW q \in Uploads, Pending(q)' PROVE up'[q].pc = "unsent"
  <2>1. q # c
    BY <1>1, <1>2, <1>3, <1>15 DEF Pending, Job, DeliveryInv, DeliveryTypes
  <2>2. Pending(q)
    <3>1. CASE q[1] = j
      BY <1>2, <1>3, <1>15, <3>1 DEF Pending, Job, DeliveryInv, DeliveryTypes, Send
    <3>2. CASE q[1] # j
      BY <1>3, <1>15, <3>2, UploadShape DEF Pending, DeliveryInv, DeliveryTypes
    <3> QED BY <3>1, <3>2
  <2> QED BY <1>9, <2>1, <2>2 DEF Becomes, DeliveryInv
<1>16. DuplicateNeedsCause'
  BY <1>3 DEF DeliveryInv, DuplicateNeedsCause, Marked
<1>18. \A q \in Uploads : InTurn(q)'
  BY <1>17, AgesInTurn
<1> QED BY <1>11, <1>12, <1>13, <1>14, <1>15, <1>16, <1>18 DEF DeliveryInv

\* After an answer, or none: the next file, or the end of the job.
MovesOn(j) ==
    /\ job' \in [Jobs -> Job]
    /\ \A i \in Jobs \ {j} : job'[i] = job[i]
    /\ job'[j].run = job[j].run
    /\ \/ /\ job'[j].state = "ready" /\ job[j].file < Plan[j].files
          /\ job'[j].file = job[j].file + 1
          /\ ~job'[j].failed => ~job[j].failed /\ up[Current(j)].stored
       \/ /\ job'[j].state = "ok" /\ job'[j].file = job[j].file
          /\ job[j].file >= Plan[j].files /\ ~job[j].failed /\ up[Current(j)].stored
       \/ job'[j].state = "failed" /\ job'[j].file = job[j].file

LEMMA AbortMoves ==
    ASSUME DeliveryInv, NEW j \in Jobs, Abort(j) PROVE MovesOn(j)
<1>1. job[j] \in Job
  BY DEF DeliveryInv, DeliveryTypes
<1>2. [job[j] EXCEPT !.state = "failed"] \in Job
  BY <1>1 DEF Job
<1>3. job' = [job EXCEPT ![j] = [job[j] EXCEPT !.state = "failed"]]
  BY DEF Abort, DeliveryInv, DeliveryTypes
<1> QED BY <1>1, <1>2, <1>3 DEF MovesOn, DeliveryInv, DeliveryTypes, Job

LEMMA AdvanceMoves ==
    ASSUME DeliveryInv, NEW j \in Jobs, NEW bad \in BOOLEAN, Advance(j, bad),
           ~bad => up[Current(j)].stored
    PROVE  MovesOn(j)
<1> DEFINE file == IF job[j].file < Plan[j].files THEN job[j].file + 1 ELSE job[j].file
           state == IF job[j].file < Plan[j].files THEN "ready"
                    ELSE IF job[j].failed \/ bad THEN "failed" ELSE "ok"
           failed == job[j].failed \/ bad
           x == [job[j] EXCEPT !.failed = failed, !.file = file, !.state = state]
<1>1. /\ job[j] \in Job /\ job[j].file \in Nat /\ job[j].failed \in BOOLEAN
      /\ Plan[j].files \in Nat
  BY UploadShape DEF DeliveryInv, DeliveryTypes, Job
<1>2. /\ failed \in BOOLEAN /\ (~failed => ~job[j].failed /\ ~bad)
      /\ file \in Nat
      /\ \/ state = "ready" /\ job[j].file < Plan[j].files /\ file = job[j].file + 1
         \/ state = "ok" /\ job[j].file >= Plan[j].files /\ file = job[j].file /\ ~failed
         \/ state = "failed" /\ file = job[j].file
  BY <1>1
<1>3. job' = [job EXCEPT ![j] = x]
  BY DEF Advance
<1> HIDE DEF file, state, failed
<1>4. x \in Job
  BY <1>1, <1>2 DEF Job
<1>5. /\ x.state = state /\ x.file = file /\ x.failed = failed /\ x.run = job[j].run
  BY <1>1 DEF Job
<1> HIDE DEF x
<1>6. /\ job' \in [Jobs -> Job] /\ job'[j] = x
      /\ \A i \in Jobs \ {j} : job'[i] = job[i]
  BY <1>3, <1>4 DEF DeliveryInv, DeliveryTypes
<1> QED BY <1>2, <1>5, <1>6 DEF MovesOn

LEMMA MovesProgress ==
    ASSUME DeliveryInv, NEW j \in Jobs, job[j].state = "waiting", MovesOn(j),
           \A q \in Uploads : up'[q].stored = up[q].stored
    PROVE  /\ \A i \in Jobs : Progress(i)'
           /\ \A q \in Uploads : Pending(q)' => Pending(q)
<1>1. \A i \in Jobs : /\ Progress(i) /\ job[i] \in Job /\ job'[i] \in Job
                      /\ Plan[i].files \in Nat /\ Plan[i].runs \in Nat
  BY UploadShape DEF DeliveryInv, DeliveryTypes, MovesOn
<1>2. ASSUME NEW i \in Jobs, job[i].state # "idle", NEW f \in 1..Plan[i].files,
             up[<<i, job[i].run, f>>].stored
      PROVE  up'[<<i, job[i].run, f>>].stored
  BY <1>1, <1>2, UploadShape DEF Progress, Job
<1>3. ASSUME NEW i \in Jobs \ {j} PROVE Progress(i)'
  <2>1. job[i].state # "idle" => 1..(job[i].file - 1) \subseteq 1..Plan[i].files
    BY <1>1 DEF Progress, Job
  <2> QED BY <1>1, <1>2, <2>1 DEF Progress, MovesOn
<1>4. /\ job[j].run \in 1..Plan[j].runs /\ job[j].file \in 1..Plan[j].files
      /\ Plan[j].files \in Nat /\ Current(j) = <<j, job[j].run, job[j].file>>
      /\ Progress(j)
  BY <1>1 DEF Progress, Current, Job
<1>5. ASSUME ~job[j].failed, up[Current(j)].stored, NEW f \in 1..job[j].file
      PROVE  up'[<<j, job[j].run, f>>].stored
  <2>1. f \in 1..Plan[j].files
    BY <1>4
  <2>2. f = job[j].file \/ f \in 1..(job[j].file - 1)
    BY <1>4
  <2>3. up[<<j, job[j].run, f>>].stored
    BY <1>4, <1>5, <2>2 DEF Progress
  <2> QED BY <1>2, <2>1, <2>3
<1>6. Progress(j)'
  <2>1. CASE /\ job'[j].state = "ready" /\ job[j].file < Plan[j].files
             /\ job'[j].file = job[j].file + 1
             /\ ~job'[j].failed => ~job[j].failed /\ up[Current(j)].stored
    BY <1>4, <1>5, <2>1 DEF Progress, MovesOn
  <2>2. CASE /\ job'[j].state = "ok" /\ job'[j].file = job[j].file
             /\ job[j].file >= Plan[j].files /\ ~job[j].failed /\ up[Current(j)].stored
    <3>1. Plan[j].files = job[j].file
      BY <1>4, <2>2
    <3> QED BY <1>4, <1>5, <2>2, <3>1 DEF Progress, MovesOn
  <2>3. CASE job'[j].state = "failed" /\ job'[j].file = job[j].file
    BY <1>4, <2>3 DEF Progress, MovesOn
  <2> QED BY <2>1, <2>2, <2>3 DEF MovesOn
<1>7. ASSUME NEW q \in Uploads, Pending(q)' PROVE Pending(q)
  <2>1. q[2] \in Nat /\ q[3] \in Nat /\ q[1] \in Jobs
    BY <1>1, UploadShape
  <2>2. CASE q[1] = j
    BY <1>4, <1>7, <2>1, <2>2 DEF Pending, MovesOn
  <2>3. CASE q[1] # j
    BY <1>7, <2>1, <2>3 DEF Pending, MovesOn
  <2> QED BY <2>2, <2>3
<1> QED BY <1>3, <1>6, <1>7

LEMMA GiveUpStep == ASSUME DeliveryInv, NEW j \in Jobs, GiveUp(j) PROVE DeliveryInv'
<1>1. MovesOn(j) /\ job[j].state = "waiting" /\ UNCHANGED <<up, gone, comments, parsed>>
  BY AbortMoves DEF GiveUp
<1>2. /\ \A i \in Jobs : Progress(i)'
      /\ \A q \in Uploads : Pending(q)' => Pending(q)
  BY <1>1, MovesProgress
<1>3. \A u \in Uploads : Based(u)' /\ InTurn(u)'
  BY <1>1, SameRows
<1> QED BY <1>1, <1>2, <1>3 DEF DeliveryInv, DeliveryTypes, MovesOn, Flow, Seeking,
           DuplicateNeedsCause, Marked

LEMMA HearStep == ASSUME DeliveryInv, NEW j \in Jobs, Hear(j) PROVE DeliveryInv'
<1> DEFINE c == Current(j)
<1>1. /\ c \in Uploads /\ up[c] \in Upload /\ Flow(c)
      /\ job[j].state = "waiting" /\ up[c].status # "none"
      /\ UNCHANGED <<gone, comments, parsed>>
  BY CurrentUpload DEF Hear, DeliveryInv, DeliveryTypes
<1>2. up' = [up EXCEPT ![c] = [up[c] EXCEPT !.heard = TRUE]]
  BY <1>1 DEF Hear, DeliveryInv, DeliveryTypes
<1>3. [up[c] EXCEPT !.heard = TRUE] \in Upload
  BY <1>1 DEF Upload
<1>4. Becomes(c, [up[c] EXCEPT !.heard = TRUE])
  BY <1>1, <1>2, <1>3, Replaced DEF DeliveryInv
<1>5. MovesOn(j)
  <2> DEFINE good == up[c].status = "created"
  <2>1. CASE Advance(j, ~good)
    BY <1>1, <2>1, AdvanceMoves DEF Flow
  <2>2. CASE Abort(j)
    BY <2>2, AbortMoves
  <2> QED BY <2>1, <2>2 DEF Hear, HandleAnswer
<1> HIDE DEF c
<1>6. \A q \in Uploads :
          /\ up'[q].stored = up[q].stored /\ up'[q].created = up[q].created
          /\ up'[q].status = up[q].status /\ up'[q].base = up[q].base
          /\ up'[q].pc = up[q].pc /\ up'[q].after = up[q].after
          /\ up'[q].failed = up[q].failed /\ up'[q].found = up[q].found
          /\ up'[q].looked = up[q].looked
          /\ up[q].heard => up'[q].heard
          /\ up'[q].heard => up[q].status # "none"
  <2>1. ASSUME NEW q \in Uploads, q # c PROVE up'[q] = up[q] /\ Flow(q)
    BY <1>4, <2>1 DEF Becomes, DeliveryInv
  <2> QED BY <1>1, <1>4, <2>1 DEF Becomes, Flow, Upload
<1>7. \A q \in Uploads : /\ up[q].after \subseteq Uploads
                        /\ up[q].base \in Uploads \union {NoUpload}
  BY DEF DeliveryInv, DeliveryTypes, Upload
<1>8. \A q \in Uploads : Flow(q)'
  BY <1>1, <1>6, <1>7 DEF Flow, DeliveryInv
<1>13. Dated /\ Ages
  BY <1>1, <1>6, SameAges DEF Dated, DeliveryInv
<1>14. \A q \in Uploads :
          /\ up[q].status = "created" => up[q].stored
          /\ up[q].stored /\ Outlived(q) => Outlived(q)'
          /\ InTurn(q)'
  BY <1>13, OutlivedStays, AgesInTurn DEF DeliveryInv, Flow
<1>15. \A q \in Uploads : InTurn(q)'
  BY <1>14
<1>9. ASSUME NEW w \in Uploads PROVE Based(w)'
  <2>1. \A q \in up[w].after : q \in Uploads
    BY <1>7
  <2>2. \A q \in up[w].after : up[q].status = "created" /\ Outlived(q) => Outlived(q)'
    BY <1>14, <2>1
  <2>3. Based(w) /\ gone' = gone
    BY <1>1 DEF DeliveryInv
  <2> QED BY <1>6, <1>7, <2>1, <2>2, <2>3 DEF Based, JobOf
<1>10. \A q \in Uploads : Seeking(q)'
  BY <1>1, <1>6 DEF Seeking, Marked, DeliveryInv
<1>11. /\ \A i \in Jobs : Progress(i)'
       /\ \A q \in Uploads : Pending(q)' => Pending(q)
  BY <1>1, <1>5, <1>6, MovesProgress
<1>12. DeliveryTypes'
  BY <1>1, <1>4, <1>5 DEF DeliveryInv, DeliveryTypes, Becomes, MovesOn
<1> QED BY <1>1, <1>6, <1>8, <1>9, <1>10, <1>11, <1>12, <1>15
    DEF DeliveryInv, DuplicateNeedsCause, Marked

\* A restart takes handlers away, and answers that were not heard.
LEMMA RestartStep == ASSUME DeliveryInv, Restart PROVE DeliveryInv'
<1>1. UNCHANGED <<job, gone, comments, parsed>>
  BY DEF Restart
<1>2. ASSUME NEW q \in Uploads
      PROVE  /\ up'[q] \in Upload
             /\ up'[q] = up[q] \/ up'[q] = [up[q] EXCEPT !.pc = "dropped"]
             /\ up[q].pc = "unsent" => up'[q] = up[q]
  <2>1. up[q] \in Upload
    BY DEF DeliveryInv, DeliveryTypes
  <2>2. [up[q] EXCEPT !.pc = "dropped"] \in Upload
    BY <2>1 DEF Upload
  <2> QED BY <2>1, <2>2 DEF Restart, InHandler, Unheard, Pc, Handling
<1>3. ASSUME NEW q \in Uploads
      PROVE  /\ up'[q].stored = up[q].stored /\ up'[q].created = up[q].created
             /\ up'[q].status = up[q].status /\ up'[q].base = up[q].base
             /\ up'[q].pc \in {up[q].pc, "dropped"} /\ up'[q].after = up[q].after
             /\ up'[q].failed = up[q].failed /\ up'[q].found = up[q].found
             /\ up'[q].looked = up[q].looked /\ up'[q].heard = up[q].heard
             /\ up[q].after \subseteq Uploads
             /\ up[q].base \in Uploads \union {NoUpload}
  <2>1. up[q] \in Upload
    BY DEF DeliveryInv, DeliveryTypes
  <2>2. up[q].after \subseteq Uploads /\ up[q].base \in Uploads \union {NoUpload}
    BY <2>1 DEF Upload
  <2>3. CASE up'[q] = up[q]
    BY <2>2, <2>3
  <2>4. CASE up'[q] = [up[q] EXCEPT !.pc = "dropped"]
    BY <2>1, <2>2, <2>4 DEF Upload
  <2> QED BY <1>2, <2>3, <2>4
<1>4. DeliveryTypes'
  BY <1>1, <1>2 DEF Restart, DeliveryInv, DeliveryTypes
<1>5. \A q \in Uploads : Flow(q)'
  BY <1>1, <1>3 DEF Flow, DeliveryInv
<1>11. Dated /\ Ages
  BY <1>1, <1>3, SameAges DEF Dated, DeliveryInv
<1>12. \A q \in Uploads :
          /\ up[q].status = "created" => up[q].stored
          /\ up[q].stored /\ Outlived(q) => Outlived(q)'
          /\ InTurn(q)'
  BY <1>11, OutlivedStays, AgesInTurn DEF DeliveryInv, Flow
<1>13. \A q \in Uploads : InTurn(q)'
  BY <1>12
<1>6. ASSUME NEW w \in Uploads PROVE Based(w)'
  <2>1. \A q \in up[w].after : q \in Uploads
    BY <1>3
  <2>2. \A q \in up[w].after : up[q].status = "created" /\ Outlived(q) => Outlived(q)'
    BY <1>12, <2>1
  <2>3. Based(w) /\ gone' = gone
    BY <1>1 DEF DeliveryInv
  <2> QED BY <1>3, <2>1, <2>2, <2>3 DEF Based, JobOf
<1>7. \A q \in Uploads : Seeking(q)'
  BY <1>1, <1>3 DEF Seeking, Marked, DeliveryInv
<1>8. \A q \in Uploads : Pending(q)' => up'[q].pc = "unsent"
  BY <1>1, <1>2 DEF Pending, DeliveryInv
<1>9. ASSUME NEW i \in Jobs PROVE Progress(i)'
  <2>1. /\ Progress(i) /\ job[i] \in Job /\ Plan[i].files \in Nat /\ Plan[i].runs \in Nat
    BY UploadShape DEF DeliveryInv, DeliveryTypes
  <2>2. ASSUME job[i].state # "idle", NEW f \in 1..Plan[i].files
        PROVE  up'[<<i, job[i].run, f>>].stored = up[<<i, job[i].run, f>>].stored
    BY <1>3, <2>1, <2>2, UploadShape DEF Progress, Job
  <2>3. job[i].state # "idle" => 1..(job[i].file - 1) \subseteq 1..Plan[i].files
    BY <2>1 DEF Progress, Job
  <2> QED BY <1>1, <2>1, <2>2, <2>3 DEF Progress
<1>10. DuplicateNeedsCause'
  BY <1>1 DEF DuplicateNeedsCause, Marked, DeliveryInv
<1> QED BY <1>4, <1>5, <1>6, <1>7, <1>8, <1>9, <1>10, <1>13 DEF DeliveryInv

\* Deleting the project takes the rows and leaves what the handlers know.
LEMMA DeleteStep == ASSUME DeliveryInv, DeleteProject PROVE DeliveryInv'
<1>1. UNCHANGED <<job, up, comments, parsed>>
  BY DEF DeleteProject
<1>2. Dated /\ Ages
  BY <1>1 DEF Dated, Ages, DeleteProject, Rows, DeliveryInv, DeliveryTypes
<1>3. \A q \in Uploads : InTurn(q)'
  BY <1>2, AgesInTurn
<1>4. ASSUME NEW u \in Uploads PROVE Based(u)'
  <2>1. \A q \in up[u].after : /\ q \in Uploads
                               /\ up[q].status = "created" => up[q].stored
    BY DEF DeliveryInv, DeliveryTypes, Flow, Upload
  <2>2. \A q \in up[u].after : /\ up[q].stored /\ Outlived(q) => Outlived(q)'
                               /\ gone'[q] # "deleted" => gone[q] # "deleted"
    BY <1>2, <2>1, OutlivedStays DEF Ages
  <2> QED BY <1>1, <2>1, <2>2 DEF Based, JobOf, DeliveryInv
<1> QED BY <1>1, <1>2, <1>3, <1>4 DEF DeliveryInv, DeliveryTypes, Flow, Pending, Seeking,
           Progress, DuplicateNeedsCause, Marked, Ages

LEMMA SameInv ==
    ASSUME DeliveryInv, UNCHANGED <<job, up, gone, comments, parsed>> PROVE DeliveryInv'
BY SameRows DEF DeliveryInv, DeliveryTypes, Flow, Pending, Seeking, Progress,
       DuplicateNeedsCause, Marked

\* The invariant is inductive.
LEMMA DeliveryInductive == DeliveryInv /\ [Next]_vars => DeliveryInv'
<1> SUFFICES ASSUME DeliveryInv, [Next]_vars PROVE DeliveryInv'
  OBVIOUS
<1>1. ASSUME NEW j \in Jobs, JobStep(j) PROVE DeliveryInv'
  BY <1>1, StartStep, SendStep, HearStep, GiveUpStep DEF JobStep
<1>2. ASSUME NEW u \in Uploads, HandlerStep(u) \/ Drop(u) PROVE DeliveryInv'
  BY <1>2, ArriveStep, ParseStep, StoreStep, PruneStep, TokenStep, ReadBaselineStep,
     FindStep, WriteStep, DropStep DEF HandlerStep
<1>3. ASSUME NEW c \in Clients, Stray(c) PROVE DeliveryInv'
  BY <1>3, SameInv DEF Stray
<1>4. CASE Chat \/ DeleteProject \/ Restart
  BY <1>4, ChatStep, DeleteStep, RestartStep
<1>5. CASE TimePasses \/ UNCHANGED vars
  BY <1>5, SameInv DEF TimePasses, vars
<1> QED BY <1>1, <1>2, <1>3, <1>4, <1>5 DEF Next

-----------------------------------------------------------------------------
(* Theorems *)

\* A job that ends well has stored every file, however many there are, and
\* however often it was run before.
THEOREM SuccessIsStored == Spec => []SuccessMeansStored
<1>1. DeliveryInv => SuccessMeansStored
  BY DEF DeliveryInv, Progress, SuccessMeansStored
<1> QED BY <1>1, InitDelivery, DeliveryInductive, PTL DEF Spec

\* Two comments of one pull request always have a race or a full page behind
\* them.
THEOREM DuplicatesHaveCause == Spec => []DuplicateNeedsCause
<1>1. DeliveryInv => DuplicateNeedsCause
  BY DEF DeliveryInv
<1> QED BY <1>1, InitDelivery, DeliveryInductive, PTL DEF Spec

\* A comment compares with a build of the base branch at least as new as any
\* that had been answered and was not pruned in its turn or deleted since.
THEOREM BaselinesAreCurrent == Spec => []BaselineIsCurrent
<1>1. DeliveryInv => BaselineIsCurrent
  BY DEF DeliveryInv, Based, BaselineIsCurrent, Pc
<1> QED BY <1>1, InitDelivery, DeliveryInductive, PTL DEF Spec

\* The step that replaces a comment is a handler's that nobody heard of yet.
LEMMA WhoWrites ==
    ASSUME DeliveryInv, [Next]_vars, NEW k \in DOMAIN comments,
           comments'[k].by # comments[k].by
    PROVE  comments'[k].by \in Uploads /\ ~up[comments'[k].by].heard
<1>1. /\ comments \in Seq(Comment) /\ DOMAIN comments = 1..Len(comments)
      /\ comments' # comments
  BY DEF DeliveryInv, DeliveryTypes
<1>2. ~Chat
  BY <1>1 DEF Chat
<1>3. PICK u \in Uploads : Write(u)
  BY <1>1, <1>2 DEF Next, vars, JobStep, Start, Send, Hear, GiveUp, HandlerStep, Arrive,
     Parse, Store, Prune, Token, ReadBaseline, Find, Drop, Stray, DeleteProject, Restart,
     TimePasses
<1>4. comments' = [comments EXCEPT ![up[u].found] = Body(u, @.looked)]
  BY <1>1, <1>3 DEF Write
<1>5. comments'[k].by = u
  BY <1>1, <1>4 DEF Body
<1>6. ~up[u].heard
  BY <1>3 DEF Write, Pc, DeliveryInv, Flow
<1> QED BY <1>5, <1>6

\* No comment is put back to a run that was over when its upload was sent.
THEOREM CommentsGoForward == Spec => CommentNeverGoesBack
<1>1. ASSUME DeliveryInv, [Next]_vars, NEW k \in DOMAIN comments, Marked(k),
             comments'[k].by # comments[k].by
      PROVE  comments'[k].by \notin up[comments[k].by].after
  <2>1. comments[k].by \in Uploads
    <3>1. comments \in Seq(Comment) /\ k \in 1..Len(comments)
      BY <1>1 DEF DeliveryInv, DeliveryTypes
    <3>2. comments[k] \in Comment
      BY <3>1
    <3> QED BY <1>1, <3>2 DEF Comment, Marked
  <2>2. \A q \in up[comments[k].by].after : up[q].heard
    BY <1>1, <2>1 DEF DeliveryInv, Flow
  <2> QED BY <1>1, <2>2, WhoWrites
<1>2. DeliveryInv /\ [Next]_vars =>
        [\A k \in DOMAIN comments :
          Marked(k) /\ comments'[k].by # comments[k].by =>
              comments'[k].by \notin up[comments[k].by].after]_vars
  BY <1>1
<1> QED BY <1>2, InitDelivery, DeliveryInductive, PTL DEF Spec, CommentNeverGoesBack

-----------------------------------------------------------------------------
(* The limiter *)

Capped == IsFiniteSet(DOMAIN buckets) /\ TrackedBounded

LEMMA RetainedCapped ==
    Capped => /\ DOMAIN Retained \subseteq DOMAIN buckets
              /\ IsFiniteSet(DOMAIN Retained)
              /\ Cardinality(DOMAIN Retained) \in Nat
              /\ Cardinality(DOMAIN Retained) <= MaxTracked
<1> SUFFICES ASSUME Capped
             PROVE  /\ DOMAIN Retained \subseteq DOMAIN buckets
                    /\ IsFiniteSet(DOMAIN Retained)
                    /\ Cardinality(DOMAIN Retained) \in Nat
                    /\ Cardinality(DOMAIN Retained) <= MaxTracked
  OBVIOUS
<1>1. DOMAIN Retained \subseteq DOMAIN buckets
  BY DEF Retained
<1>2. /\ IsFiniteSet(DOMAIN Retained)
      /\ Cardinality(DOMAIN Retained) <= Cardinality(DOMAIN buckets)
  BY <1>1, FS_Subset DEF Capped
<1>3. Cardinality(DOMAIN Retained) \in Nat /\ Cardinality(DOMAIN buckets) \in Nat
  BY <1>2, FS_CardinalityType DEF Capped
<1> QED BY <1>1, <1>2, <1>3, LimiterAssumption DEF Capped, TrackedBounded

LEMMA CheckCapped ==
    ASSUME Capped, NEW c, NEW v, Check(c, v) PROVE Capped'
<1>1. CASE UNCHANGED buckets
  BY <1>1 DEF Capped, TrackedBounded
<1>2. CASE buckets' = Retained
  BY <1>2, RetainedCapped DEF Capped, TrackedBounded
<1>3. CASE ~Full(c) /\ DOMAIN buckets' = DOMAIN Retained \union {c}
  <2>1. /\ IsFiniteSet(DOMAIN Retained \union {c})
        /\ Cardinality(DOMAIN Retained \union {c}) =
             IF c \in DOMAIN Retained THEN Cardinality(DOMAIN Retained)
             ELSE Cardinality(DOMAIN Retained) + 1
    BY RetainedCapped, FS_AddElement
  <2>2. c \notin DOMAIN Retained => Cardinality(DOMAIN Retained) < MaxTracked
    BY <1>3, RetainedCapped, LimiterAssumption DEF Full
  <2> QED BY <1>3, <2>1, <2>2, RetainedCapped, LimiterAssumption DEF Capped, TrackedBounded
<1> QED BY <1>1, <1>2, <1>3 DEF Check

\* However many clients there are, the table of clients keeps to its cap.
THEOREM TableIsBounded == Spec => []TrackedBounded
<1>1. Init => Capped
  <2>1. DOMAIN NoBuckets = {}
    BY DEF NoBuckets
  <2> QED BY <2>1, FS_EmptySet, LimiterAssumption
      DEF Init, LimiterInit, Capped, TrackedBounded
<1>2. Capped /\ [Next]_vars => Capped'
  <2> SUFFICES ASSUME Capped, [Next]_vars PROVE Capped'
    OBVIOUS
  <2>1. ASSUME NEW c, NEW v, Check(c, v) PROVE Capped'
    BY <2>1, CheckCapped
  <2>2. CASE UNCHANGED buckets
    BY <2>2 DEF Capped, TrackedBounded
  <2>3. CASE Restart
    <3>1. DOMAIN buckets' = {}
      BY <2>3 DEF Restart, LimiterRestart, NoBuckets
    <3> QED BY <3>1, FS_EmptySet, LimiterAssumption DEF Capped, TrackedBounded
  <2> QED BY <2>1, <2>2, <2>3 DEF Next, vars, limiter, JobStep, Start, Send, Hear, GiveUp,
         HandlerStep, Arrive, Parse, Store, Prune, Token, ReadBaseline, Find, Write, Drop,
         Stray, Chat, DeleteProject, TimePasses, Tick
<1>3. Capped => TrackedBounded
  BY DEF Capped
<1> QED BY <1>1, <1>2, <1>3, PTL DEF Spec

-----------------------------------------------------------------------------
(* The quota under this traffic, and the types of Delivery, which rest on it *)

Since(S, t) == {e \in S : e.at >= t}
Before(S, t) == {e \in S : e.at < t}

\* The client has a counter whose window is not over.
Running(c) == c \in DOMAIN buckets /\ Fresh(buckets[c])

\* A counter that runs has counted requests that were sent since it started
\* and let no more than the limit through; what it does not know of came
\* through under the counter before it.
Tallied(c) ==
    LET b == buckets[c]
        through == Cardinality(Since(Counted(c), b.started))
    IN  /\ b.count <= Cardinality(Since(Sent(c), b.started))
        /\ through <= b.count
        /\ through <= limit
        /\ Cardinality(Before(Counted(c), b.started)) <= limit

Counts(c) ==
    /\ Running(c) => Tallied(c)
    /\ ~Running(c) => Cardinality(Counted(c)) <= limit

Recorded(e) ==
    /\ e.at <= now
    /\ e.at + Window > now
    /\ e.at = now => e.nth <= Cardinality(Sent(e.client))
    /\ e.verdict = "refused" => e.nth > limit
    /\ e.verdict = "counted" /\ e.at = now => Running(e.client)

QuotaInv ==
    /\ LimiterTypeOK
    /\ \A c \in DOMAIN buckets : buckets[c].started <= now
    /\ IsFiniteSet(recent)
    /\ \A e \in recent : Recorded(e)
    /\ \A c \in Clients : Counts(c)

-----------------------------------------------------------------------------
(* Counting *)

LEMMA Finite ==
    ASSUME IsFiniteSet(recent), NEW S \in SUBSET recent
    PROVE  IsFiniteSet(S) /\ Cardinality(S) \in Nat
BY FS_Subset, FS_CardinalityType

LEMMA Fewer ==
    ASSUME IsFiniteSet(recent), NEW S \in SUBSET recent, NEW T \in SUBSET S
    PROVE  Cardinality(T) <= Cardinality(S)
BY FS_Subset

LEMMA RunningIsRetained ==
    /\ DOMAIN Retained \subseteq DOMAIN buckets
    /\ \A c : c \in DOMAIN Retained <=> Running(c)
    /\ \A c \in DOMAIN Retained : Retained[c] = buckets[c]
BY DEF Retained, Running

-----------------------------------------------------------------------------
(* A request is recorded *)

New(c, v) == [client |-> c, at |-> now, nth |-> Cardinality(Sent(c)) + 1, verdict |-> v]

LEMMA RecordAdds ==
    ASSUME QuotaInv, NEW c \in Clients, NEW v \in Verdicts, Record(c, v)
    PROVE  /\ recent' = recent \union {New(c, v)}
           /\ New(c, v) \in Request
           /\ New(c, v) \notin recent
           /\ Sent(c)' = Sent(c) \union {New(c, v)}
           /\ Counted(c)' = IF v = "counted" THEN Counted(c) \union {New(c, v)}
                            ELSE Counted(c)
           /\ \A d \in Clients : d # c => Sent(d)' = Sent(d) /\ Counted(d)' = Counted(d)
           /\ IsFiniteSet(recent')
           /\ Cardinality(Sent(c)) \in Nat
           /\ Cardinality(Sent(c)') = Cardinality(Sent(c)) + 1
<1>1. /\ recent' = recent \union {New(c, v)}
      /\ New(c, v).client = c /\ New(c, v).at = now /\ New(c, v).verdict = v
      /\ New(c, v).nth = Cardinality(Sent(c)) + 1
  BY DEF Record, New
<1>2. IsFiniteSet(Sent(c)) /\ Cardinality(Sent(c)) \in Nat
  <2>1. Sent(c) \in SUBSET recent
    BY DEF Sent
  <2> QED BY <2>1, Finite DEF QuotaInv
<1>3. New(c, v) \in Request
  BY <1>2 DEF New, Request, QuotaInv, LimiterTypeOK
<1>4. New(c, v) \notin recent
  <2>1. ASSUME New(c, v) \in recent
        PROVE  FALSE
    <3>1. New(c, v).nth <= Cardinality(Sent(c))
      BY <1>1, <2>1 DEF QuotaInv, Recorded
    <3> QED BY <1>1, <1>2, <3>1
  <2> QED BY <2>1
<1>5. Sent(c)' = Sent(c) \union {New(c, v)} /\ New(c, v) \notin Sent(c)
  BY <1>1, <1>4 DEF Sent
<1>6. /\ Counted(c)' = IF v = "counted" THEN Counted(c) \union {New(c, v)} ELSE Counted(c)
      /\ \A d \in Clients : d # c => Sent(d)' = Sent(d) /\ Counted(d)' = Counted(d)
  BY <1>1, <1>5 DEF Sent, Counted
<1>7. IsFiniteSet(recent')
  BY <1>1, FS_AddElement DEF QuotaInv
<1>8. Cardinality(Sent(c)') = Cardinality(Sent(c)) + 1
  BY <1>2, <1>5, FS_AddElement
<1> QED BY <1>1, <1>2, <1>3, <1>4, <1>5, <1>6, <1>7, <1>8

\* What the records say stays so, if the client's counter agrees.
LEMMA RecordKeeps ==
    ASSUME QuotaInv, NEW c \in Clients, NEW v \in Verdicts, Record(c, v), UNCHANGED <<now, limit>>,
           v = "refused" => Cardinality(Sent(c)) + 1 > limit,
           v = "counted" => Running(c)',
           \A d \in Clients : Running(d) => Running(d)',
           NEW e \in recent'
    PROVE  Recorded(e)'
<1>1. CASE e = New(c, v)
  <2>1. /\ e.client = c /\ e.at = now /\ e.verdict = v /\ e.nth = Cardinality(Sent(c)) + 1
        /\ now \in Nat /\ Window \in Nat \ {0}
    BY <1>1, LimiterAssumption DEF New, QuotaInv, LimiterTypeOK
  <2> QED BY <2>1, RecordAdds DEF Recorded
<1>2. CASE e \in recent
  <2>1. e.client \in Clients /\ e.nth \in Nat /\ Recorded(e)
    BY <1>2 DEF QuotaInv, LimiterTypeOK, Request
  <2>2. e.at = now => e.nth <= Cardinality(Sent(e.client)')
    BY <2>1, RecordAdds DEF Recorded
  <2> QED BY <2>1, <2>2 DEF Recorded
<1> QED BY <1>1, <1>2, RecordAdds

-----------------------------------------------------------------------------
(* A counter counts *)

LEMMA CountStep ==
    ASSUME QuotaInv, NEW c \in Clients, NEW v \in Verdicts, UNCHANGED <<now, limit>>,
           limit > 0, ~Full(c), Record(c, v),
           v = IF CountOf(c) > limit THEN "refused" ELSE "counted",
           buckets' = [d \in DOMAIN Retained \union {c} |->
                         IF d = c
                         THEN [started |-> StartOf(c), count |-> CountOf(c)]
                         ELSE Retained[d]]
    PROVE  QuotaInv'
<1> DEFINE b == buckets'[c]
           new == New(c, v)
<1>0. /\ now \in Nat /\ limit \in Nat /\ Window \in Nat \ {0}
      /\ IsFiniteSet(recent) /\ recent \subseteq Request
      /\ \A d \in DOMAIN buckets : d \in Clients /\ buckets[d] \in Bucket
                                   /\ buckets[d].started <= now
  BY LimiterAssumption DEF QuotaInv, LimiterTypeOK
<1>1. /\ DOMAIN buckets' = DOMAIN Retained \union {c}
      /\ b.started = StartOf(c) /\ b.count = CountOf(c)
      /\ \A d \in DOMAIN Retained : d # c => buckets'[d] = buckets[d]
  BY RunningIsRetained
<1>2. /\ b.started \in Nat /\ b.count \in Nat /\ b.started <= now
      /\ now - b.started < Window
  <2>1. CASE c \in DOMAIN Retained
    <3>1. /\ b.started = buckets[c].started /\ b.count = buckets[c].count + 1
          /\ c \in DOMAIN buckets /\ Fresh(buckets[c])
      BY <1>1, <2>1, RunningIsRetained DEF StartOf, CountOf, Running
    <3> QED BY <1>0, <3>1 DEF Bucket, Fresh
  <2>2. CASE c \notin DOMAIN Retained
    <3>1. b.started = now /\ b.count = 1
      BY <1>1, <2>2 DEF StartOf, CountOf
    <3> QED BY <1>0, <3>1
  <2> QED BY <2>1, <2>2
<1>3. buckets'[c] \in Bucket
  <2>1. buckets'[c] = [started |-> StartOf(c), count |-> CountOf(c)]
    OBVIOUS
  <2> QED BY <1>1, <1>2, <2>1 DEF Bucket
<1> HIDE DEF b
<1>4. Running(c)'
  BY <1>1, <1>2 DEF Running, Fresh, b
<1>5. ASSUME NEW d \in Clients, d # c
      PROVE  /\ Running(d)' <=> Running(d)
             /\ Running(d) => buckets'[d] = buckets[d]
  <2>1. d \in DOMAIN buckets' <=> d \in DOMAIN Retained
    BY <1>1, <1>5
  <2>2. d \in DOMAIN Retained => buckets'[d] = buckets[d]
    BY <1>1, <1>5
  <2>3. Running(d)' <=> Running(d)
    BY <2>1, <2>2, RunningIsRetained DEF Running, Fresh
  <2> QED BY <2>2, <2>3, RunningIsRetained
<1>6. LimiterTypeOK'
  <2>1. DOMAIN buckets' \subseteq Clients
    BY <1>0, <1>1, RunningIsRetained
  <2>2. \A d \in DOMAIN buckets' : buckets'[d] \in Bucket
    BY <1>0, <1>1, <1>3, RunningIsRetained
  <2>3. recent' \subseteq Request
    BY <1>0, RecordAdds
  <2> QED BY <1>0, <2>1, <2>2, <2>3 DEF LimiterTypeOK, QuotaInv
<1>7. \A d \in DOMAIN buckets' : buckets'[d].started <= now'
  BY <1>0, <1>1, <1>2, RunningIsRetained DEF b
<1>8. Cardinality(Sent(c)) + 1 >= b.count
  <2>1. CASE c \in DOMAIN Retained
    <3>1. /\ Running(c) /\ b.count = buckets[c].count + 1 /\ buckets[c].count \in Nat
          /\ buckets[c].count <= Cardinality(Since(Sent(c), buckets[c].started))
      BY <1>0, <1>1, <2>1, RunningIsRetained DEF CountOf, QuotaInv, Counts, Tallied, Bucket
    <3>2. /\ Sent(c) \in SUBSET recent
          /\ Since(Sent(c), buckets[c].started) \in SUBSET Sent(c)
      BY DEF Sent, Since
    <3>3. /\ Cardinality(Since(Sent(c), buckets[c].started)) <= Cardinality(Sent(c))
          /\ Cardinality(Since(Sent(c), buckets[c].started)) \in Nat
          /\ Cardinality(Sent(c)) \in Nat
      <4>1. Since(Sent(c), buckets[c].started) \in SUBSET recent
        BY <3>2
      <4> QED BY <1>0, <3>2, <4>1, Fewer, Finite
    <3> QED BY <3>1, <3>3
  <2>2. CASE c \notin DOMAIN Retained
    BY <1>1, <2>2, RecordAdds DEF CountOf
  <2> QED BY <2>1, <2>2
<1>9. \A e \in recent' : Recorded(e)'
  <2>1. v = "refused" => Cardinality(Sent(c)) + 1 > limit
    BY <1>0, <1>1, <1>2, <1>8, RecordAdds
  <2>2. \A d \in Clients : Running(d) => Running(d)'
    <3>1. ASSUME NEW d \in Clients, Running(d)
          PROVE  Running(d)'
      <4>1. CASE d = c
        BY <1>4, <4>1 DEF Running, Fresh
      <4>2. CASE d # c
        BY <1>5, <3>1, <4>2
      <4> QED BY <4>1, <4>2
    <3> QED BY <3>1
  <2> QED BY <1>4, <2>1, <2>2, RecordKeeps
<1>10. ASSUME NEW d \in Clients, d # c
       PROVE  Counts(d)'
  <2>1. Counts(d) /\ Sent(d)' = Sent(d) /\ Counted(d)' = Counted(d)
    BY <1>10, RecordAdds DEF QuotaInv
  <2>2. /\ Running(d)' <=> Running(d)
        /\ Running(d) => buckets'[d] = buckets[d]
    BY <1>5, <1>10
  <2>3. CASE Running(d)
    <3>1. Tallied(d)'
      BY <2>1, <2>2, <2>3 DEF Counts, Tallied, Since, Before
    <3> QED BY <2>2, <2>3, <3>1 DEF Counts
  <2>4. CASE ~Running(d)
    BY <2>1, <2>2, <2>4 DEF Counts
  <2> QED BY <2>3, <2>4
<1>11. Counts(c)'
  <2>1. /\ Counted(c) \in SUBSET recent /\ Sent(c) \in SUBSET recent
        /\ IsFiniteSet(Since(Counted(c), b.started)) /\ IsFiniteSet(Since(Sent(c), b.started))
        /\ Cardinality(Since(Counted(c), b.started)) \in Nat
        /\ Cardinality(Since(Sent(c), b.started)) \in Nat
    <3>1. /\ Counted(c) \in SUBSET recent /\ Sent(c) \in SUBSET recent
          /\ Since(Counted(c), b.started) \in SUBSET recent
          /\ Since(Sent(c), b.started) \in SUBSET recent
      BY DEF Counted, Sent, Since
    <3> QED BY <1>0, <3>1, Finite
  <2>2. /\ Since(Sent(c)', b.started) = Since(Sent(c), b.started) \union {new}
        /\ new \notin Since(Sent(c), b.started)
        /\ Since(Counted(c)', b.started) =
             IF v = "counted" THEN Since(Counted(c), b.started) \union {new}
             ELSE Since(Counted(c), b.started)
        /\ new \notin Since(Counted(c), b.started)
        /\ Before(Counted(c)', b.started) = Before(Counted(c), b.started)
    <3>1. new.at = now /\ new \notin recent
      BY RecordAdds DEF New
    <3>2. new.at >= b.started /\ ~(new.at < b.started)
      BY <1>0, <1>2, <3>1
    <3> HIDE DEF new
    <3> QED BY <2>1, <3>1, <3>2, RecordAdds DEF Since, Before, new
  <2>3. /\ Cardinality(Since(Sent(c)', b.started)) = Cardinality(Since(Sent(c), b.started)) + 1
        /\ Cardinality(Since(Counted(c)', b.started)) =
             IF v = "counted" THEN Cardinality(Since(Counted(c), b.started)) + 1
             ELSE Cardinality(Since(Counted(c), b.started))
    BY <2>1, <2>2, FS_AddElement
  <2>4. /\ b.count <= Cardinality(Since(Sent(c), b.started)) + 1
        /\ Cardinality(Since(Counted(c), b.started)) <= b.count - 1
        /\ Cardinality(Since(Counted(c), b.started)) <= limit
        /\ Cardinality(Before(Counted(c), b.started)) <= limit
    <3>1. CASE c \in DOMAIN Retained
      <4>1. /\ Tallied(c) /\ buckets[c].count \in Nat
            /\ b.started = buckets[c].started /\ b.count = buckets[c].count + 1
        BY <1>0, <1>1, <3>1, RunningIsRetained
           DEF QuotaInv, Counts, StartOf, CountOf, Bucket
      <4> QED BY <2>1, <4>1 DEF Tallied
    <3>2. CASE c \notin DOMAIN Retained
      <4>1. b.started = now /\ b.count = 1
        BY <1>1, <3>2 DEF StartOf, CountOf
      <4>2. ~Running(c) /\ Cardinality(Counted(c)) <= limit
        BY <3>2, RunningIsRetained DEF QuotaInv, Counts
      <4>3. Since(Counted(c), now) = {}
        <5>1. ASSUME NEW e \in Counted(c)
              PROVE  ~(e.at >= now)
          <6>1. /\ e \in recent /\ e.client = c /\ e.verdict = "counted"
                /\ e.at \in Nat /\ e.at <= now
            BY <1>0, <5>1 DEF Counted, Sent, QuotaInv, Recorded, Request
          <6>2. e.at # now
            BY <4>2, <6>1 DEF QuotaInv, Recorded
          <6> QED BY <1>0, <6>1, <6>2
        <5> QED BY <5>1 DEF Since
      <4>4. /\ Cardinality(Before(Counted(c), now)) <= Cardinality(Counted(c))
            /\ Cardinality(Before(Counted(c), now)) \in Nat /\ Cardinality(Counted(c)) \in Nat
        <5>1. Before(Counted(c), now) \in SUBSET Counted(c)
          BY DEF Before
        <5>2. Before(Counted(c), now) \in SUBSET recent
          BY <2>1, <5>1
        <5> QED BY <1>0, <2>1, <5>1, <5>2, Fewer, Finite
      <4> QED BY <1>0, <2>1, <4>1, <4>2, <4>3, <4>4, FS_EmptySet
    <3> QED BY <3>1, <3>2
  <2>5. v = "counted" => b.count <= limit
    BY <1>0, <1>1, <1>2
  <2>6. /\ b.count <= Cardinality(Since(Sent(c)', b.started))
        /\ Cardinality(Since(Counted(c)', b.started)) <= b.count
        /\ Cardinality(Since(Counted(c)', b.started)) <= limit
        /\ Cardinality(Before(Counted(c)', b.started)) <= limit
    BY <1>0, <1>2, <2>1, <2>2, <2>3, <2>4, <2>5
  <2>7. Tallied(c)'
    BY <2>6 DEF Tallied, b, Since, Before
  <2> QED BY <1>4, <2>7 DEF Counts
<1> QED BY <1>6, <1>7, <1>9, <1>10, <1>11, RecordAdds DEF QuotaInv

\* A request passes untracked: the others' counters are full up.
LEMMA UntrackedStep ==
    ASSUME QuotaInv, NEW c \in Clients, UNCHANGED <<now, limit>>,
           Full(c), Record(c, "untracked"), buckets' = Retained
    PROVE  QuotaInv'
<1>1. ~Running(c) /\ "untracked" \in Verdicts
  BY RunningIsRetained DEF Full, Verdicts
<1>2. ASSUME NEW d \in Clients
      PROVE  /\ Running(d)' <=> Running(d)
             /\ Running(d) => buckets'[d] = buckets[d]
  <2>1. Running(d) => buckets'[d] = buckets[d]
    BY RunningIsRetained
  <2>2. d \in DOMAIN buckets' <=> Running(d)
    BY RunningIsRetained
  <2>3. Running(d)' <=> Running(d)
    BY <2>1, <2>2 DEF Running, Fresh
  <2> QED BY <2>1, <2>3
<1>3. ASSUME NEW d \in Clients
      PROVE  Counts(d)'
  <2>1. Counts(d) /\ Counted(d)' = Counted(d) /\ (d # c => Sent(d)' = Sent(d))
    BY <1>1, RecordAdds DEF QuotaInv
  <2>2. CASE Running(d)
    <3>1. Tallied(d)'
      BY <1>1, <1>2, <2>1, <2>2 DEF Counts, Tallied, Since, Before
    <3> QED BY <1>2, <2>2, <3>1 DEF Counts
  <2>3. CASE ~Running(d)
    BY <1>2, <2>1, <2>3 DEF Counts
  <2> QED BY <2>2, <2>3
<1>4. \A e \in recent' : Recorded(e)'
  <2>1. \A d \in Clients : Running(d) => Running(d)'
    <3>1. ASSUME NEW d \in Clients, Running(d)
          PROVE  Running(d)'
      BY <1>2, <3>1
    <3> QED BY <3>1
  <2> QED BY <1>1, <2>1, RecordKeeps
<1>5. LimiterTypeOK' /\ \A d \in DOMAIN buckets' : buckets'[d].started <= now'
  <2>1. recent' \subseteq Request
    BY <1>1, RecordAdds DEF QuotaInv, LimiterTypeOK
  <2> QED BY <2>1, RunningIsRetained DEF QuotaInv, LimiterTypeOK
<1> QED BY <1>1, <1>3, <1>4, <1>5, RecordAdds DEF QuotaInv

LEMMA SameQuota == QuotaInv /\ UNCHANGED limiter => QuotaInv'
BY DEF QuotaInv, limiter, LimiterTypeOK, Recorded, Counts, Tallied, Running, Fresh, Sent,
       Counted, Since, Before

LEMMA CheckStep ==
    ASSUME QuotaInv, NEW c \in Clients, NEW v \in Verdicts, Check(c, v)
    PROVE  QuotaInv'
<1>1. CASE limit = 0
  BY <1>1, SameQuota DEF Check, limiter
<1>2. CASE limit > 0 /\ Full(c)
  BY <1>2, UntrackedStep DEF Check
<1>3. CASE limit > 0 /\ ~Full(c)
  BY <1>3, CountStep DEF Check
<1>4. limit = 0 \/ limit > 0
  BY LimiterAssumption DEF QuotaInv, LimiterTypeOK
<1> QED BY <1>1, <1>2, <1>3, <1>4

-----------------------------------------------------------------------------
(* Time passes *)

LEMMA TickStep ==
    ASSUME QuotaInv, Tick
    PROVE  QuotaInv'
<1>1. /\ now \in Nat /\ now' = now + 1 /\ limit \in Nat /\ limit' = limit
      /\ Window \in Nat \ {0} /\ buckets' = buckets
      /\ recent' = {e \in recent : e.at + Window > now + 1}
      /\ recent \subseteq Request /\ IsFiniteSet(recent)
      /\ \A d \in DOMAIN buckets : buckets[d] \in Bucket /\ buckets[d].started <= now
  BY LimiterAssumption DEF Tick, QuotaInv, LimiterTypeOK
<1>2. recent' \in SUBSET recent /\ IsFiniteSet(recent')
  BY <1>1, Finite
<1>3. ASSUME NEW e \in recent'
      PROVE  Recorded(e)'
  <2>1. e \in recent /\ e.at \in Nat /\ e.at + Window > now + 1 /\ Recorded(e)
    BY <1>1, <1>3 DEF QuotaInv, Request
  <2>2. e.at <= now' /\ e.at # now'
    BY <1>1, <2>1 DEF Recorded
  <2> QED BY <1>1, <2>1, <2>2 DEF Recorded
<1>4. ASSUME NEW c \in Clients
      PROVE  Counts(c)'
  <2>1. /\ Counts(c) /\ Counted(c) \in SUBSET Sent(c) /\ Sent(c) \in SUBSET recent
        /\ Sent(c)' = {e \in Sent(c) : e.at + Window > now + 1}
        /\ Counted(c)' = {e \in Counted(c) : e.at + Window > now + 1}
    BY <1>1 DEF QuotaInv, Sent, Counted
  <2>2. Cardinality(Counted(c)') <= Cardinality(Counted(c))
        /\ Cardinality(Counted(c)) \in Nat /\ Cardinality(Counted(c)') \in Nat
    <3>1. Counted(c) \in SUBSET recent /\ Counted(c)' \in SUBSET Counted(c)
          /\ Counted(c)' \in SUBSET recent
      BY <2>1
    <3> QED BY <1>1, <3>1, Finite, Fewer
  <2>3. CASE ~Running(c)
    <3>1. ~Running(c)'
      BY <1>1, <2>3 DEF Running, Fresh, Bucket
    <3> QED BY <1>1, <2>1, <2>2, <2>3, <3>1 DEF Counts
  <2>4. CASE Running(c)
    <3> DEFINE b == buckets[c]
               since == Since(Counted(c), b.started)
               before == Before(Counted(c), b.started)
    <3>1. Tallied(c) /\ b.started \in Nat /\ b.count \in Nat /\ now - b.started < Window
      BY <1>1, <2>1, <2>4 DEF Counts, Running, Fresh, Bucket
    <3>2. \A e \in Sent(c) : e.at \in Nat
      BY <1>1, <2>1 DEF Request
    <3>3. since \in SUBSET recent /\ before \in SUBSET recent
      BY <2>1 DEF Since, Before
    <3>4. CASE Running(c)'
      <4>1. now + 1 - b.started < Window
        <5>1. now' - buckets'[c].started < Window
          BY <3>4 DEF Running, Fresh
        <5> QED BY <1>1, <3>1, <5>1
      <4>2. \A e \in Sent(c) : e.at >= b.started => e.at + Window > now + 1
        BY <1>1, <3>1, <3>2, <4>1
      <4>3. /\ Since(Sent(c)', b.started) = Since(Sent(c), b.started)
            /\ Since(Counted(c)', b.started) = since
        BY <2>1, <4>2 DEF Since
      <4>4. Before(Counted(c)', b.started) \in SUBSET before
        BY <2>1 DEF Before
      <4>5. /\ Cardinality(Before(Counted(c)', b.started)) <= Cardinality(before)
            /\ Cardinality(Before(Counted(c)', b.started)) \in Nat
            /\ Cardinality(before) \in Nat
        <5>1. Before(Counted(c)', b.started) \in SUBSET recent
          BY <3>3, <4>4
        <5> HIDE DEF before
        <5> QED BY <1>1, <3>3, <4>4, <5>1, Finite, Fewer
      <4>6. Cardinality(Before(Counted(c)', b.started)) <= limit
        BY <1>1, <3>1, <4>5 DEF Tallied
      <4>7. Tallied(c)'
        BY <1>1, <3>1, <4>3, <4>6 DEF Tallied, Since, Before
      <4> QED BY <3>4, <4>7 DEF Counts
    <3>5. CASE ~Running(c)'
      <4>1. now + 1 - b.started >= Window
        BY <1>1, <2>4, <3>1, <3>5 DEF Running, Fresh
      <4>2. \A e \in Counted(c)' : e \in Counted(c) /\ e.at >= b.started
        BY <1>1, <2>1, <3>1, <3>2, <4>1
      <4>3. Counted(c)' \in SUBSET since
        BY <4>2 DEF Since
      <4>4. Cardinality(Counted(c)') <= Cardinality(since) /\ Cardinality(since) \in Nat
        <5> HIDE DEF since
        <5> QED BY <1>1, <3>3, <4>3, Finite, Fewer
      <4>5. Cardinality(since) <= limit
        BY <3>1 DEF Tallied
      <4> QED BY <1>1, <2>2, <3>5, <4>4, <4>5 DEF Counts
    <3> QED BY <3>4, <3>5
  <2> QED BY <2>3, <2>4
<1>5. LimiterTypeOK'
  BY <1>1 DEF QuotaInv, LimiterTypeOK
<1>6. \A d \in DOMAIN buckets' : buckets'[d].started <= now'
  BY <1>1 DEF Bucket
<1> QED BY <1>2, <1>3, <1>4, <1>5, <1>6 DEF QuotaInv

\* An empty table and nothing sent, at the start and after a restart.
LEMMA EmptyQuota ==
    ASSUME now \in Nat, limit \in Limits, buckets = NoBuckets, recent = {}
    PROVE  QuotaInv
<1>1. DOMAIN buckets = {} /\ limit \in Nat
  BY LimiterAssumption DEF NoBuckets
<1>2. \A c \in Clients : Counted(c) = {} /\ ~Running(c)
  BY <1>1 DEF Counted, Sent, Running
<1>3. ASSUME NEW c \in Clients
      PROVE  Counts(c)
  <2>1. Cardinality(Counted(c)) = 0
    BY <1>2, FS_EmptySet
  <2> QED BY <1>1, <1>2, <2>1 DEF Counts
<1> QED BY <1>1, <1>3, FS_EmptySet DEF QuotaInv, LimiterTypeOK

-----------------------------------------------------------------------------
(* Theorems *)

LEMMA QuotaInit == Init => QuotaInv
BY EmptyQuota DEF Init, LimiterInit

LEMMA QuotaStep == QuotaInv /\ [Next]_vars => QuotaInv'
<1> SUFFICES ASSUME QuotaInv, [Next]_vars PROVE QuotaInv'
  OBVIOUS
<1>1. ASSUME NEW u \in Uploads, Arrive(u)
      PROVE  QuotaInv'
  <2>1. JobOf(u).address \in Clients
    BY UploadShape, DeliveryAssumption DEF JobOf, JobSpec
  <2>2. PICK v \in Verdicts : Check(JobOf(u).address, v)
    BY <1>1 DEF Arrive
  <2> QED BY <2>1, <2>2, CheckStep
<1>2. ASSUME NEW c \in Clients, Stray(c)
      PROVE  QuotaInv'
  BY <1>2, CheckStep DEF Stray
<1>3. CASE Restart
  <2>1. (now \in Nat)' /\ (limit \in Limits)' /\ (buckets = NoBuckets)' /\ (recent = {})'
    BY <1>3 DEF Restart, LimiterRestart, QuotaInv, LimiterTypeOK, NoBuckets
  <2> QED BY <2>1, EmptyQuota, PTL
<1>4. CASE TimePasses
  BY <1>4, TickStep DEF TimePasses
<1>5. CASE UNCHANGED limiter
  BY <1>5, SameQuota
<1> QED BY <1>1, <1>2, <1>3, <1>4, <1>5
     DEF Next, vars, JobStep, Start, Send, Hear, GiveUp, HandlerStep, Parse, Store, Prune,
     Token, ReadBaseline, Find, Write, Drop, Chat, DeleteProject

\* Whatever the clients send and however windows follow one another: no more
\* than two quotas of a tracked client pass within one window, and nobody is
\* refused who has not sent more than a quota (check).
THEOREM QuotaIsKept == Spec => []QuotaKept
<1>1. QuotaInv => QuotaKept
  <2> SUFFICES ASSUME QuotaInv PROVE QuotaKept
    OBVIOUS
  <2>1. limit \in Nat
    BY LimiterAssumption DEF QuotaInv, LimiterTypeOK
  <2>2. ASSUME NEW c \in Clients
        PROVE  Cardinality(Counted(c)) <= 2 * limit
    <3> DEFINE since == Since(Counted(c), buckets[c].started)
               before == Before(Counted(c), buckets[c].started)
    <3>1. Counted(c) \in SUBSET recent /\ Cardinality(Counted(c)) \in Nat
      <4>1. Counted(c) \in SUBSET recent
        BY DEF Counted, Sent
      <4> QED BY <4>1, Finite DEF QuotaInv
    <3>2. CASE ~Running(c)
      BY <2>1, <3>1, <3>2 DEF QuotaInv, Counts
    <3>3. CASE Running(c)
      <4>1. /\ Cardinality(since) <= limit /\ Cardinality(before) <= limit
            /\ buckets[c].started \in Nat
        <5>1. Tallied(c) /\ buckets[c] \in Bucket
          BY <3>3 DEF QuotaInv, Counts, LimiterTypeOK, Running
        <5>2. Cardinality(since) \in Nat /\ buckets[c].count \in Nat
          <6>1. since \in SUBSET recent
            BY <3>1 DEF Since
          <6> QED BY <5>1, <6>1, Finite DEF QuotaInv, Bucket
        <5> QED BY <2>1, <5>1, <5>2 DEF Tallied, Bucket
      <4>2. Counted(c) = since \union before
        <5>1. \A e \in Counted(c) : e.at \in Nat
          BY <3>1 DEF QuotaInv, LimiterTypeOK, Request
        <5> QED BY <4>1, <5>1 DEF Since, Before
      <4>3. /\ IsFiniteSet(since) /\ IsFiniteSet(before)
            /\ Cardinality(since) \in Nat /\ Cardinality(before) \in Nat
        <5>1. since \in SUBSET recent /\ before \in SUBSET recent
          BY <3>1 DEF Since, Before
        <5> QED BY <5>1, Finite DEF QuotaInv
      <4>4. Cardinality(since \union before) <= Cardinality(since) + Cardinality(before)
        <5> HIDE DEF since, before
        <5>1. Cardinality(since \cap before) \in Nat
          <6>1. since \cap before \in SUBSET since
            OBVIOUS
          <6> QED BY <4>3, <6>1, FS_Subset, FS_CardinalityType
        <5>2. Cardinality(since \union before) =
                Cardinality(since) + Cardinality(before) - Cardinality(since \cap before)
          BY <4>3, FS_Union
        <5> QED BY <4>3, <5>1, <5>2
      <4> HIDE DEF since, before
      <4> QED BY <2>1, <3>1, <4>1, <4>2, <4>3, <4>4
    <3> QED BY <3>2, <3>3
  <2> QED BY <2>2 DEF QuotaKept, AtMostTwice, RefusedForCause, QuotaInv, Recorded
<1> QED BY <1>1, QuotaInit, QuotaStep, PTL DEF Spec

\* Every reachable state of jobs, uploads, comments and limiter is well typed:
\* no start of a window, counter or position is negative.
THEOREM DeliveryIsTyped == Spec => []TypeOK
<1>1. QuotaInv /\ DeliveryInv => TypeOK
  BY DEF QuotaInv, DeliveryInv, DeliveryTypes, TypeOK
<1> QED BY <1>1, QuotaInit, QuotaStep, InitDelivery, DeliveryInductive, PTL DEF Spec
=============================================================================

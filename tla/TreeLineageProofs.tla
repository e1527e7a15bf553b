------------------------- MODULE TreeLineageProofs -------------------------
(***************************************************************************)
(* What the memory tree keeps of its summaries and of what their readers     *)
(* are promised: the traces of their model calls, the clusters a build       *)
(* started from, and, with one builder at a time, versions, links and the    *)
(* abstract tree of module SummaryLineage.                                   *)
(***************************************************************************)
EXTENDS SummaryTreeProofs

-----------------------------------------------------------------------------
(* The steps of a build, field by field: x is the call before the step and y *)
(* the call after it, and every other build is left alone.                   *)
OthersKept(b) == \A d \in Builder : d # b => build'[d] = build[d]

BuildAct(b) == BuildLevel(b) \/ BuildStep(b) \/ BuildFails(b)

Lists(x, y) ==
  /\ y.stage = "clusters" /\ y.copy = [l \in Leaf |-> rows[l]]
  /\ y.todo = {c \in Clusters[{l \in Leaf : Live(l)}] : ShouldSummarize(c)}
  /\ y.cluster = {} /\ y.id = NoNode /\ y.pending = {} /\ y.built = {} /\ y.rejected = {}

Reuses(x, y, c, s) ==
  /\ x.stage = "clusters" /\ c \in x.todo /\ s \in ExistingSummary(c)
  /\ y.stage = "clusters" /\ y.todo = x.todo \ {c} /\ y.built = x.built \cup {s}
  /\ y.copy = x.copy /\ y.cluster = x.cluster /\ y.id = x.id /\ y.row = x.row
  /\ y.pending = x.pending /\ y.rejected = x.rejected

Starts(x, y, c) ==
  /\ x.stage = "clusters" /\ c \in x.todo /\ ExistingSummary(c) = {}
  /\ y.stage = "generating" /\ y.cluster = c
  /\ y.copy = x.copy /\ y.todo = x.todo /\ y.id = x.id /\ y.row = x.row
  /\ y.pending = x.pending /\ y.built = x.built /\ y.rejected = x.rejected

Generates(x, y, s, v) ==
  /\ x.stage = "generating" /\ s \in Summary \ used /\ v \in NewestVersion(x.cluster)
  /\ y.stage = "verifying" /\ y.id = s /\ y.row.children = x.cluster
  /\ y.row.version = v + 1 /\ ~y.row.stale /\ y.row \in Row
  /\ y.copy = x.copy /\ y.todo = x.todo /\ y.cluster = x.cluster
  /\ y.pending = x.pending /\ y.built = x.built /\ y.rejected = x.rejected
  /\ used' = used \cup {s} /\ Trace(s, "summarizer")

Accepts(x, y) ==
  /\ x.stage = "verifying" /\ y.stage = "saving" /\ y.row \in Row
  /\ y.row.children = x.row.children /\ y.row.version = x.row.version
  /\ y.row.stale = x.row.stale
  /\ y.copy = x.copy /\ y.todo = x.todo /\ y.cluster = x.cluster /\ y.id = x.id
  /\ y.pending = x.pending /\ y.built = x.built /\ y.rejected = x.rejected
  /\ Trace(x.id, "verifier")

Rejects(x, y) ==
  /\ x.stage = "verifying" /\ y.stage = "clusters"
  /\ y.todo = x.todo \ {x.cluster} /\ y.rejected = x.rejected \cup {x.cluster}
  /\ y.copy = x.copy /\ y.cluster = {} /\ y.id = NoNode /\ y.pending = x.pending
  /\ y.built = x.built /\ Trace(x.id, "verifier")

Saves(x, y) ==
  /\ x.stage = "saving" /\ y.stage = "linking" /\ y.pending = x.cluster
  /\ y.copy = x.copy /\ y.todo = x.todo /\ y.cluster = x.cluster /\ y.id = x.id
  /\ y.row = x.row /\ y.built = x.built /\ y.rejected = x.rejected
  /\ Upsert(x.id, x.row)

LinksLeaf(x, y, l, row) ==
  /\ x.stage = "linking" /\ y.stage = "linking" /\ l \in x.pending
  /\ row = [x.copy[l] EXCEPT !.parents = @ \cup {x.id}]
  /\ y.copy = [x.copy EXCEPT ![l] = row] /\ y.pending = x.pending \ {l}
  /\ y.todo = x.todo /\ y.cluster = x.cluster /\ y.id = x.id /\ y.row = x.row
  /\ y.built = x.built /\ y.rejected = x.rejected
  /\ Upsert(l, row)

Finishes(x, y) ==
  /\ x.stage = "linking" /\ x.pending = {} /\ y.stage = "clusters"
  /\ y.todo = x.todo \ {x.cluster} /\ y.built = x.built \cup {x.id}
  /\ y.copy = x.copy /\ y.cluster = {} /\ y.id = NoNode /\ y.pending = {}
  /\ y.rejected = x.rejected

TablesKept == UNCHANGED <<rows, edges, traces, used>>

(* Every step of a build is one of these. *)
BuildCase(b, x, y) ==
  \/ Lists(x, y) /\ x.stage = "idle" /\ TablesKept
  \/ (\E c \in x.todo, s \in Summary : Reuses(x, y, c, s)) /\ TablesKept
  \/ (\E c \in x.todo : Starts(x, y, c)) /\ TablesKept
  \/ (\E s \in Summary, v \in Nat : Generates(x, y, s, v)) /\ UNCHANGED <<rows, edges>>
  \/ (Accepts(x, y) \/ Rejects(x, y)) /\ UNCHANGED <<rows, edges, used>>
  \/ Saves(x, y) /\ UNCHANGED <<traces, used>>
  \/ (\E l \in Leaf, row \in Row : LinksLeaf(x, y, l, row)) /\ UNCHANGED <<traces, used>>
  \/ Finishes(x, y) /\ TablesKept
  \/ y = IdleBuild /\ TablesKept /\ x.stage # "idle"
     /\ (MayCrash \/ x.stage \in {"clusters", "generating", "verifying"})

LEMMA BuildCases ==
  ASSUME TypeInv, NEW b \in Builder, BuildAct(b)
  PROVE  /\ BuildCase(b, build[b], build'[b])
         /\ OthersKept(b) /\ UNCHANGED <<audit, marks, wipe>>
<1>0. build \in [Builder -> BuildLocals] /\ build[b] \in BuildLocals /\ BuildOK(build[b])
  BY CallLocals DEF TypeInv, TypeOK
<1> DEFINE x == build[b]
           y == build'[b]
<1>1. OthersKept(b) /\ UNCHANGED <<audit, marks, wipe>>
  BY <1>0 DEF OthersKept, BuildAct, BuildLevel, BuildStep, BuildFails, ReuseSummary, StartSummary,
     GenerateReturns, VerifyReturns, SaveSummary, LinkChild, ClusterBuilt, BuildReturns,
     ModelError, Crash
<1> SUFFICES BuildCase(b, x, y)
  BY <1>1
<1>2. CASE BuildLevel(b)
  <2> DEFINE copy == [l \in Leaf |-> rows[l]]
             worth == {c \in Clusters[{l \in Leaf : Live(l)}] : ShouldSummarize(c)}
  <2>1. y = NewCall("clusters", copy, worth) /\ x.stage = "idle" /\ TablesKept
    BY <1>0, <1>2 DEF BuildLevel, TablesKept, store
  <2>2. Lists(x, y)
    <3> HIDE DEF copy, worth
    <3>1. /\ y.stage = "clusters" /\ y.copy = copy /\ y.todo = worth
          /\ y.cluster = {} /\ y.id = NoNode /\ y.pending = {} /\ y.built = {} /\ y.rejected = {}
      BY <2>1 DEF NewCall
    <3> QED
      BY <3>1 DEF Lists, copy, worth
  <2> QED
    BY <2>1, <2>2 DEF BuildCase
<1>3. CASE ReuseSummary(b)
  <2>0. \A c : ExistingSummary(c) \subseteq Summary
    BY DEF ExistingSummary
  <2>1. PICK c \in x.todo, s \in Summary :
          /\ s \in ExistingSummary(c)
          /\ build' = [build EXCEPT ![b].todo = @ \ {c}, ![b].built = @ \cup {s}]
    BY <1>3, <2>0 DEF ReuseSummary
  <2>2. TablesKept /\ x.stage = "clusters"
    BY <1>3 DEF ReuseSummary, TablesKept, store
  <2>3. Reuses(x, y, c, s)
    BY <1>0, <2>1, <2>2 DEF Reuses, BuildLocals
  <2> QED
    BY <2>2, <2>3 DEF BuildCase
<1>4. CASE StartSummary(b)
  <2>1. PICK c \in x.todo :
          /\ build' = [build EXCEPT ![b].stage = "generating", ![b].cluster = c]
          /\ ExistingSummary(c) = {}
    BY <1>4 DEF StartSummary
  <2>2. TablesKept /\ x.stage = "clusters"
    BY <1>4 DEF StartSummary, TablesKept, store
  <2>3. Starts(x, y, c)
    BY <1>0, <2>1, <2>2 DEF Starts, BuildLocals
  <2> QED
    BY <2>2, <2>3 DEF BuildCase
<1>5. CASE GenerateReturns(b)
  <2>1. PICK s \in Summary \ used, v \in NewestVersion(x.cluster) :
          /\ used' = used \cup {s} /\ Trace(s, "summarizer")
          /\ build' = [build EXCEPT
               ![b].stage = "verifying",
               ![b].id = s,
               ![b].row = [parents |-> {}, children |-> build[b].cluster, version |-> v + 1,
                           stale |-> FALSE, quality |-> "pending"]]
    BY <1>5 DEF GenerateReturns
  <2> DEFINE row == [parents |-> {}, children |-> x.cluster, version |-> v + 1,
                     stale |-> FALSE, quality |-> "pending"]
  <2>2. v \in Nat /\ x.stage = "generating" /\ UNCHANGED <<rows, edges>>
    BY <1>5, NewestVersionNat DEF GenerateReturns, TypeInv
  <2>3. row \in Row
    BY <1>0, <2>2 DEF Row, Quality, BuildLocals
  <2>4. row.children = x.cluster /\ row.version = v + 1 /\ ~row.stale
    OBVIOUS
  <2>5. y = [x EXCEPT !.stage = "verifying", !.id = s, !.row = row]
    BY <1>0, <2>1
  <2> HIDE DEF row
  <2>6. Generates(x, y, s, v)
    BY <1>0, <2>1, <2>2, <2>3, <2>4, <2>5 DEF Generates, BuildLocals
  <2> QED
    BY <2>2, <2>6 DEF BuildCase
<1>6. CASE VerifyReturns(b)
  <2>0. x.stage = "verifying" /\ x.row \in Row /\ UNCHANGED <<rows, edges, used>>
        /\ Trace(x.id, "verifier")
    BY <1>0, <1>6 DEF VerifyReturns, BuildOK
  <2>1. PICK q \in Verdict :
          y = IF Dropped(q)
              THEN [NextCluster(x) EXCEPT !.rejected = x.rejected \cup {x.cluster}]
              ELSE [x EXCEPT !.stage = "saving", !.row.quality = q]
    BY <1>0, <1>6 DEF VerifyReturns
  <2>2. CASE Dropped(q)
    <3>1. Rejects(x, y)
      BY <1>0, <2>0, <2>1, <2>2 DEF Rejects, NextCluster, BuildLocals
    <3> QED
      BY <2>0, <3>1 DEF BuildCase
  <2>3. CASE ~Dropped(q)
    <3> DEFINE row == [x.row EXCEPT !.quality = q]
    <3>1. /\ row \in Row /\ row.children = x.row.children /\ row.version = x.row.version
          /\ row.stale = x.row.stale
      BY <2>0 DEF Row, Quality
    <3>2. y = [x EXCEPT !.stage = "saving", !.row = row]
      BY <1>0, <2>1, <2>3 DEF BuildLocals
    <3> HIDE DEF row
    <3>3. Accepts(x, y)
      BY <1>0, <2>0, <3>1, <3>2 DEF Accepts, BuildLocals
    <3> QED
      BY <2>0, <3>3 DEF BuildCase
  <2> QED
    BY <2>2, <2>3
<1>7. CASE SaveSummary(b)
  <2>1. Saves(x, y) /\ UNCHANGED <<traces, used>>
    BY <1>0, <1>7 DEF SaveSummary, Saves, BuildLocals
  <2> QED
    BY <2>1 DEF BuildCase
<1>8. CASE LinkChild(b)
  <2>1. PICK l \in x.pending :
          /\ build' = [build EXCEPT ![b].copy[l] = Backfilled(b, l), ![b].pending = @ \ {l}]
          /\ Upsert(l, Backfilled(b, l))
    BY <1>8 DEF LinkChild
  <2>2. l \in Leaf /\ Backfilled(b, l) \in Row /\ x.stage = "linking"
    BY BackfilledRow
  <2>3. LinksLeaf(x, y, l, Backfilled(b, l))
    <3>1. Backfilled(b, l) = [x.copy[l] EXCEPT !.parents = @ \cup {x.id}]
      BY DEF Backfilled
    <3> DEFINE row == Backfilled(b, l)
    <3>2. y = [x EXCEPT !.copy = [x.copy EXCEPT ![l] = row], !.pending = x.pending \ {l}]
      BY <1>0, <2>1 DEF BuildLocals
    <3> HIDE DEF row
    <3>3. /\ y.stage = x.stage /\ y.copy = [x.copy EXCEPT ![l] = row]
          /\ y.pending = x.pending \ {l} /\ y.todo = x.todo /\ y.cluster = x.cluster
          /\ y.id = x.id /\ y.row = x.row /\ y.built = x.built /\ y.rejected = x.rejected
      BY <1>0, <3>2 DEF BuildLocals
    <3> QED
      BY <2>1, <2>2, <3>1, <3>3 DEF LinksLeaf, row
  <2>4. UNCHANGED <<traces, used>>
    BY <1>8 DEF LinkChild
  <2> QED
    BY <2>2, <2>3, <2>4 DEF BuildCase
<1>9. CASE ClusterBuilt(b)
  <2>1. Finishes(x, y) /\ TablesKept
    BY <1>0, <1>9 DEF ClusterBuilt, NextCluster, Finishes, BuildLocals, TablesKept, store
  <2> QED
    BY <2>1 DEF BuildCase
<1>10. CASE BuildReturns(b) \/ BuildFails(b)
  <2>1. y = IdleBuild /\ TablesKept /\ x.stage # "idle"
        /\ (MayCrash \/ x.stage \in {"clusters", "generating", "verifying"})
    BY <1>0, <1>10 DEF BuildReturns, BuildFails, ModelError, Crash, TablesKept, store
  <2> QED
    BY <2>1 DEF BuildCase
<1> QED
  BY <1>2, <1>3, <1>4, <1>5, <1>6, <1>7, <1>8, <1>9, <1>10 DEF BuildAct, BuildStep

-----------------------------------------------------------------------------
(* Traces, as long as nothing is deleted. *)

(* What makes TracesPrecedeRows inductive: a draft has the traces of the model *)
(* calls it went through, and whoever may write a row back has its traces.    *)
TracesInv ==
  /\ TracesPrecedeRows
  /\ \A b \in Builder :
       /\ build[b].stage = "verifying" => <<build[b].id, "summarizer">> \in traces
       /\ build[b].stage = "saving" => {build[b].id} \X Component \subseteq traces
  /\ \A v \in Verifier : audit[v] # IdleAudit => {audit[v].id} \X Component \subseteq traces

LEMMA UpsertTraced ==
  ASSUME TypeInv, TracesPrecedeRows, NEW n \in Node, NEW row, Upsert(n, row),
         traces \subseteq traces', n \in Summary => {n} \X Component \subseteq traces
  PROVE  TracesPrecedeRows'
<1> SUFFICES ASSUME NEW s \in Summary, Stored(s)'
             PROVE  {s} \X Component \subseteq traces'
  BY DEF TracesPrecedeRows
<1>1. CASE s = n
  BY <1>1
<1>2. CASE s # n
  <2>1. rows'[s] = rows[s]
    BY <1>2, UpsertOther DEF TypeInv, TypeOK, Node
  <2> QED
    BY <2>1 DEF TracesPrecedeRows, Stored
<1> QED
  BY <1>1, <1>2

LEMMA BuildTraced ==
  ASSUME TypeInv, TracesInv, NEW b \in Builder, BuildAct(b) PROVE TracesInv'
<1> DEFINE x == build[b]
           y == build'[b]
           Drafted == /\ y.stage = "verifying" => <<y.id, "summarizer">> \in traces'
                      /\ y.stage = "saving" => {y.id} \X Component \subseteq traces'
<1>0. /\ x \in BuildLocals /\ BuildOK(x) /\ BuildCase(b, x, y)
      /\ OthersKept(b) /\ UNCHANGED <<audit, marks, wipe>>
  BY BuildCases, CallLocals
<1>1. SUFFICES traces \subseteq traces' /\ Drafted /\ TracesPrecedeRows'
  <2>1. \A d \in Builder : d # b => build'[d] = build[d]
    BY <1>0 DEF OthersKept
  <2> QED
    BY <1>0, <1>1, <2>1 DEF TracesInv
<1>2. /\ x.stage = "verifying" => <<x.id, "summarizer">> \in traces
      /\ x.stage = "saving" => {x.id} \X Component \subseteq traces
      /\ TracesPrecedeRows
  BY DEF TracesInv
<1>3. ASSUME UNCHANGED rows, traces \subseteq traces' PROVE TracesPrecedeRows'
  BY <1>2, <1>3 DEF TracesPrecedeRows, Stored
<1>4. CASE TablesKept /\ y.stage \notin {"verifying", "saving"}
  BY <1>3, <1>4 DEF TablesKept
<1>5. CASE \E s \in Summary, v \in Nat : Generates(x, y, s, v) /\ UNCHANGED rows
  <2>1. PICK s \in Summary, v \in Nat : Generates(x, y, s, v) /\ UNCHANGED rows
    BY <1>5
  <2>2. traces' = traces \cup {<<s, "summarizer">>} /\ y.stage = "verifying" /\ y.id = s
    BY <2>1 DEF Generates, Trace
  <2> QED
    BY <1>3, <2>1, <2>2
<1>6. CASE (Accepts(x, y) \/ Rejects(x, y)) /\ UNCHANGED rows
  <2>1. traces' = traces \cup {<<x.id, "verifier">>} /\ x.stage = "verifying"
    BY <1>6 DEF Accepts, Rejects, Trace
  <2>2. Accepts(x, y) => y.stage = "saving" /\ y.id = x.id
    BY DEF Accepts
  <2>3. Rejects(x, y) => y.stage = "clusters"
    BY DEF Rejects
  <2>4. {x.id} \X Component \subseteq traces'
    BY <1>2, <2>1 DEF Component
  <2> QED
    BY <1>3, <1>6, <2>1, <2>2, <2>3, <2>4
<1>7. CASE Saves(x, y) /\ UNCHANGED traces
  <2>1. /\ x.stage = "saving" /\ Upsert(x.id, x.row) /\ y.stage = "linking"
        /\ x.id \in Node
    BY <1>0, <1>7 DEF Saves, BuildOK, Node
  <2> QED
    BY <1>2, <1>7, <2>1, UpsertTraced
<1>8. CASE (\E l \in Leaf, row \in Row : LinksLeaf(x, y, l, row)) /\ UNCHANGED traces
  <2>1. PICK l \in Leaf, row \in Row : LinksLeaf(x, y, l, row)
    BY <1>8
  <2>2. l \in Node /\ l \notin Summary /\ Upsert(l, row) /\ y.stage = "linking"
    BY <2>1, NodesAssumption DEF LinksLeaf, Node
  <2> QED
    BY <1>2, <1>8, <2>2, UpsertTraced
<1>9. /\ Lists(x, y) \/ Finishes(x, y) \/ y = IdleBuild => y.stage \notin {"verifying", "saving"}
      /\ \A c, s : Reuses(x, y, c, s) \/ Starts(x, y, c) => y.stage \notin {"verifying", "saving"}
  BY DEF Lists, Finishes, IdleBuild, NewCall, Reuses, Starts
<1> QED
  BY <1>0, <1>4, <1>5, <1>6, <1>7, <1>8, <1>9 DEF BuildCase

LEMMA VerifyJobTraced ==
  ASSUME TypeInv, TracesInv, NEW v \in Verifier, VerifyJob(v) PROVE TracesInv'
<1>0. UNCHANGED build /\ \A w \in Verifier : w # v => audit'[w] = audit[w]
  BY VerifyJobSteps DEF VerifyJob, VerifyJobReads, VerifyJobWrites, VerifyJobMissesRow,
     VerifyJobFails, TypeInv, TypeOK
<1>1. SUFFICES /\ traces \subseteq traces' /\ TracesPrecedeRows'
               /\ audit'[v] # IdleAudit => {audit'[v].id} \X Component \subseteq traces'
  BY <1>0, <1>1 DEF TracesInv
<1>2. CASE VerifyJobReads(v)
  <2>1. PICK s \in Summary : /\ Stored(s) /\ UNCHANGED store
                             /\ audit' = [audit EXCEPT ![v] = [id |-> s, row |-> rows[s]]]
    BY <1>2 DEF VerifyJobReads
  <2>2. audit'[v].id = s /\ {s} \X Component \subseteq traces /\ UNCHANGED <<rows, traces>>
    BY <2>1 DEF TypeInv, TypeOK, TracesInv, TracesPrecedeRows, store
  <2> QED
    BY <2>2 DEF TracesInv, TracesPrecedeRows, Stored
<1>3. CASE VerifyJobWrites(v)
  <2>1. PICK q \in Verdict : Upsert(audit[v].id, Audited(audit[v].row, q))
    BY <1>3 DEF VerifyJobWrites
  <2>2. /\ audit[v] # IdleAudit /\ traces \subseteq traces' /\ audit'[v] = IdleAudit
    BY <1>3 DEF VerifyJobWrites, Trace, TypeInv, TypeOK
  <2>3. audit[v].id \in Node /\ {audit[v].id} \X Component \subseteq traces
    BY <2>2, AuditedRow DEF TracesInv, Node
  <2> QED
    BY <2>1, <2>2, <2>3, UpsertTraced DEF TracesInv
<1>4. CASE VerifyJobMissesRow(v) \/ VerifyJobFails(v)
  <2>1. audit'[v] = IdleAudit /\ UNCHANGED rows /\ traces \subseteq traces'
    BY <1>4 DEF VerifyJobMissesRow, UpsertMissesRow, VerifyJobFails, Trace, TypeInv, TypeOK, store
  <2> QED
    BY <2>1 DEF TracesInv, TracesPrecedeRows, Stored
<1> QED
  BY <1>2, <1>3, <1>4 DEF VerifyJob

LEMMA NextTraced ==
  ASSUME Deleter = {}, TypeInv, TracesInv, [Next]_vars PROVE TracesInv'
<1>1. ASSUME NEW l \in Leaf, WriteL0(l) PROVE TracesInv'
  <2>1. PICK row : Upsert(l, row)
    BY <1>1 DEF WriteL0
  <2>2. l \in Node /\ l \notin Summary /\ UNCHANGED <<traces, build, audit>>
    BY <1>1, NodesAssumption DEF WriteL0, Node
  <2>3. TracesPrecedeRows'
    BY <2>1, <2>2, UpsertTraced DEF TracesInv
  <2> QED
    BY <2>2, <2>3 DEF TracesInv
<1>2. ASSUME NEW r \in Refresher, Refresh(r) PROVE TracesInv'
  <2>1. UNCHANGED <<traces, build, audit>>
    BY <1>2, RefreshSteps
  <2>2. \A s \in Summary : Stored(s)' => Stored(s)
    BY <1>2, RefreshSteps, MarkStaleKeeps DEF TypeInv, TypeOK, Stored, Node
  <2> QED
    BY <2>1, <2>2 DEF TracesInv, TracesPrecedeRows
<1>3. CASE UNCHANGED vars
  BY <1>3 DEF TracesInv, TracesPrecedeRows, Stored, vars
<1> QED
  BY <1>1, <1>2, <1>3, BuildTraced, VerifyJobTraced DEF Next, BuildAct

(* As long as nothing is deleted, every stored summary has the traces of both *)
(* model calls that made it, however many builds and verify_jobs overlap and *)
(* wherever a build stops.                                                   *)
THEOREM TracesFirst ==
  ASSUME Deleter = {} PROVE Spec => []TracesPrecedeRows
<1> DEFINE IInv == TypeInv /\ TracesInv
<1>1. Init => IInv
  <2>1. Init => TracesInv
    BY DEF Init, TracesInv, TracesPrecedeRows, Stored, Node, IdleBuild, NewCall
  <2> QED
    BY <2>1, InitTyped
<1>2. IInv /\ [Next]_vars => IInv'
  BY NextTyped, NextTraced
<1>3. IInv => TracesPrecedeRows
  BY DEF TracesInv
<1> QED
  BY <1>1, <1>2, <1>3, PTL DEF Spec

-----------------------------------------------------------------------------
(* The row of a leaf is written by write_l0 and the backfill alone. *)
NewLeafRow == [parents |-> {}, children |-> {}, version |-> 1,
               stale |-> FALSE, quality |-> "verified"]

BackfillOf(b, l) == \E row \in Row :
  LinksLeaf(build[b], build'[b], l, row) /\ rows'[l] = row

LEMMA LeafRowSteps ==
  ASSUME TypeInv, [Next]_vars, NEW l \in Leaf
  PROVE  \/ rows'[l] = rows[l]
         \/ rows'[l] = NoRow /\ Deleter # {}
         \/ rows'[l] = NewLeafRow /\ WriteL0(l)
         \/ \E b \in Builder : BackfillOf(b, l)
<1> DEFINE Goal == \/ rows'[l] = rows[l]
                   \/ rows'[l] = NoRow /\ Deleter # {}
                   \/ rows'[l] = NewLeafRow /\ WriteL0(l)
                   \/ \E b \in Builder : BackfillOf(b, l)
<1>0. l \in Node /\ l \notin Summary /\ rows \in [Node -> Row \cup {NoRow}]
  BY NodesAssumption DEF Node, TypeInv, TypeOK
<1>1. ASSUME NEW k \in Leaf, WriteL0(k) PROVE Goal
  <2>1. Upsert(k, NewLeafRow) /\ NewLeafRow \in Row /\ k \in Node
    BY <1>1 DEF WriteL0, NewLeafRow, Row, Quality, Verdict, Node
  <2> QED
    BY <1>0, <1>1, <2>1, UpsertSame, UpsertOther
<1>2. ASSUME NEW b \in Builder, BuildAct(b) PROVE Goal
  <2> DEFINE x == build[b]
             y == build'[b]
  <2>0. BuildCase(b, x, y) /\ x \in BuildLocals /\ BuildOK(x)
    BY <1>2, BuildCases, CallLocals
  <2>1. CASE Saves(x, y)
    <3>1. x.id \in Summary /\ Upsert(x.id, x.row)
      BY <2>0, <2>1 DEF Saves, BuildOK
    <3> QED
      BY <1>0, <3>1, UpsertOther
  <2>2. CASE \E k \in Leaf, row \in Row : LinksLeaf(x, y, k, row)
    <3>1. PICK k \in Leaf, row \in Row : LinksLeaf(x, y, k, row)
      BY <2>2
    <3>2. k \in Node /\ Upsert(k, row)
      BY <3>1 DEF LinksLeaf, Node
    <3>3. CASE k = l
      <4>1. rows'[l] = row
        BY <1>0, <3>2, <3>3, UpsertSame
      <4> QED
        BY <3>1, <3>3, <4>1 DEF BackfillOf
    <3>4. CASE k # l
      BY <1>0, <3>2, <3>4, UpsertOther
    <3> QED
      BY <3>3, <3>4
  <2>3. CASE UNCHANGED rows
    BY <2>3
  <2> QED
    BY <2>0, <2>1, <2>2, <2>3 DEF BuildCase, TablesKept
<1>3. ASSUME NEW v \in Verifier, VerifyJob(v) PROVE Goal
  <2>1. CASE VerifyJobWrites(v)
    <3>1. PICK q \in Verdict : Upsert(audit[v].id, Audited(audit[v].row, q))
      BY <2>1 DEF VerifyJobWrites
    <3>2. audit[v].id \in Summary
      BY <2>1, AuditedRow, <3>1 DEF VerifyJobWrites
    <3> QED
      BY <1>0, <3>1, <3>2, UpsertOther
  <2>2. CASE ~VerifyJobWrites(v)
    BY <1>3, <2>2, VerifyJobRows
  <2> QED
    BY <2>1, <2>2
<1>4. ASSUME NEW r \in Refresher, Refresh(r) PROVE Goal
  <2>1. marks[r] \subseteq Summary
    BY DEF TypeInv, TypeOK
  <2> QED
    BY <1>0, <1>4, <2>1, RefreshSteps DEF MarkStale
<1>5. ASSUME NEW d \in Deleter, DeleteAgentData(d) PROVE Goal
  BY <1>0, <1>5, DeleteSteps
<1>6. CASE UNCHANGED vars
  BY <1>6 DEF vars
<1> QED
  BY <1>1, <1>2, <1>3, <1>4, <1>5, <1>6 DEF Next, BuildAct

(* What a step does to the locals of one build. *)
LEMMA CallSteps ==
  ASSUME TypeInv, [Next]_vars, NEW b \in Builder
  PROVE  build'[b] = build[b] \/ BuildCase(b, build[b], build'[b])
<1>1. ASSUME NEW d \in Builder, BuildAct(d)
      PROVE  build'[b] = build[b] \/ BuildCase(b, build[b], build'[b])
  <2>1. BuildCase(d, build[d], build'[d]) /\ OthersKept(d)
    BY <1>1, BuildCases
  <2> QED
    BY <2>1 DEF OthersKept, BuildCase
<1> QED
  BY <1>1, VerifyJobSteps, RefreshSteps, DeleteSteps DEF Next, BuildAct, WriteL0, vars

-----------------------------------------------------------------------------
(* No cluster is dropped, as long as nothing is deleted. *)

(* A leaf is never stale, so a build that lists the leaves that are not stale  *)
(* lists every leaf.                                                         *)
Fresh(row) == row # NoRow => ~row.stale

LeavesFresh ==
  /\ \A l \in Leaf : Fresh(rows[l])
  /\ \A b \in Builder : \A l \in Leaf : Fresh(build[b].copy[l])

Listed(x) == {l \in Leaf : x.copy[l] # NoRow}
CoveredBy(S, c) == \E s \in S : Stored(s) /\ rows[s].children = c

Accounted(x) ==
  \A c \in Clusters[Listed(x)] : ShouldSummarize(c) =>
    c \in x.todo \cup x.rejected \/ CoveredBy(x.built, c)

ClustersInv == LinksInv /\ LeavesFresh /\ \A b \in Builder : Accounted(build[b])

LEMMA BackfillFresh ==
  ASSUME TypeInv, LeavesFresh, NEW b \in Builder, NEW l \in Leaf, NEW row \in Row,
         LinksLeaf(build[b], build'[b], l, row)
  PROVE  /\ Fresh(row) /\ build[b].copy[l] \in Row /\ row.parents = build[b].copy[l].parents \cup {build[b].id}
         /\ build'[b].copy[l] = row
         /\ \A k \in Leaf : k # l => build'[b].copy[k] = build[b].copy[k]
<1>0. build[b] \in BuildLocals /\ BuildOK(build[b]) /\ l \in build[b].pending
  BY CallLocals DEF LinksLeaf
<1>1. build[b].copy[l] \in Row
  BY <1>0, BackfilledRow
<1>2. row = [build[b].copy[l] EXCEPT !.parents = @ \cup {build[b].id}]
  BY DEF LinksLeaf
<1>3. row.stale = build[b].copy[l].stale /\ row.parents = build[b].copy[l].parents \cup {build[b].id}
  BY <1>1, <1>2 DEF Row
<1>4. build[b].copy[l] # NoRow
  BY <1>1, NodesAssumption
<1>5. build'[b].copy = [build[b].copy EXCEPT ![l] = row]
      /\ build[b].copy \in [Leaf -> Row \cup {NoRow}]
  BY <1>0 DEF LinksLeaf, BuildLocals
<1> QED
  BY <1>1, <1>3, <1>4, <1>5 DEF LeavesFresh, Fresh

LEMMA NextFresh ==
  ASSUME TypeInv, LeavesFresh, [Next]_vars PROVE LeavesFresh'
<1>1. ASSUME NEW l \in Leaf PROVE Fresh(rows'[l])
  <2>1. CASE \E b \in Builder : BackfillOf(b, l)
    BY <2>1, BackfillFresh DEF BackfillOf
  <2>2. Fresh(NewLeafRow) /\ Fresh(NoRow) /\ Fresh(rows[l])
    BY DEF Fresh, NewLeafRow, LeavesFresh
  <2> QED
    BY <2>1, <2>2, LeafRowSteps
<1>2. ASSUME NEW b \in Builder, NEW l \in Leaf PROVE Fresh(build'[b].copy[l])
  <2> DEFINE x == build[b]
             y == build'[b]
  <2>1. CASE y.copy = x.copy
    BY <2>1 DEF LeavesFresh
  <2>2. CASE Lists(x, y)
    BY <2>2 DEF Lists, LeavesFresh
  <2>3. CASE \E k \in Leaf, row \in Row : LinksLeaf(x, y, k, row)
    BY <2>3, BackfillFresh DEF LeavesFresh
  <2>4. CASE y = IdleBuild
    BY <2>4 DEF IdleBuild, NewCall, Fresh
  <2> QED
    BY <2>1, <2>2, <2>3, <2>4, CallSteps
    DEF BuildCase, Reuses, Starts, Generates, Accepts, Rejects, Saves, Finishes
<1> QED
  BY <1>1, <1>2 DEF LeavesFresh, Fresh

(* What is accounted for stays so while the call stands still. *)
LEMMA CoveredKept ==
  ASSUME Deleter = {}, IdentityInv, [Next]_vars, NEW S \in SUBSET Summary, NEW c, CoveredBy(S, c)
  PROVE  CoveredBy(S, c)'
<1>1. PICK s \in S : Stored(s) /\ rows[s].children = c
  BY DEF CoveredBy
<1>2. Stored(s)' /\ rows'[s].children = c
  BY <1>1, CoversKept
<1> QED
  BY <1>2 DEF CoveredBy, Stored

(* A call with the same copies that kept everything it had, or that accounts  *)
(* for one more cluster.                                                     *)
LEMMA AccountedMoves ==
  ASSUME Deleter = {}, IdentityInv, [Next]_vars,
         NEW x \in BuildLocals, Accounted(x), NEW y, NEW c,
         Listed(y) = Listed(x), x.todo \ {c} \subseteq y.todo,
         x.rejected \subseteq y.rejected, x.built \subseteq y.built, y.built \subseteq Summary,
         c \in y.todo \cup y.rejected \/ CoveredBy(y.built, c)'
  PROVE  Accounted(y)'
<1> SUFFICES ASSUME NEW e \in Clusters[Listed(y)], ShouldSummarize(e),
                    e \notin y.todo \cup y.rejected
             PROVE  CoveredBy(y.built, e)'
  BY DEF Accounted, Listed, ShouldSummarize, CoveredBy
<1>1. e \in x.todo \cup x.rejected \/ CoveredBy(x.built, e)
  BY DEF Accounted
<1>2. CASE e = c
  BY <1>2
<1>3. CASE e # c
  <2>1. CoveredBy(y.built, e)
    BY <1>1, <1>3 DEF CoveredBy
  <2> QED
    BY <2>1, CoveredKept
<1> QED
  BY <1>2, <1>3

LEMMA NextAccounted ==
  ASSUME Deleter = {}, ClustersInv, [Next]_vars, NEW b \in Builder
  PROVE  Accounted(build[b])'
<1>a. TypeInv /\ TypeInv' /\ IdentityInv
  BY NextTyped DEF ClustersInv, LinksInv, IdentityInv
<1>b. PICK x \in BuildLocals : x = build[b]
  BY <1>a, CallLocals
<1>c. PICK y \in BuildLocals : y = build'[b]
  BY <1>a DEF TypeInv, TypeOK
<1>0. BuildOK(x) /\ CallLinked(x) /\ Accounted(x)
  BY <1>a, <1>b, CallLocals DEF ClustersInv, LinksInv
<1>1. y = x \/ BuildCase(b, x, y)
  BY <1>a, <1>b, <1>c, CallSteps
<1>2. SUFFICES Accounted(y)'
  BY <1>c DEF Accounted, Listed, CoveredBy, ShouldSummarize, Stored
<1>3. x.built \subseteq Summary /\ y.built \subseteq Summary
  BY DEF BuildLocals
<1>4. ASSUME NEW c, y.copy = x.copy, x.todo \ {c} \subseteq y.todo,
             x.rejected \subseteq y.rejected, x.built \subseteq y.built,
             c \in y.todo \cup y.rejected \/ CoveredBy(y.built, c)'
      PROVE  Accounted(y)'
  BY <1>a, <1>0, <1>3, <1>4, AccountedMoves DEF Listed
<1>5. ASSUME y.copy = x.copy, x.todo \subseteq y.todo,
             x.rejected \subseteq y.rejected, x.built \subseteq y.built
      PROVE  Accounted(y)'
  <2>1. CASE x.todo = {}
    <3>1. ASSUME NEW e \in Clusters[Listed(y)], ShouldSummarize(e), e \notin y.todo \cup y.rejected
          PROVE  CoveredBy(y.built, e)'
      <4>1. e \in x.todo \cup x.rejected \/ CoveredBy(x.built, e)
        BY <1>0, <1>5, <3>1 DEF Accounted, Listed
      <4>2. CoveredBy(y.built, e)
        BY <1>5, <3>1, <4>1 DEF CoveredBy
      <4> QED
        BY <1>a, <1>3, <4>2, CoveredKept
    <3> QED
      BY <3>1 DEF Accounted, Listed, ShouldSummarize, CoveredBy
  <2>2. CASE x.todo # {}
    BY <1>4, <1>5, <2>2
  <2> QED
    BY <2>1, <2>2
<1>6. CASE y = x
  BY <1>5, <1>6
<1>7. CASE Lists(x, y)
  <2>1. \A l \in Leaf : y.copy[l] = rows[l] /\ (Live(l) <=> rows[l] # NoRow)
    BY <1>7 DEF Lists, Live, Stored, ClustersInv, LeavesFresh, Fresh
  <2>2. Listed(y) = {l \in Leaf : Live(l)}
    BY <2>1 DEF Listed
  <2>3. y.todo = {c \in Clusters[{l \in Leaf : Live(l)}] : ShouldSummarize(c)}
    BY <1>7 DEF Lists
  <2>4. \A e \in Clusters[Listed(y)] : ShouldSummarize(e) => e \in y.todo
    BY <2>2, <2>3
  <2> QED
    BY <2>4 DEF Accounted, Listed, ShouldSummarize
<1>8. CASE (\E c \in x.todo, s \in Summary : Reuses(x, y, c, s)) /\ TablesKept
  <2>1. PICK c \in x.todo, s \in Summary : Reuses(x, y, c, s)
    BY <1>8
  <2>2. Stored(s) /\ rows[s].children = c /\ s \in y.built
    BY <2>1 DEF Reuses, ExistingSummary, Live
  <2>3. CoveredBy(y.built, c)'
    BY <1>8, <2>2 DEF CoveredBy, TablesKept, Stored
  <2> QED
    BY <1>4, <2>1, <2>3 DEF Reuses
<1>9. CASE \E c, s, v : Starts(x, y, c) \/ Generates(x, y, s, v) \/ Accepts(x, y) \/ Saves(x, y)
  BY <1>5, <1>9 DEF Starts, Generates, Accepts, Saves
<1>10. CASE Rejects(x, y)
  BY <1>4, <1>10 DEF Rejects
<1>11. CASE \E l \in Leaf, row \in Row : LinksLeaf(x, y, l, row)
  <2>1. PICK l \in Leaf, row \in Row : LinksLeaf(x, y, l, row)
    BY <1>11
  <2>2. Listed(y) = Listed(x)
    BY <1>a, <1>b, <1>c, <2>1, BackfillFresh, NodesAssumption DEF Listed, ClustersInv
  <2>3. y.todo = x.todo /\ y.built = x.built /\ y.rejected = x.rejected /\ x.cluster \in y.todo
    BY <1>0, <2>1 DEF LinksLeaf, BuildOK
  <2> QED
    BY <1>a, <1>0, <1>3, <2>2, <2>3, AccountedMoves
<1>12. CASE Finishes(x, y) /\ TablesKept
  <2>1. Stored(x.id) /\ rows[x.id].children = x.cluster /\ x.id \in y.built
    BY <1>0, <1>12 DEF Finishes, CallLinked
  <2>2. CoveredBy(y.built, x.cluster)'
    BY <1>12, <2>1 DEF CoveredBy, TablesKept, Stored
  <2> QED
    BY <1>4, <1>12, <2>2 DEF Finishes
<1>13. CASE y = IdleBuild
  <2>1. Listed(y) = {}
    BY <1>13 DEF IdleBuild, NewCall, Listed
  <2>2. Clusters[{}] = {}
    <3>1. {} \in SUBSET Leaf
      OBVIOUS
    <3>2. UNION Clusters[{}] = {} /\ {} \notin Clusters[{}]
      BY <3>1, ClustersAssumption
    <3> QED
      BY <3>2
  <2> QED
    BY <2>1, <2>2 DEF Accounted, Listed
<1> QED
  BY <1>1, <1>6, <1>7, <1>8, <1>9, <1>10, <1>11, <1>12, <1>13 DEF BuildCase

LEMMA InitLinks == Init => LinksInv
<1>1. Init => LinksSound
  BY DEF Init, LinksSound, Stored, Node
<1>2. Init => \A b \in Builder : CallLinked(build[b])
  BY DEF Init, CallLinked, IdleBuild, NewCall
<1> QED
  BY <1>1, <1>2, InitTyped, InitOwned, InitAgrees DEF LinksInv, IdentityInv

LEMMA InitFresh == Init => LeavesFresh
BY DEF Init, LeavesFresh, Fresh, IdleBuild, NewCall, Node

LEMMA InitAccounted == Init => \A b \in Builder : Accounted(build[b])
<1> SUFFICES ASSUME Init, NEW b \in Builder PROVE Accounted(build[b])
  OBVIOUS
<1>1. Listed(build[b]) = {}
  BY DEF Init, IdleBuild, NewCall, Listed
<1>2. {} \in SUBSET Leaf
  OBVIOUS
<1>3. UNION Clusters[{}] = {} /\ {} \notin Clusters[{}]
  BY <1>2, ClustersAssumption
<1>4. Clusters[{}] = {}
  BY <1>3
<1> QED
  BY <1>1, <1>4 DEF Accounted

(* As long as nothing is deleted, whatever overlaps and wherever builds stop,  *)
(* each cluster a build started from that deserves a summary is still to do, *)
(* was rejected by the verifier, or is covered by a stored summary the build *)
(* returns.                                                                  *)
THEOREM ClustersAccounted ==
  ASSUME Deleter = {} PROVE Spec => []NoClusterDropped
<1>1. Init => ClustersInv
  BY InitLinks, InitFresh, InitAccounted DEF ClustersInv
<1>2. ClustersInv /\ [Next]_vars => ClustersInv'
  <2> SUFFICES ASSUME ClustersInv, [Next]_vars PROVE ClustersInv'
    OBVIOUS
  <2>1. LinksInv' /\ LeavesFresh'
    BY NextLinked, NextFresh DEF ClustersInv, LinksInv, IdentityInv
  <2>2. \A b \in Builder : Accounted(build[b])'
    BY NextAccounted
  <2> QED
    BY <2>1, <2>2 DEF ClustersInv
<1>3. ClustersInv => NoClusterDropped
  BY DEF ClustersInv, NoClusterDropped, Accounted, Listed, CoveredBy
<1> QED
  BY <1>1, <1>2, <1>3, PTL DEF Spec

-----------------------------------------------------------------------------
(* Rows of summaries, as long as nothing is deleted. *)

(* A verify_job writes back a row that is still there. *)
AuditsStored == \A v \in Verifier : audit[v] # IdleAudit => Stored(audit[v].id)

LEMMA InitAuditsStored == Init => AuditsStored
BY DEF Init, AuditsStored

LEMMA NextAuditsStored ==
  ASSUME Deleter = {}, TypeInv, AuditsStored, [Next]_vars PROVE AuditsStored'
<1> SUFFICES ASSUME NEW v \in Verifier, audit'[v] # IdleAudit
             PROVE  rows'[audit'[v].id] # NoRow
  BY DEF AuditsStored, Stored
<1>0. PICK n \in Summary : n = audit'[v].id
  <2>1. TypeInv'
    BY NextTyped
  <2> QED
    BY <2>1 DEF TypeInv, TypeOK, LocalsOK, AuditOK
<1>1. CASE audit'[v] = audit[v]
  <2>1. Stored(n)
    <3>1. audit[v] # IdleAudit /\ audit[v].id = n
      BY <1>0, <1>1
    <3> QED
      BY <3>1 DEF AuditsStored
  <2> QED
    BY <1>0, <2>1, StoredKept DEF Stored, Node
<1>2. CASE audit'[v] # audit[v]
  <2>1. PICK w \in Verifier : VerifyJob(w)
    BY <1>2, AuditsLeftAlone
  <2>2. VerifyJobReads(w)
    BY <1>2, <2>1 DEF VerifyJob, VerifyJobWrites, VerifyJobMissesRow, VerifyJobFails, TypeInv, TypeOK
  <2>3. PICK s \in Summary : /\ Stored(s) /\ UNCHANGED rows
                             /\ audit' = [audit EXCEPT ![w] = [id |-> s, row |-> rows[s]]]
    BY <2>2 DEF VerifyJobReads, store
  <2>4. audit'[v].id = s
    BY <1>2, <2>3 DEF TypeInv, TypeOK
  <2> QED
    BY <2>3, <2>4 DEF Stored
<1> QED
  BY <1>1, <1>2

(* A summary that comes into being is the one a build saves. *)
LEMMA PublishedBySave ==
  ASSUME TypeInv, AuditsStored, [Next]_vars, NEW s \in Summary, ~Stored(s), Stored(s)'
  PROVE  \E b \in Builder : Saves(build[b], build'[b]) /\ build[b].id = s
<1>0. /\ s \in Node /\ s \notin Leaf /\ rows \in [Node -> Row \cup {NoRow}]
      /\ rows'[s] # rows[s] /\ rows[s] = NoRow
  BY NodesAssumption DEF Node, Stored, TypeInv, TypeOK
<1>1. \A l \in Leaf : ~WriteL0(l)
  BY <1>0, UpsertOther DEF WriteL0
<1>2. \A r \in Refresher : ~Refresh(r)
  BY <1>0, RefreshSteps, MarkStaleKeeps DEF Stored
<1>3. ASSUME NEW v \in Verifier, VerifyJob(v) PROVE FALSE
  <2>1. VerifyJobWrites(v)
    BY <1>0, <1>3, VerifyJobRows
  <2>2. PICK q \in Verdict : Upsert(audit[v].id, Audited(audit[v].row, q))
    BY <2>1 DEF VerifyJobWrites
  <2>3. audit[v].id # s
    BY <2>1 DEF VerifyJobWrites, AuditsStored
  <2> QED
    BY <1>0, <2>2, <2>3, UpsertOther
<1>4. \A d \in Deleter : ~DeleteAgentData(d)
  BY <1>0, DeleteSteps
<1>5. ASSUME NEW b \in Builder, BuildAct(b)
      PROVE  Saves(build[b], build'[b]) /\ build[b].id = s
  <2>1. BuildCase(b, build[b], build'[b])
    BY <1>5, BuildCases
  <2>2. \A l \in Leaf, row \in Row : ~LinksLeaf(build[b], build'[b], l, row)
    BY <1>0, UpsertOther DEF LinksLeaf
  <2>3. Saves(build[b], build'[b])
    BY <1>0, <2>1, <2>2 DEF BuildCase, TablesKept
  <2> QED
    BY <1>0, <2>3, UpsertOther DEF Saves
<1>6. ~UNCHANGED vars
  BY <1>0 DEF vars
<1> QED
  BY <1>1, <1>2, <1>3, <1>4, <1>5, <1>6 DEF Next, BuildAct

-----------------------------------------------------------------------------
(* Links, with one builder at a time, no crash and no deletion. *)
OneBuilder == \A b, d \in Builder : b = d

LeavesDrawn == \A l \in Leaf : Stored(l) => l \in used

(* Nobody but the builder writes the rows it copied. *)
CopiesCurrent ==
  \A b \in Builder : \A l \in Leaf :
    build[b].copy[l] # NoRow => rows[l] = build[b].copy[l]

BacklinksInv ==
  LinksInv /\ AuditsStored /\ LeavesDrawn /\ CopiesCurrent /\ BacklinksComplete

LEMMA UsedGrows == ASSUME TypeInv, [Next]_vars PROVE used \subseteq used'
<1>1. ASSUME NEW b \in Builder, BuildAct(b) PROVE used \subseteq used'
  <2>1. BuildCase(b, build[b], build'[b])
    BY <1>1, BuildCases
  <2> QED
    BY <2>1 DEF BuildCase, Generates, TablesKept
<1> QED
  BY <1>1, VerifyJobSteps, RefreshSteps, DeleteSteps DEF Next, BuildAct, WriteL0, vars

LEMMA NextLeavesDrawn ==
  ASSUME TypeInv, LeavesDrawn, CopiesCurrent, [Next]_vars PROVE LeavesDrawn'
<1> SUFFICES ASSUME NEW l \in Leaf, rows'[l] # NoRow PROVE l \in used'
  BY DEF LeavesDrawn, Stored
<1>1. CASE rows'[l] = rows[l]
  BY <1>1, UsedGrows DEF LeavesDrawn, Stored
<1>2. CASE WriteL0(l)
  BY <1>2 DEF WriteL0
<1>3. ASSUME NEW b \in Builder, BackfillOf(b, l) PROVE l \in used'
  <2>1. l \in build[b].pending
    BY <1>3 DEF BackfillOf, LinksLeaf
  <2>2. build[b].copy[l] # NoRow
    BY <2>1, BackfilledRow, NodesAssumption
  <2> QED
    BY <2>2, UsedGrows DEF CopiesCurrent, LeavesDrawn, Stored
<1> QED
  BY <1>1, <1>2, <1>3, LeafRowSteps

(* A backfill appends to the parents the leaf has in the store. *)
LEMMA BackfillAppends ==
  ASSUME TypeInv, CopiesCurrent, NEW b \in Builder, NEW l \in Leaf, BackfillOf(b, l)
  PROVE  /\ Stored(l) /\ rows'[l] # NoRow /\ build'[b].copy[l] = rows'[l]
         /\ rows'[l].parents = rows[l].parents \cup {build[b].id}
<1>1. PICK row \in Row : LinksLeaf(build[b], build'[b], l, row) /\ rows'[l] = row
  BY DEF BackfillOf
<1>2. build[b].copy[l] \in Row /\ build[b] \in BuildLocals
  BY <1>1, BackfilledRow, CallLocals DEF LinksLeaf
<1>3. build[b].copy[l] # NoRow /\ row # NoRow
  BY <1>2, NodesAssumption
<1>4. rows[l] = build[b].copy[l]
  BY <1>3 DEF CopiesCurrent
<1>5. row.parents = build[b].copy[l].parents \cup {build[b].id}
  BY <1>1, <1>2 DEF LinksLeaf, Row
<1>6. build'[b].copy[l] = row
  BY <1>1, <1>2 DEF LinksLeaf, BuildLocals
<1> QED
  BY <1>1, <1>3, <1>4, <1>5, <1>6 DEF Stored

LEMMA ParentsKept ==
  ASSUME Deleter = {}, TypeInv, LeavesDrawn, CopiesCurrent, [Next]_vars,
         NEW l \in Leaf, Stored(l)
  PROVE  Stored(l)' /\ rows[l].parents \subseteq rows'[l].parents
<1>1. ~WriteL0(l)
  BY DEF WriteL0, LeavesDrawn
<1>2. CASE rows'[l] = rows[l]
  BY <1>2 DEF Stored
<1>3. CASE \E b \in Builder : BackfillOf(b, l)
  BY <1>3, BackfillAppends DEF Stored
<1> QED
  BY <1>1, <1>2, <1>3, LeafRowSteps

LEMMA NextCopiesCurrent ==
  ASSUME OneBuilder, Deleter = {}, TypeInv, LeavesDrawn, CopiesCurrent, [Next]_vars
  PROVE  CopiesCurrent'
<1> SUFFICES ASSUME NEW b \in Builder, NEW l \in Leaf, build'[b].copy[l] # NoRow
             PROVE  rows'[l] = build'[b].copy[l]
  BY DEF CopiesCurrent
<1> DEFINE x == build[b]
           y == build'[b]
<1>0. x \in BuildLocals
  BY CallLocals
<1>1. CASE BackfillOf(b, l)
  BY <1>1, BackfillAppends
<1>2. CASE ~BackfillOf(b, l)
  <2>1. ASSUME x.copy[l] # NoRow, y.copy[l] = x.copy[l] PROVE rows'[l] = y.copy[l]
    <3>1. rows[l] = x.copy[l] /\ Stored(l)
      BY <2>1 DEF CopiesCurrent, Stored
    <3>2. ~WriteL0(l)
      BY <3>1 DEF WriteL0, LeavesDrawn
    <3>3. ~\E d \in Builder : BackfillOf(d, l)
      BY <1>2 DEF OneBuilder
    <3>4. rows'[l] = rows[l]
      BY <3>2, <3>3, LeafRowSteps
    <3> QED
      BY <2>1, <3>1, <3>4
  <2>2. CASE Lists(x, y) /\ TablesKept
    BY <2>2 DEF Lists, TablesKept
  <2>3. CASE y = IdleBuild
    BY <2>3 DEF IdleBuild, NewCall
  <2>4. CASE \E k \in Leaf, row \in Row : LinksLeaf(x, y, k, row)
    <3>1. PICK k \in Leaf, row \in Row : LinksLeaf(x, y, k, row)
      BY <2>4
    <3>2. k # l
      <4>1. rows'[k] = row
        <5>1. k \in Node /\ Upsert(k, row)
          BY <3>1 DEF LinksLeaf, Node
        <5> QED
          BY <5>1, UpsertSame DEF TypeInv, TypeOK
      <4> QED
        BY <1>2, <3>1, <4>1 DEF BackfillOf
    <3>3. y.copy[l] = x.copy[l]
      BY <1>0, <3>1, <3>2 DEF LinksLeaf, BuildLocals
    <3> QED
      BY <2>1, <3>3
  <2>5. CASE y.copy = x.copy
    BY <2>1, <2>5
  <2> QED
    BY <2>2, <2>3, <2>4, <2>5, CallSteps
    DEF BuildCase, Reuses, Starts, Generates, Accepts, Rejects, Saves, Finishes
<1> QED
  BY <1>1, <1>2

(* A leaf leaves the pending set of a running build by being linked. *)
LEMMA PendingShrinks ==
  ASSUME ~MayCrash, TypeInv, [Next]_vars, NEW b \in Builder, NEW l \in build[b].pending
  PROVE  \/ build'[b].id = build[b].id /\ l \in build'[b].pending
         \/ BackfillOf(b, l)
<1> DEFINE x == build[b]
           y == build'[b]
<1>0. BuildOK(x) /\ x.stage = "linking" /\ x.pending # {} /\ l \in Leaf
  BY BackfilledRow, CallLocals
<1>1. CASE y = x
  BY <1>1
<1>2. CASE \E k \in Leaf, row \in Row : LinksLeaf(x, y, k, row)
  <2>1. PICK k \in Leaf, row \in Row : LinksLeaf(x, y, k, row)
    BY <1>2
  <2>2. rows'[k] = row
    <3>1. k \in Node /\ Upsert(k, row)
      BY <2>1 DEF LinksLeaf, Node
    <3> QED
      BY <3>1, UpsertSame DEF TypeInv, TypeOK
  <2>3. y.id = x.id /\ y.pending = x.pending \ {k}
    BY <2>1 DEF LinksLeaf
  <2> QED
    BY <1>0, <2>1, <2>2, <2>3 DEF BackfillOf
<1>3. ~(y = IdleBuild /\ (MayCrash \/ x.stage \in {"clusters", "generating", "verifying"}))
  BY <1>0
<1> QED
  BY <1>0, <1>1, <1>2, <1>3, CallSteps
  DEF BuildCase, Lists, Reuses, Starts, Generates, Accepts, Rejects, Saves, Finishes

LEMMA NextBacklinks ==
  ASSUME OneBuilder, ~MayCrash, Deleter = {}, BacklinksInv, [Next]_vars
  PROVE  BacklinksComplete'
<1>a. TypeInv /\ IdentityInv /\ AuditsStored /\ LeavesDrawn /\ CopiesCurrent
  BY DEF BacklinksInv, LinksInv, IdentityInv
<1> SUFFICES ASSUME NEW s \in Summary, rows'[s] # NoRow,
                    NEW l \in rows'[s].children,
                    \A b \in Builder : build'[b].id = s => l \notin build'[b].pending
             PROVE  rows'[l] # NoRow /\ s \in rows'[l].parents
  BY DEF BacklinksComplete, Unlinked, Stored
<1>b. l \in Leaf
  <2>1. TypeInv'
    BY <1>a, NextTyped
  <2> QED
    BY <2>1 DEF TypeInv, TypeOK, Node, Row
<1>1. CASE Stored(s)
  <2>1. l \in rows[s].children
    BY <1>1, <1>a, CoversKept
  <2>2. CASE l \in Unlinked(s)
    <3>1. PICK b \in Builder : build[b].id = s /\ l \in build[b].pending
      BY <2>2 DEF Unlinked
    <3>2. BackfillOf(b, l)
      BY <3>1, <1>a, PendingShrinks
    <3> QED
      BY <3>1, <3>2, <1>a, <1>b, BackfillAppends
  <2>3. CASE l \notin Unlinked(s)
    <3>1. Stored(l) /\ s \in rows[l].parents
      BY <1>1, <2>1, <2>3 DEF BacklinksInv, BacklinksComplete
    <3> QED
      BY <3>1, <1>a, <1>b, ParentsKept DEF Stored
  <2> QED
    BY <2>2, <2>3
<1>2. CASE ~Stored(s)
  <2>1. PICK b \in Builder : Saves(build[b], build'[b]) /\ build[b].id = s
    BY <1>2, <1>a, PublishedBySave DEF Stored
  <2>2. rows'[s] = build[b].row
    BY <1>a, <2>1, CallLocals, UpsertSame DEF Saves, BuildOK, TypeInv, TypeOK, Node
  <2>3. build[b].row.children = build[b].cluster
    BY <2>1 DEF Saves, BacklinksInv, LinksInv, CallLinked
  <2>4. build'[b].id = s /\ build'[b].pending = build[b].cluster
    BY <2>1 DEF Saves
  <2> QED
    BY <2>2, <2>3, <2>4
<1> QED
  BY <1>1, <1>2

(* With one builder at a time that is never cut off between saving a summary   *)
(* and linking its leaves, and as long as nothing is deleted, every leaf of a *)
(* stored summary names it as a parent once the build has passed the leaf,   *)
(* whatever verify_job and refresh do meanwhile.                             *)
THEOREM BacklinksAlwaysComplete ==
  ASSUME OneBuilder, ~MayCrash, Deleter = {} PROVE Spec => []BacklinksComplete
<1>1. Init => BacklinksInv
  <2>1. Init => LeavesDrawn /\ CopiesCurrent /\ BacklinksComplete
    BY DEF Init, LeavesDrawn, CopiesCurrent, BacklinksComplete, Stored, Node, IdleBuild, NewCall
  <2> QED
    BY <2>1, InitLinks, InitAuditsStored DEF BacklinksInv
<1>2. BacklinksInv /\ [Next]_vars => BacklinksInv'
  <2> SUFFICES ASSUME BacklinksInv, [Next]_vars PROVE BacklinksInv'
    OBVIOUS
  <2>1. TypeInv /\ LinksInv /\ AuditsStored /\ LeavesDrawn /\ CopiesCurrent
    BY DEF BacklinksInv, LinksInv, IdentityInv
  <2> QED
    BY <2>1, NextLinked, NextAuditsStored, NextLeavesDrawn, NextCopiesCurrent, NextBacklinks
    DEF BacklinksInv
<1>3. BacklinksInv => BacklinksComplete
  BY DEF BacklinksInv
<1> QED
  BY <1>1, <1>2, <1>3, PTL DEF Spec

-----------------------------------------------------------------------------
(* Versions, with one builder at a time and no verify_job. *)

(* No live summary of the cluster a build works on, and a draft is newer than *)
(* every summary of its cluster.                                             *)
DraftNewest(call) ==
  /\ call.stage \in {"generating", "verifying", "saving"} =>
       \A s \in Summary : Live(s) => rows[s].children # call.cluster
  /\ call.stage \in {"verifying", "saving"} =>
       /\ call.row.children = call.cluster
       /\ \A s \in Summary : Stored(s) /\ rows[s].children = call.cluster =>
            rows[s].version < call.row.version

VersionsInv ==
  /\ TypeInv /\ DraftsOwned /\ LiveIsNewest
  /\ \A b \in Builder : DraftNewest(build[b])

RowKept(s) ==
  /\ Stored(s) /\ SameIdentity(rows'[s], rows[s])
  /\ rows[s].stale => rows'[s].stale

SavedBy(b, s) ==
  Saves(build[b], build'[b]) /\ build[b].id = s /\ rows'[s] = build[b].row

LEMMA SummaryKept ==
  ASSUME Verifier = {}, TypeInv, DraftsOwned, [Next]_vars, NEW s \in Summary, Stored(s)'
  PROVE  RowKept(s) \/ \E b \in Builder : SavedBy(b, s)
<1>1. CASE Stored(s)
  <2>1. Flagged(s)
    BY <1>1, SummaryRowSteps DEF WrittenBack, Stored
  <2> QED
    BY <1>1, <2>1 DEF Flagged, RowKept
<1>2. CASE ~Stored(s)
  <2>1. PICK b \in Builder : Saves(build[b], build'[b]) /\ build[b].id = s
    BY <1>2, PublishedBySave DEF AuditsStored
  <2>2. rows'[s] = build[b].row
    BY <2>1, CallLocals, UpsertSame DEF Saves, BuildOK, TypeInv, TypeOK, Node
  <2> QED
    BY <2>1, <2>2 DEF SavedBy
<1> QED
  BY <1>1, <1>2

LEMMA NextLiveNewest ==
  ASSUME OneBuilder, Verifier = {}, VersionsInv, [Next]_vars PROVE LiveIsNewest'
<1>a. TypeInv /\ DraftsOwned /\ LiveIsNewest /\ \A b \in Builder : DraftNewest(build[b])
  BY DEF VersionsInv
<1> SUFFICES ASSUME NEW s \in Summary, NEW t \in Summary, s # t, rows'[s] # NoRow,
                    rows'[t] # NoRow, rows'[s].children = rows'[t].children
             PROVE  /\ rows'[s].version # rows'[t].version
                    /\ ~rows'[s].stale => rows'[s].version > rows'[t].version
  BY DEF LiveIsNewest, Live, Stored
<1>1. /\ RowKept(s) \/ \E b \in Builder : SavedBy(b, s)
      /\ RowKept(t) \/ \E b \in Builder : SavedBy(b, t)
  BY <1>a, SummaryKept DEF Stored
<1>2. CASE RowKept(s) /\ RowKept(t)
  BY <1>a, <1>2 DEF RowKept, SameIdentity, LiveIsNewest, Live
<1>3. ASSUME NEW b \in Builder, SavedBy(b, s), RowKept(t)
      PROVE  rows'[s].version > rows'[t].version
  <2>1. build[b].row.children = build[b].cluster /\ build[b].stage = "saving"
    BY <1>a, <1>3 DEF SavedBy, Saves, DraftNewest
  <2>2. rows[t].children = build[b].cluster /\ Stored(t) /\ rows[t].version = rows'[t].version
    BY <1>3, <2>1 DEF SavedBy, RowKept, SameIdentity
  <2>3. rows[t].version < build[b].row.version
    BY <1>a, <2>1, <2>2 DEF DraftNewest
  <2> QED
    BY <1>3, <2>2, <2>3, <1>a DEF SavedBy
<1>4. ASSUME NEW b \in Builder, SavedBy(b, t), RowKept(s)
      PROVE  rows'[s].version < rows'[t].version /\ rows'[s].stale
  <2>1. build[b].row.children = build[b].cluster /\ build[b].stage = "saving"
    BY <1>a, <1>4 DEF SavedBy, Saves, DraftNewest
  <2>2. rows[s].children = build[b].cluster /\ Stored(s) /\ rows[s].version = rows'[s].version
    BY <1>4, <2>1 DEF SavedBy, RowKept, SameIdentity
  <2>3. rows[s].version < build[b].row.version /\ ~Live(s)
    BY <1>a, <2>1, <2>2 DEF DraftNewest
  <2> QED
    BY <1>4, <2>2, <2>3 DEF SavedBy, RowKept, Live
<1>5. ~\E b, d \in Builder : SavedBy(b, s) /\ SavedBy(d, t)
  BY DEF OneBuilder, SavedBy
<1>6. rows'[s].version \in Nat /\ rows'[t].version \in Nat
  BY <1>a, NextTyped DEF TypeInv, TypeOK, Node, Row
<1> QED
  BY <1>1, <1>2, <1>3, <1>4, <1>5, <1>6

(* A call that stands still keeps its promise as long as nothing is saved. *)
LEMMA DraftNewestKept ==
  ASSUME NEW x, DraftNewest(x), \A s \in Summary : rows'[s] # NoRow => RowKept(s)
  PROVE  DraftNewest(x)'
<1>1. \A s \in Summary : rows'[s] # NoRow =>
        /\ Stored(s) /\ rows'[s].children = rows[s].children
        /\ rows'[s].version = rows[s].version /\ (~rows'[s].stale => Live(s))
  BY DEF RowKept, SameIdentity, Live
<1> QED
  BY <1>1 DEF DraftNewest, Live, Stored

LEMMA NextDraftNewest ==
  ASSUME OneBuilder, Verifier = {}, VersionsInv, [Next]_vars, NEW b \in Builder
  PROVE  DraftNewest(build[b])'
<1>a. TypeInv /\ DraftsOwned /\ TypeInv'
  BY NextTyped DEF VersionsInv
<1>b. PICK x \in BuildLocals : x = build[b] /\ BuildOK(x) /\ DraftNewest(x)
  BY <1>a, CallLocals DEF VersionsInv
<1>c. PICK y \in BuildLocals : y = build'[b]
  BY <1>a DEF TypeInv, TypeOK
<1>1. y = x \/ BuildCase(b, x, y)
  BY <1>a, <1>b, <1>c, CallSteps
<1>2. SUFFICES DraftNewest(y)'
  BY <1>c DEF DraftNewest, Live, Stored
<1>3. CASE y.stage \notin {"generating", "verifying", "saving"}
  BY <1>3 DEF DraftNewest
<1>4. CASE y = x
  <2>1. ~Saves(x, y)
    BY <1>4 DEF Saves
  <2>2. \A s \in Summary : rows'[s] # NoRow => RowKept(s)
    BY <2>1, <1>a, <1>b, <1>c, SummaryKept DEF SavedBy, OneBuilder, Stored
  <2> QED
    BY <1>b, <1>4, <2>2, DraftNewestKept
<1>5. CASE \E c \in x.todo : Starts(x, y, c) /\ UNCHANGED rows
  BY <1>5 DEF Starts, ExistingSummary, DraftNewest, Live, Stored
<1>6. CASE \E s \in Summary, v \in Nat : Generates(x, y, s, v) /\ UNCHANGED rows
  <2>1. PICK s \in Summary, v \in Nat : Generates(x, y, s, v) /\ UNCHANGED rows
    BY <1>6
  <2>2. ASSUME NEW t \in Summary, Stored(t), rows[t].children = x.cluster
        PROVE  rows[t].version < y.row.version
    <3>1. rows[t].version \in VersionsOf(x.cluster)
      BY <2>2 DEF VersionsOf
    <3>2. rows[t].version <= v
      BY <2>1, <3>1 DEF Generates, NewestVersion
    <3>3. rows[t].version \in Nat /\ y.row.version = v + 1
      BY <1>a, <2>1, <2>2 DEF Generates, TypeInv, TypeOK, Stored, Node, Row
    <3> QED
      BY <3>2, <3>3
  <2> QED
    BY <1>b, <2>1, <2>2 DEF Generates, DraftNewest, Live, Stored
<1>7. CASE Accepts(x, y) /\ UNCHANGED rows
  BY <1>b, <1>7 DEF Accepts, DraftNewest, Live, Stored
<1>8. /\ \A c, s : Reuses(x, y, c, s) => y.stage = "clusters"
      /\ \A l, row : LinksLeaf(x, y, l, row) => y.stage = "linking"
      /\ Lists(x, y) \/ Rejects(x, y) \/ Finishes(x, y) => y.stage = "clusters"
      /\ Saves(x, y) => y.stage = "linking"
      /\ y = IdleBuild => y.stage = "idle"
  BY DEF Reuses, LinksLeaf, Lists, Rejects, Finishes, Saves, IdleBuild, NewCall
<1> QED
  BY <1>1, <1>3, <1>4, <1>5, <1>6, <1>7, <1>8 DEF BuildCase, TablesKept

(* With one builder at a time and no verify_job, versions of the summaries of  *)
(* a cluster differ and only the newest can be live, wherever the build stops *)
(* and whatever deletions overlap with it.                                   *)
THEOREM NewestIsLive ==
  ASSUME OneBuilder, Verifier = {} PROVE Spec => []LiveIsNewest
<1>1. Init => VersionsInv
  <2>1. Init => LiveIsNewest /\ \A b \in Builder : DraftNewest(build[b])
    BY DEF Init, LiveIsNewest, DraftNewest, Stored, Node, IdleBuild, NewCall
  <2> QED
    BY <2>1, InitTyped, InitOwned DEF VersionsInv
<1>2. VersionsInv /\ [Next]_vars => VersionsInv'
  <2> SUFFICES ASSUME VersionsInv, [Next]_vars PROVE VersionsInv'
    OBVIOUS
  <2>1. TypeInv' /\ DraftsOwned'
    BY NextTyped, NextOwned DEF VersionsInv
  <2>2. \A b \in Builder : DraftNewest(build[b])'
    BY NextDraftNewest
  <2> QED
    BY <2>1, <2>2, NextLiveNewest DEF VersionsInv
<1>3. VersionsInv => LiveIsNewest
  BY DEF VersionsInv
<1> QED
  BY <1>1, <1>2, <1>3, PTL DEF Spec

-----------------------------------------------------------------------------
(* The abstract tree, with one builder at a time, no verify_job, no deletion. *)

(* What a build will save covers leaves, is not empty, and is not stale. *)
DraftsPublishable ==
  \A b \in Builder :
    /\ {} \notin build[b].todo
    /\ build[b].stage \in {"verifying", "saving"} => ~build[b].row.stale

LineageInv ==
  LinksInv /\ VersionsInv /\ LeavesDrawn /\ CopiesCurrent /\ DraftsPublishable

LEMMA NextPublishable ==
  ASSUME TypeInv, DraftsPublishable, [Next]_vars PROVE DraftsPublishable'
<1> SUFFICES ASSUME NEW b \in Builder
             PROVE  /\ {} \notin build'[b].todo
                    /\ build'[b].stage \in {"verifying", "saving"} => ~build'[b].row.stale
  BY DEF DraftsPublishable
<1> DEFINE x == build[b]
           y == build'[b]
<1>0. /\ {} \notin x.todo
      /\ x.stage \in {"verifying", "saving"} => ~x.row.stale
  BY DEF DraftsPublishable
<1>1. CASE y = x
  BY <1>0, <1>1
<1>2. CASE Lists(x, y)
  <2>1. {} \notin Clusters[{l \in Leaf : Live(l)}]
    BY ClustersAssumption
  <2> QED
    BY <1>2, <2>1 DEF Lists
<1>3. CASE y = IdleBuild
  BY <1>3 DEF IdleBuild, NewCall
<1>4. CASE \E c, s, v : Reuses(x, y, c, s) \/ Starts(x, y, c) \/ Generates(x, y, s, v)
  BY <1>0, <1>4 DEF Reuses, Starts, Generates
<1>5. CASE \E l, row : LinksLeaf(x, y, l, row)
  BY <1>0, <1>5 DEF LinksLeaf
<1>6. CASE Accepts(x, y) \/ Rejects(x, y) \/ Saves(x, y) \/ Finishes(x, y)
  BY <1>0, <1>6 DEF Accepts, Rejects, Saves, Finishes
<1> QED
  BY <1>1, <1>2, <1>3, <1>4, <1>5, <1>6, CallSteps DEF BuildCase

(* The links the readers see, before and after a step. *)
LEMMA LinkPairs ==
  ASSUME NEW p
  PROVE  /\ p \in UNION {{l} \X rows[l].parents : l \in {m \in Leaf : Stored(m)}} <=>
              \E l \in Leaf : Stored(l) /\ \E s \in rows[l].parents : p = <<l, s>>
         /\ p \in UNION {{l} \X rows'[l].parents : l \in {m \in Leaf : rows'[m] # NoRow}} <=>
              \E l \in Leaf : rows'[l] # NoRow /\ \E s \in rows'[l].parents : p = <<l, s>>
<1>1. ASSUME NEW r, NEW L
      PROVE  p \in UNION {{l} \X r[l].parents : l \in L} <=>
               \E l \in L : \E s \in r[l].parents : p = <<l, s>>
  OBVIOUS
<1> QED
  BY <1>1 DEF Stored

(* The readers see nothing of a step that leaves every row as it is. *)
LEMMA RowsKeptStutters == ASSUME UNCHANGED rows PROVE UNCHANGED Lineage!vars
BY DEF Lineage!vars, Stored

LEMMA WriteL0Lineage ==
  ASSUME TypeInv, LeavesDrawn, NEW l \in Leaf, WriteL0(l) PROVE Lineage!AddLeaf(l)
<1>0. ~Stored(l)
  BY DEF WriteL0, LeavesDrawn
<1>1. /\ rows'[l] = NewLeafRow /\ NewLeafRow # NoRow
      /\ \A n \in Node : n # l => rows'[n] = rows[n]
  <2>1. Upsert(l, NewLeafRow) /\ NewLeafRow \in Row /\ l \in Node
    BY DEF WriteL0, NewLeafRow, Row, Quality, Verdict, Node
  <2> QED
    BY <2>1, UpsertSame, UpsertOther DEF TypeInv, TypeOK
<1>2. \A s \in Summary : rows'[s] = rows[s]
  BY <1>1, NodesAssumption DEF Node
<1>3. \A k \in Leaf : rows'[k] # NoRow <=> Stored(k) \/ k = l
  BY <1>1 DEF Stored, Node
<1>4. ASSUME NEW p
      PROVE  (\E k \in Leaf : rows'[k] # NoRow /\ \E s \in rows'[k].parents : p = <<k, s>>)
             <=> \E k \in Leaf : Stored(k) /\ \E s \in rows[k].parents : p = <<k, s>>
  <2>1. NewLeafRow.parents = {}
    BY DEF NewLeafRow
  <2> QED
    BY <1>0, <1>1, <1>3, <2>1 DEF Node
<1>5. UNCHANGED UNION {{k} \X rows[k].parents : k \in {m \in Leaf : Stored(m)}}
  BY <1>4, LinkPairs DEF Stored
<1> QED
  BY <1>0, <1>2, <1>3, <1>5 DEF Lineage!AddLeaf, Stored

LEMMA SaveLineage ==
  ASSUME Deleter = {}, LineageInv, [Next]_vars, NEW b \in Builder,
         Saves(build[b], build'[b]),
         NEW s \in Summary, s = build[b].id, NEW c, c = build[b].cluster
  PROVE  Lineage!Publish(s, c)
<1>a. PICK x \in BuildLocals : x = build[b] /\ BuildOK(x) /\ Saves(x, build'[b])
  BY CallLocals DEF LineageInv, VersionsInv
<1>b. s = x.id /\ c = x.cluster
  BY <1>a
<1>0. TypeInv /\ rows \in [Node -> Row \cup {NoRow}] /\ s \in Node /\ x.row \in Row
  BY <1>a, <1>b DEF LineageInv, VersionsInv, TypeInv, TypeOK, Saves, BuildOK, Node
<1>1. /\ rows'[s] = x.row /\ x.row # NoRow
      /\ \A n \in Node : n # s => rows'[n] = rows[n]
  BY <1>a, <1>b, <1>0, UpsertSame, UpsertOther DEF Saves
<1>2. \A l \in Leaf : rows'[l] = rows[l]
  BY <1>1, NodesAssumption DEF Node
<1>3. ~Stored(s)
  BY <1>a, <1>b DEF Saves, LineageInv, VersionsInv, DraftsOwned, Drafting
<1>4. /\ x.row.children = x.cluster /\ ~x.row.stale
      /\ \A t \in Summary : Live(t) => rows[t].children # x.cluster
  BY <1>a DEF Saves, LineageInv, VersionsInv, DraftNewest, DraftsPublishable
<1>5. x.cluster # {} /\ \A l \in x.cluster : l \in Leaf /\ Stored(l)
  <2>1. x.cluster \in x.todo /\ x.cluster \subseteq Leaf
    BY <1>a DEF Saves, BuildOK, BuildLocals
  <2>2. \A l \in x.cluster : x.copy[l] # NoRow
    BY <1>a, <2>1, NodesAssumption DEF BuildOK
  <2> QED
    BY <1>a, <2>1, <2>2 DEF LineageInv, DraftsPublishable, CopiesCurrent, Stored
<1>6. UNCHANGED UNION {{k} \X rows[k].parents : k \in {m \in Leaf : Stored(m)}}
  <2>1. ASSUME NEW p
        PROVE  (\E k \in Leaf : rows'[k] # NoRow /\ \E t \in rows'[k].parents : p = <<k, t>>)
               <=> \E k \in Leaf : Stored(k) /\ \E t \in rows[k].parents : p = <<k, t>>
    BY <1>2 DEF Stored
  <2> QED
    BY <2>1, LinkPairs DEF Stored
<1> DEFINE Published == {t \in Summary : Stored(t)}
           Retired == {t \in Summary : Stored(t) /\ rows[t].stale}
           Cover == [t \in Summary |-> IF Stored(t) THEN rows[t].children ELSE {}]
<1>t. /\ Stored(s)' /\ rows'[s].children = x.cluster /\ ~rows'[s].stale
      /\ \A t \in Summary : t # s => rows'[t] = rows[t]
  BY <1>1, <1>4 DEF Stored, Node
<1>7. Published' = Published \cup {s}
  BY <1>t DEF Stored
<1>8. UNCHANGED Retired
  BY <1>t, <1>3 DEF Stored
<1>9. Cover' = [Cover EXCEPT ![s] = x.cluster]
  <2>1. \A t \in Summary : (IF Stored(t) THEN rows[t].children ELSE {})'
          = IF t = s THEN x.cluster ELSE IF Stored(t) THEN rows[t].children ELSE {}
    BY <1>t DEF Stored
  <2> QED
    BY <2>1
<1>10. UNCHANGED {l \in Leaf : Stored(l)}
  BY <1>2 DEF Stored
<1>11. \A t \in Published \ Retired : Cover[t] # x.cluster
  BY <1>4 DEF Live
<1>12. x.cluster \subseteq {l \in Leaf : Stored(l)}
  BY <1>5
<1> QED
  BY <1>a, <1>b, <1>3, <1>5, <1>6, <1>7, <1>8, <1>9, <1>10, <1>11, <1>12
  DEF Lineage!Publish

LEMMA BackfillLineage ==
  ASSUME LineageInv, [Next]_vars, NEW b \in Builder, NEW l \in Leaf, BackfillOf(b, l),
         NEW s \in Summary, s = build[b].id
  PROVE  Lineage!Link(l, s)
<1>a. PICK x \in BuildLocals : x = build[b] /\ BuildOK(x) /\ CallLinked(x)
  BY CallLocals DEF LineageInv, VersionsInv, LinksInv
<1>b. PICK row \in Row : LinksLeaf(x, build'[b], l, row) /\ rows'[l] = row
  BY <1>a DEF BackfillOf
<1>c. s = x.id
  BY <1>a
<1>0. TypeInv /\ CopiesCurrent /\ rows \in [Node -> Row \cup {NoRow}] /\ l \in Node
  BY DEF LineageInv, VersionsInv, TypeInv, TypeOK, Node
<1>1. /\ Stored(l) /\ rows'[l] # NoRow /\ rows'[l].parents = rows[l].parents \cup {s}
  BY <1>a, <1>c, <1>0, BackfillAppends
<1>2. \A n \in Node : n # l => rows'[n] = rows[n]
  BY <1>0, <1>b, UpsertOther DEF LinksLeaf
<1>3. \A t \in Summary : rows'[t] = rows[t]
  BY <1>2, NodesAssumption DEF Node
<1>4. Stored(s) /\ l \in rows[s].children
  BY <1>a, <1>b, <1>c DEF LinksLeaf, CallLinked, BuildOK
<1> DEFINE Links == UNION {{k} \X rows[k].parents : k \in {m \in Leaf : Stored(m)}}
<1>5. Links' = Links \cup {<<l, s>>}
  <2>1. ASSUME NEW p
        PROVE  (\E k \in Leaf : rows'[k] # NoRow /\ \E t \in rows'[k].parents : p = <<k, t>>)
               <=> \/ p = <<l, s>>
                   \/ \E k \in Leaf : Stored(k) /\ \E t \in rows[k].parents : p = <<k, t>>
    <3>1. \A k \in Leaf : k # l => (rows'[k] = rows[k])
      BY <1>2 DEF Node
    <3> QED
      BY <1>1, <3>1 DEF Stored
  <2>2. \A p : p \in Links' <=> p = <<l, s>> \/ p \in Links
    BY <2>1, LinkPairs DEF Stored
  <2> QED
    BY <2>2
<1>6. UNCHANGED {k \in Leaf : Stored(k)}
  BY <1>1, <1>2 DEF Stored, Node
<1>7. /\ UNCHANGED {t \in Summary : Stored(t)}
      /\ UNCHANGED {t \in Summary : Stored(t) /\ rows[t].stale}
      /\ UNCHANGED [t \in Summary |-> IF Stored(t) THEN rows[t].children ELSE {}]
  BY <1>3 DEF Stored
<1> QED
  BY <1>a, <1>c, <1>4, <1>5, <1>6, <1>7 DEF Lineage!Link

LEMMA RefreshLineage ==
  ASSUME TypeInv, NEW r \in Refresher, RefreshMarks(r)
  PROVE  \E S \in SUBSET Summary : Lineage!Retire(S)
<1> DEFINE S == {s \in marks[r] : Stored(s)}
<1>0. S \subseteq Summary /\ MarkStale(marks[r]) /\ rows \in [Node -> Row \cup {NoRow}]
      /\ marks[r] \subseteq Summary
  BY DEF TypeInv, TypeOK, RefreshMarks
<1>1. \A l \in Leaf : rows'[l] = rows[l]
  BY <1>0, NodesAssumption DEF MarkStale, Node
<1>2. ASSUME NEW s \in Summary
      PROVE  /\ rows'[s] # NoRow <=> Stored(s)
             /\ Stored(s) => rows'[s].children = rows[s].children
             /\ Stored(s) => (rows'[s].stale <=> rows[s].stale \/ s \in marks[r])
  <2>1. s \in Node /\ (rows'[s] # NoRow <=> Stored(s))
        /\ (Stored(s) => rows'[s].children = rows[s].children)
    BY <1>0, MarkStaleKeeps DEF Stored, Node
  <2>2. ASSUME Stored(s) PROVE rows'[s].stale <=> rows[s].stale \/ s \in marks[r]
    <3>1. rows[s] \in Row
      BY <1>0, <2>1, <2>2 DEF Stored
    <3>2. CASE s \in marks[r]
      <4>1. rows'[s] = [rows[s] EXCEPT !.stale = TRUE]
        BY <1>0, <2>1, <2>2, <3>2 DEF MarkStale
      <4> QED
        BY <3>1, <3>2, <4>1 DEF Row
    <3>3. CASE s \notin marks[r]
      BY <1>0, <2>1, <3>3 DEF MarkStale
    <3> QED
      BY <3>2, <3>3
  <2> QED
    BY <2>1, <2>2
<1>3. UNCHANGED UNION {{k} \X rows[k].parents : k \in {m \in Leaf : Stored(m)}}
  <2>1. ASSUME NEW p
        PROVE  (\E k \in Leaf : rows'[k] # NoRow /\ \E t \in rows'[k].parents : p = <<k, t>>)
               <=> \E k \in Leaf : Stored(k) /\ \E t \in rows[k].parents : p = <<k, t>>
    BY <1>1 DEF Stored
  <2> QED
    BY <2>1, LinkPairs DEF Stored
<1>4. UNCHANGED {l \in Leaf : Stored(l)}
  BY <1>1 DEF Stored
<1>5. UNCHANGED {s \in Summary : Stored(s)} /\ S \subseteq {s \in Summary : Stored(s)}
  BY <1>0, <1>2 DEF Stored
<1>6. UNCHANGED [s \in Summary |-> IF Stored(s) THEN rows[s].children ELSE {}]
  BY <1>2 DEF Stored
<1> DEFINE Retired == {s \in Summary : Stored(s) /\ rows[s].stale}
<1>7. Retired' = Retired \cup S
  BY <1>0, <1>2 DEF Stored
<1> QED
  BY <1>0, <1>3, <1>4, <1>5, <1>6, <1>7 DEF Lineage!Retire

(* Every step is a step of the abstract tree, or none. *)
LEMMA NextLineage ==
  ASSUME Verifier = {}, Deleter = {}, LineageInv, [Next]_vars
  PROVE  [Lineage!Next]_(Lineage!vars)
<1>0. TypeInv /\ LeavesDrawn
  BY DEF LineageInv, VersionsInv
<1>1. ASSUME NEW l \in Leaf, WriteL0(l) PROVE Lineage!Next
  BY <1>0, <1>1, WriteL0Lineage DEF Lineage!Next
<1>2. ASSUME NEW b \in Builder, BuildAct(b) PROVE [Lineage!Next]_(Lineage!vars)
  <2>0. BuildCase(b, build[b], build'[b]) /\ build[b] \in BuildLocals /\ BuildOK(build[b])
    BY <1>0, <1>2, BuildCases, CallLocals
  <2>1. CASE Saves(build[b], build'[b])
    <3>1. PICK s \in Summary, c \in SUBSET Leaf : s = build[b].id /\ c = build[b].cluster
      BY <2>0, <2>1 DEF Saves, BuildOK, BuildLocals
    <3>2. Lineage!Publish(s, c)
      BY <2>1, <3>1, SaveLineage
    <3> QED
      BY <3>2 DEF Lineage!Next
  <2>2. ASSUME NEW l \in Leaf, NEW row \in Row, LinksLeaf(build[b], build'[b], l, row)
        PROVE  Lineage!Next
    <3>1. rows'[l] = row
      <4>1. l \in Node /\ Upsert(l, row)
        BY <2>2 DEF LinksLeaf, Node
      <4> QED
        BY <1>0, <4>1, UpsertSame DEF TypeInv, TypeOK
    <3>2. PICK s \in Summary : s = build[b].id
      BY <2>0, <2>2 DEF LinksLeaf, BuildOK
    <3>3. Lineage!Link(l, s)
      BY <2>2, <3>1, <3>2, BackfillLineage DEF BackfillOf
    <3> QED
      BY <3>3 DEF Lineage!Next
  <2>3. CASE UNCHANGED rows
    BY <2>3, RowsKeptStutters
  <2> QED
    BY <2>0, <2>1, <2>2, <2>3 DEF BuildCase, TablesKept
<1>3. ASSUME NEW r \in Refresher, Refresh(r) PROVE [Lineage!Next]_(Lineage!vars)
  <2>1. CASE RefreshMarks(r)
    BY <1>0, <2>1, RefreshLineage DEF Lineage!Next
  <2>2. CASE ~RefreshMarks(r)
    <3>1. UNCHANGED rows
      BY <1>3, <2>2 DEF Refresh, RefreshReads, RefreshMissesRow, RefreshFails, store
    <3> QED
      BY <3>1, RowsKeptStutters
  <2> QED
    BY <2>1, <2>2
<1>4. CASE UNCHANGED vars
  BY <1>4, RowsKeptStutters DEF vars
<1> QED
  BY <1>1, <1>2, <1>3, <1>4 DEF Next, BuildAct

LEMMA InitLineage == Init => Lineage!Init
<1> SUFFICES ASSUME Init PROVE Lineage!Init
  OBVIOUS
<1>1. \A n \in Node : ~Stored(n)
  BY DEF Init, Stored
<1>2. \A p : p \notin UNION {{l} \X rows[l].parents : l \in {m \in Leaf : Stored(m)}}
  BY <1>1, LinkPairs DEF Node
<1>3. UNION {{l} \X rows[l].parents : l \in {m \in Leaf : Stored(m)}} = {}
  BY <1>2
<1> QED
  BY <1>1, <1>3 DEF Lineage!Init, Node

(* With one builder at a time, no verify_job and no deletion, the jobs, their   *)
(* copies and their crashes implement the abstract tree: a summary is        *)
(* published once, over a non-empty set of stored leaves that no live summary *)
(* covers, and links, covers and retirements are never taken back.           *)
THEOREM TreeRefinesLineage ==
  ASSUME OneBuilder, Verifier = {}, Deleter = {} PROVE Spec => RefinesLineage
<1>1. Init => LineageInv
  <2>1. Init => LeavesDrawn /\ CopiesCurrent /\ DraftsPublishable
    BY DEF Init, LeavesDrawn, CopiesCurrent, DraftsPublishable, Stored, Node, IdleBuild, NewCall
  <2>2. Init => LiveIsNewest /\ \A b \in Builder : DraftNewest(build[b])
    BY DEF Init, LiveIsNewest, DraftNewest, Stored, Node, IdleBuild, NewCall
  <2> QED
    BY <2>1, <2>2, InitLinks, InitTyped, InitOwned DEF LineageInv, VersionsInv
<1>2. LineageInv /\ [Next]_vars => LineageInv'
  <2> SUFFICES ASSUME LineageInv, [Next]_vars PROVE LineageInv'
    OBVIOUS
  <2>1. TypeInv /\ DraftsOwned /\ LinksInv /\ VersionsInv /\ LeavesDrawn /\ CopiesCurrent
        /\ DraftsPublishable
    BY DEF LineageInv, VersionsInv
  <2>2. \A b \in Builder : DraftNewest(build[b])'
    BY <2>1, NextDraftNewest
  <2>3. VersionsInv'
    BY <2>1, <2>2, NextTyped, NextOwned, NextLiveNewest DEF VersionsInv
  <2> QED
    BY <2>1, <2>3, NextLinked, NextLeavesDrawn, NextCopiesCurrent, NextPublishable
    DEF LineageInv
<1>3. LineageInv /\ [Next]_vars => [Lineage!Next]_(Lineage!vars)
  BY NextLineage
<1> QED
  BY <1>1, <1>2, <1>3, InitLineage, PTL DEF Spec, RefinesLineage, Lineage!Spec

=============================================================================

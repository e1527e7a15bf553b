---------------------------- MODULE SummaryTree ----------------------------
(***************************************************************************)
(* The memory tree of one agent and the jobs that write it: the MemoryStore *)
(* of storage.py, TreeBuilder and RefreshPolicy of services.py, and the     *)
(* worker's verify_job.                                                     *)
(*                                                                          *)
(* A session of MemoryStore is one transaction.  Statements of different     *)
(* transactions interleave (no isolation level is set), so a method is one  *)
(* atomic piece of an action only where that makes no difference; it does   *)
(* for delete_agent_data, parent_nodes and an upsert that meets a deletion. *)
(* A job calls several methods and the model provider in between; what it   *)
(* read lives on in its own memory (`build`, `audit`, `marks`, `wipe`)      *)
(* while other threads of the service and other worker processes go on      *)
(* writing.  That is where the interleavings are.                           *)
(*                                                                          *)
(* Data is abstracted to what the properties tell apart: a leaf's text and  *)
(* timestamp are its identity, a source_hash is the set of leaves it is     *)
(* computed from, and the columns no job reads back (scores, topics,        *)
(* embedding) are left out.  "verified" also stands for "unsupported":      *)
(* build_level only tells CONTRADICTED from the rest.                       *)
(***************************************************************************)
EXTENDS FiniteSets, Naturals

CONSTANTS
  Leaf,        \* node ids of level L0
  Summary,     \* node ids of level L1; the finite pool uuid4 draws from (a bound)
  NoNode,      \* no id drawn
  NoRow,       \* no such row in memory_nodes
  Clusters,    \* Clusters[S]: what _cluster_nodes makes of the leaves S
  Salient,     \* leaves that deserve a summary of their own
  Builder,     \* threads that may run build_level
  Verifier,    \* worker processes that may run verify_job
  Refresher,   \* threads that may run RefreshPolicy.mark_stale
  Deleter,     \* threads that may run delete_agent_data
  MayCrash     \* a builder's process may stop between any two transactions

Node == Leaf \cup Summary
Verdict == {"verified", "contradicted"}
Quality == Verdict \cup {"pending"}

Row == [parents : SUBSET Summary, children : SUBSET Leaf,
        version : Nat, stale : BOOLEAN, quality : Quality]

Stage == {"idle", "clusters", "generating", "verifying", "saving", "linking"}
Component == {"summarizer", "verifier"}

ASSUME NodesAssumption ==
  /\ Leaf \cap Summary = {}
  /\ NoNode \notin Node
  /\ NoRow \notin Row

(* _cluster_nodes puts every listed leaf in exactly one non-empty cluster. *)
ASSUME ClustersAssumption ==
  /\ Clusters \in [SUBSET Leaf -> SUBSET SUBSET Leaf]
  /\ \A S \in SUBSET Leaf :
       /\ UNION Clusters[S] = S
       /\ {} \notin Clusters[S]
       /\ \A c, d \in Clusters[S] : c # d => c \cap d = {}

ASSUME FlagsAssumption == MayCrash \in BOOLEAN

VARIABLES
  rows,    \* table memory_nodes: node id -> row
  edges,   \* table memory_edges: <<parent_id, child_id>>
  traces,  \* table model_traces: <<node_id, component>>
  used,    \* ids that were ever drawn
  build,   \* locals of each build_level call
  audit,   \* locals of each verify_job
  marks,   \* parent ids, then stale_ids of each RefreshPolicy.mark_stale call
  wipe,    \* locals of each delete_agent_data call
  torn     \* nodes whose last write overlapped a deletion (history)

vars == <<rows, edges, traces, used, build, audit, marks, wipe, torn>>
store == <<rows, edges, traces, used, torn>>

NewCall(stage, copy, todo) ==
  [stage |-> stage, copy |-> copy, todo |-> todo, cluster |-> {}, id |-> NoNode,
   row |-> NoRow, pending |-> {}, built |-> {}, rejected |-> {}]
IdleBuild == NewCall("idle", [l \in Leaf |-> NoRow], {})
IdleAudit == [id |-> NoNode, row |-> NoRow]
IdleWipe == [stage |-> "idle", ids |-> {}, gone |-> {}]

BuildLocals == [stage : Stage, copy : [Leaf -> Row \cup {NoRow}],
                todo : SUBSET SUBSET Leaf, cluster : SUBSET Leaf,
                id : Summary \cup {NoNode}, row : Row \cup {NoRow},
                pending : SUBSET Leaf, built : SUBSET Summary,
                rejected : SUBSET SUBSET Leaf]
AuditLocals == [id : Summary \cup {NoNode}, row : Row \cup {NoRow}]
WipeLocals == [stage : {"idle", "selected", "deleting"},
               ids : SUBSET Node, gone : SUBSET (Node \X Node)]

Stored(n) == rows[n] # NoRow
Live(n) == Stored(n) /\ ~rows[n].stale

Init ==
  /\ rows = [n \in Node |-> NoRow]
  /\ edges = {}
  /\ traces = {}
  /\ used = {}
  /\ build = [b \in Builder |-> IdleBuild]
  /\ audit = [v \in Verifier |-> IdleAudit]
  /\ marks = [r \in Refresher |-> {}]
  /\ wipe = [d \in Deleter |-> IdleWipe]
  /\ torn = {}

-----------------------------------------------------------------------------
(* MemoryStore *)

Deleting == \E d \in Deleter : wipe[d] # IdleWipe

(* upsert_node replaces the edges whose parent is n. *)
WriteEdges(n, row) == edges' = {e \in edges : e[1] # n} \cup ({n} \X row.children)

(* It writes the whole row, creating it when it is missing. *)
Upsert(n, row) ==
  /\ rows' = [rows EXCEPT ![n] = row]
  /\ WriteEdges(n, row)
  /\ torn' = IF Deleting THEN torn \cup {n} ELSE torn \ {n}

(* It reads the row before.  When that row is deleted in between, the UPDATE   *)
(* matches no row and the transaction fails; but where there is nothing to   *)
(* update, nobody notices, and the edges are written.                        *)
UpsertMissesRow(n, row) ==
  /\ ~Stored(n)
  /\ WriteEdges(n, row)
  /\ torn' = torn \cup {n}
  /\ UNCHANGED rows

(* Slip: a missing row is created. *)
SlipMarkStaleCreates(ids) ==
  rows' = [n \in Node |->
             IF n \notin ids THEN rows[n]
             ELSE IF Stored(n) THEN [rows[n] EXCEPT !.stale = TRUE]
             ELSE [parents |-> {}, children |-> {}, version |-> 1,
                   stale |-> TRUE, quality |-> "pending"]]

(* Slip: the flag of every row is recomputed from the listed ids. *)
SlipMarkStaleResets(ids) ==
  rows' = [n \in Node |-> IF Stored(n) THEN [rows[n] EXCEPT !.stale = n \in ids]
                          ELSE rows[n]]

(* mark_stale sets the flag of the listed rows that exist. *)
MarkStale(ids) ==
  rows' = [n \in Node |-> IF n \in ids /\ Stored(n)
                          THEN [rows[n] EXCEPT !.stale = TRUE]
                          ELSE rows[n]]

(* parent_nodes first reads the parents of the child edges to the ids. *)
ParentIds(ids) == {s \in Summary : \E l \in ids : <<s, l>> \in edges}

(* Slips: any overlapping summary is taken for the cluster's; none is found. *)
SlipExistingOverlapping(c) == {s \in Summary : Live(s) /\ rows[s].children \cap c # {}}
SlipExistingNever(c) == {}

(* existing_summary searches the summaries that are not stale. *)
ExistingSummary(c) == {s \in Summary : Live(s) /\ rows[s].children = c}

(* Slip: the stale summaries are left out. *)
SlipVersionsOfLive(c) == {rows[s].version : s \in {t \in Summary : Live(t) /\ rows[t].children = c}}

(* next_version is one more than the highest version of the same hash, stale *)
(* summaries included; NewestVersion is that version, or 0 when there is none. *)
VersionsOf(c) ==
  {rows[s].version : s \in {t \in Summary : Stored(t) /\ rows[t].children = c}}
NewestVersion(c) == {v \in {0} \cup VersionsOf(c) : \A w \in VersionsOf(c) : w <= v}

(* Slip: nothing is written. *)
SlipTraceNothing(id, component) == UNCHANGED traces

(* write_model_trace *)
Trace(id, component) == traces' = traces \cup {<<id, component>>}

-----------------------------------------------------------------------------
(* write_l0: a new leaf.  Whether an event is a duplicate is decided before  *)
(* this point (module Ingest).                                               *)
WriteL0(l) ==
  /\ l \notin used
  /\ used' = used \cup {l}
  /\ Upsert(l, [parents |-> {}, children |-> {}, version |-> 1,
                stale |-> FALSE, quality |-> "verified"])
  /\ UNCHANGED <<traces, build, audit, marks, wipe>>

-----------------------------------------------------------------------------
(* TreeBuilder.build_level *)

ShouldSummarize(c) == (\E l, m \in c : l # m) \/ c \subseteq Salient

(* The pool of ids must last for this call: part of the bound on Summary. *)
PoolLasts(n) == n <= Cardinality(Summary \ used)

(* The leaves are listed once; the rows read here are what the call writes   *)
(* back in LinkChild.  Clusters are taken in any order.                      *)
BuildLevel(b) ==
  LET listed == {l \in Leaf : Live(l)}
      worth == {c \in Clusters[listed] : ShouldSummarize(c)}
  IN  /\ build[b].stage = "idle"
      /\ worth # {}
      /\ PoolLasts(Cardinality(worth))
      /\ build' = [build EXCEPT
           ![b] = NewCall("clusters", [l \in Leaf |-> rows[l]], worth)]
      /\ UNCHANGED <<store, audit, marks, wipe>>

(* Slip: the cluster stays on the list, to be tried again. *)
SlipRetryCluster(call) ==
  [call EXCEPT !.stage = "clusters", !.cluster = {}, !.id = NoNode, !.row = NoRow]

(* The loop goes on to the next cluster; the locals of this one are dead. *)
NextCluster(call) ==
  [call EXCEPT !.stage = "clusters", !.todo = @ \ {call.cluster},
               !.cluster = {}, !.id = NoNode, !.row = NoRow]

ReuseSummary(b) ==
  \E c \in build[b].todo : \E s \in ExistingSummary(c) :
    /\ build[b].stage = "clusters"
    /\ build' = [build EXCEPT ![b].todo = @ \ {c}, ![b].built = @ \cup {s}]
    /\ UNCHANGED <<store, audit, marks, wipe>>

StartSummary(b) ==
  \E c \in build[b].todo :
    /\ build[b].stage = "clusters"
    /\ ExistingSummary(c) = {}
    /\ build' = [build EXCEPT ![b].stage = "generating", ![b].cluster = c]
    /\ UNCHANGED <<store, audit, marks, wipe>>

(* summarizer.generate returns: a node is made in memory under a fresh id,   *)
(* its version read from the store, and the model trace written.             *)
GenerateReturns(b) ==
  \E s \in Summary \ used, v \in NewestVersion(build[b].cluster) :
    /\ build[b].stage = "generating"
    /\ used' = used \cup {s}
    /\ Trace(s, "summarizer")
    /\ build' = [build EXCEPT
         ![b].stage = "verifying",
         ![b].id = s,
         ![b].row = [parents |-> {}, children |-> build[b].cluster, version |-> v + 1,
                     stale |-> FALSE, quality |-> "pending"]]
    /\ UNCHANGED <<rows, edges, torn, audit, marks, wipe>>

(* verifier.verify returns: its trace is written, and a contradicted draft   *)
(* is dropped.                                                               *)
Dropped(q) == q = "contradicted"

VerifyReturns(b) ==
  \E q \in Verdict :
    /\ build[b].stage = "verifying"
    /\ Trace(build[b].id, "verifier")
    /\ build' = [build EXCEPT
         ![b] = IF Dropped(q)
                THEN [NextCluster(build[b]) EXCEPT !.rejected = build[b].rejected \cup {build[b].cluster}]
                ELSE [@ EXCEPT !.stage = "saving", !.row.quality = q]]
    /\ UNCHANGED <<rows, edges, used, torn, audit, marks, wipe>>

(* Slip: the children are linked without the summary being saved. *)
SlipSaveNothing(b) ==
  /\ build[b].stage = "saving"
  /\ build' = [build EXCEPT ![b].stage = "linking", ![b].pending = build[b].cluster]
  /\ UNCHANGED <<store, audit, marks, wipe>>

SaveSummary(b) ==
  /\ build[b].stage = "saving"
  /\ Upsert(build[b].id, build[b].row)
  /\ build' = [build EXCEPT ![b].stage = "linking", ![b].pending = build[b].cluster]
  /\ UNCHANGED <<traces, used, audit, marks, wipe>>

(* Slips: the new parent replaces the old ones; the wrong id is appended. *)
SlipBackfillReplaces(b, l) == [build[b].copy[l] EXCEPT !.parents = {build[b].id}]
SlipBackfillOwnId(b, l) == [build[b].copy[l] EXCEPT !.parents = @ \cup {l}]

Backfilled(b, l) == [build[b].copy[l] EXCEPT !.parents = @ \cup {build[b].id}]

(* The backfill of one child: the summary's id is appended to the parent_ids *)
(* read by list_nodes, and the whole row goes back to the store.             *)
LinkChild(b) ==
  \E l \in build[b].pending :
    /\ build[b].stage = "linking"
    /\ build[b].id \notin build[b].copy[l].parents
    /\ Upsert(l, Backfilled(b, l))
    /\ build' = [build EXCEPT ![b].copy[l] = Backfilled(b, l), ![b].pending = @ \ {l}]
    /\ UNCHANGED <<traces, used, audit, marks, wipe>>

ClusterBuilt(b) ==
  /\ build[b].stage = "linking"
  /\ build[b].pending = {}
  /\ build' = [build EXCEPT
       ![b] = [NextCluster(build[b]) EXCEPT !.built = build[b].built \cup {build[b].id}]]
  /\ UNCHANGED <<store, audit, marks, wipe>>

(* The list of summaries is returned. *)
BuildReturns(b) ==
  /\ build[b].stage = "clusters"
  /\ build[b].todo = {}
  /\ build' = [build EXCEPT ![b] = IdleBuild]
  /\ UNCHANGED <<store, audit, marks, wipe>>

(* A model call raises; the exception leaves build_level. *)
ModelError(b) ==
  /\ build[b].stage \in {"generating", "verifying"}
  /\ build' = [build EXCEPT ![b] = IdleBuild]
  /\ UNCHANGED <<store, audit, marks, wipe>>

(* The process stops, or a transaction of the call fails. *)
Crash(b) ==
  /\ MayCrash
  /\ build[b].stage # "idle"
  /\ build' = [build EXCEPT ![b] = IdleBuild]
  /\ UNCHANGED <<store, audit, marks, wipe>>

-----------------------------------------------------------------------------
(* verify_job, for a summary: the row is read, the verifier runs, and the    *)
(* row goes back with the new verdict, right after the trace of the verifier *)
(* (no job reads the traces, so the two transactions are one step).          *)
VerifyJobReads(v) ==
  \E s \in Summary :
    /\ audit[v] = IdleAudit
    /\ Stored(s)
    /\ audit' = [audit EXCEPT ![v] = [id |-> s, row |-> rows[s]]]
    /\ UNCHANGED <<store, build, marks, wipe>>

(* Slip: the verdict counts as a new version. *)
SlipAuditedBumpsVersion(row, q) == [row EXCEPT !.quality = q, !.version = @ + 1]

Audited(row, q) == [row EXCEPT !.quality = q]

VerifyJobWrites(v) ==
  \E q \in Verdict :
    /\ audit[v] # IdleAudit
    /\ Trace(audit[v].id, "verifier")
    /\ Upsert(audit[v].id, Audited(audit[v].row, q))
    /\ audit' = [audit EXCEPT ![v] = IdleAudit]
    /\ UNCHANGED <<used, build, marks, wipe>>

(* The row is gone when it is to be written; the trace may have gone with it. *)
VerifyJobMissesRow(v) ==
  /\ audit[v] # IdleAudit
  /\ UpsertMissesRow(audit[v].id, audit[v].row)
  /\ Trace(audit[v].id, "verifier") \/ UNCHANGED traces
  /\ audit' = [audit EXCEPT ![v] = IdleAudit]
  /\ UNCHANGED <<used, build, marks, wipe>>

VerifyJobFails(v) ==
  /\ audit[v] # IdleAudit
  /\ audit' = [audit EXCEPT ![v] = IdleAudit]
  /\ UNCHANGED <<store, build, marks, wipe>>

-----------------------------------------------------------------------------
(* RefreshPolicy.mark_stale: the parent ids are read in one transaction, each  *)
(* of the rows in another, and those that were found are marked in a last    *)
(* one, which fails if a row it has read is deleted before it writes.        *)
RefreshReads(r) ==
  \E changed \in SUBSET Leaf :
    /\ marks[r] = {}
    /\ marks' = [marks EXCEPT ![r] = ParentIds(changed)]
    /\ UNCHANGED <<store, build, audit, wipe>>

RefreshMissesRow(r) ==
  \E s \in marks[r] :
    /\ ~Stored(s)
    /\ marks' = [marks EXCEPT ![r] = @ \ {s}]
    /\ UNCHANGED <<store, build, audit, wipe>>

RefreshFails(r) ==
  /\ marks[r] # {}
  /\ marks' = [marks EXCEPT ![r] = {}]
  /\ UNCHANGED <<store, build, audit, wipe>>

RefreshMarks(r) ==
  /\ marks[r] # {}
  /\ MarkStale(marks[r])
  /\ marks' = [marks EXCEPT ![r] = {}]
  /\ UNCHANGED <<edges, traces, used, torn, build, audit, wipe>>

-----------------------------------------------------------------------------
(* delete_agent_data selects the ids of the agent's nodes, then deletes the    *)
(* edges from or to them, then the nodes and the traces of the agent, and    *)
(* commits.  What others commit in between is neither selected nor stopped.  *)
(* (PostgreSQL; on SQLite the first DELETE locks the others out.)            *)
DeleteSelects(d) ==
  /\ wipe[d] = IdleWipe
  /\ wipe' = [wipe EXCEPT ![d] = [stage |-> "selected", ids |-> {n \in Node : Stored(n)},
                                 gone |-> {}]]
  /\ UNCHANGED <<store, build, audit, marks>>

(* Slip: the edge table is forgotten. *)
SlipDeleteEdgesNone(d) ==
  /\ wipe[d].stage = "selected"
  /\ wipe' = [wipe EXCEPT ![d].stage = "deleting"]
  /\ UNCHANGED <<store, build, audit, marks>>

DeleteEdges(d) ==
  /\ wipe[d].stage = "selected"
  /\ wipe' = [wipe EXCEPT ![d].stage = "deleting",
                         ![d].gone = {e \in edges : {e[1], e[2]} \cap wipe[d].ids # {}}]
  /\ UNCHANGED <<store, build, audit, marks>>

DeleteCommits(d) ==
  /\ wipe[d].stage = "deleting"
  /\ rows' = [n \in Node |-> IF n \in wipe[d].ids THEN NoRow ELSE rows[n]]
  /\ edges' = edges \ wipe[d].gone
  /\ traces' = {}
  /\ wipe' = [wipe EXCEPT ![d] = IdleWipe]
  /\ UNCHANGED <<used, torn, build, audit, marks>>

DeleteFails(d) ==
  /\ wipe[d] # IdleWipe
  /\ wipe' = [wipe EXCEPT ![d] = IdleWipe]
  /\ UNCHANGED <<store, build, audit, marks>>

-----------------------------------------------------------------------------
BuildStep(b) ==
  \/ ReuseSummary(b) \/ StartSummary(b) \/ GenerateReturns(b) \/ VerifyReturns(b)
  \/ SaveSummary(b) \/ LinkChild(b) \/ ClusterBuilt(b) \/ BuildReturns(b)

BuildFails(b) == ModelError(b) \/ Crash(b)

VerifyJob(v) ==
  VerifyJobReads(v) \/ VerifyJobWrites(v) \/ VerifyJobMissesRow(v) \/ VerifyJobFails(v)

Refresh(r) == RefreshReads(r) \/ RefreshMissesRow(r) \/ RefreshMarks(r) \/ RefreshFails(r)

DeleteAgentData(d) == DeleteSelects(d) \/ DeleteEdges(d) \/ DeleteCommits(d) \/ DeleteFails(d)

Next ==
  \/ \E l \in Leaf : WriteL0(l)
  \/ \E b \in Builder : BuildLevel(b) \/ BuildStep(b) \/ BuildFails(b)
  \/ \E v \in Verifier : VerifyJob(v)
  \/ \E r \in Refresher : Refresh(r)
  \/ \E d \in Deleter : DeleteAgentData(d)

Spec == Init /\ [][Next]_vars

(* A call in progress is a running thread: it takes its next step.  Nothing  *)
(* is assumed of requests that have not arrived.                             *)
FairSpec == Spec /\ \A b \in Builder : WF_vars(BuildStep(b))

-----------------------------------------------------------------------------
(* Types: every table and every job's locals. *)
TypeOK ==
  /\ rows \in [Node -> Row \cup {NoRow}]
  /\ edges \subseteq Node \X Node
  /\ traces \subseteq Summary \X Component
  /\ used \subseteq Node
  /\ build \in [Builder -> BuildLocals]
  /\ audit \in [Verifier -> AuditLocals]
  /\ marks \in [Refresher -> SUBSET Summary]
  /\ wipe \in [Deleter -> WipeLocals]
  /\ torn \subseteq Node

(* What a call's locals hold at each stage: the draft is a node from the      *)
(* moment it is generated, and every leaf still to be linked was listed.     *)
BuildOK(call) ==
  /\ \A c \in call.todo : \A l \in c : call.copy[l] \in Row
  /\ call.pending # {} => call.stage = "linking" /\ call.pending \subseteq call.cluster
  /\ call.stage \in {"generating", "verifying", "saving", "linking"} =>
       call.cluster \in call.todo
  /\ call.stage \in {"verifying", "saving", "linking"} =>
       call.id \in Summary /\ call.row \in Row

AuditOK(job) == job # IdleAudit => job.id \in Summary /\ job.row \in Row

LocalsOK ==
  /\ \A b \in Builder : BuildOK(build[b])
  /\ \A v \in Verifier : AuditOK(audit[v])

(* memory_edges holds exactly the child lists of the stored rows, whatever   *)
(* jobs overlap, crash or run across a deletion.  Only a node whose last     *)
(* write overlapped a deletion can be different: a summary saved between the *)
(* SELECT and the DELETEs loses the edges to the children that are deleted,  *)
(* and edges can be left without a row.  Even then a stored summary has no   *)
(* edge to a node it does not list, and its next write puts it right.        *)
EdgesMatchRows ==
  /\ \A e \in edges : Stored(e[1]) => e[2] \in rows[e[1]].children
  /\ \A n \in Node \ torn :
       {e \in edges : e[1] = n} = IF Stored(n) THEN {n} \X rows[n].children ELSE {}

(* A leaf's parent_ids name stored summaries that summarize it: build_level  *)
(* saves a summary before it backfills the links to it.                      *)
LinksSound ==
  \A l \in Leaf : Stored(l) =>
    \A s \in rows[l].parents : Stored(s) /\ l \in rows[s].children

(* Children of s that the call that saved s has not yet linked. *)
Unlinked(s) ==
  UNION {build[b].pending : b \in {x \in Builder : build[x].id = s}}

(* "Backfill parent links so retrieval can walk the tree upward": once its   *)
(* builder has passed a child, that child names the summary for good.        *)
BacklinksComplete ==
  \A s \in Summary : Stored(s) =>
    \A l \in rows[s].children \ Unlinked(s) : Stored(l) /\ s \in rows[l].parents

(* Among the summaries of one cluster versions differ, and the one retrieval *)
(* uses (the live one) is the newest: existing_summary and next_version read *)
(* what another call may be about to change.                                 *)
LiveIsNewest ==
  \A s, t \in Summary :
    (s # t /\ Stored(s) /\ Stored(t) /\ rows[s].children = rows[t].children) =>
       /\ rows[s].version # rows[t].version
       /\ Live(s) => rows[s].version > rows[t].version

(* No cluster is lost on the way: of the clusters build_level started from,  *)
(* each is still to do, rejected by the verifier, or covered by a stored     *)
(* summary the call will return.                                             *)
NoClusterDropped ==
  \A b \in Builder : build[b].stage = "clusters" =>
    LET listed == {l \in Leaf : build[b].copy[l] # NoRow}
    IN  \A c \in Clusters[listed] : ShouldSummarize(c) =>
          \/ c \in build[b].todo \cup build[b].rejected
          \/ \E s \in build[b].built : Stored(s) /\ rows[s].children = c

(* A stored summary can be audited: the traces of the model calls that made  *)
(* it are in model_traces, even when the build crashed right after saving.   *)
TracesPrecedeRows ==
  \A s \in Summary : Stored(s) => {s} \X Component \subseteq traces

(* What a summary summarizes, and its version, never change after it is      *)
(* saved, although verify_job writes whole rows back.                        *)
IdentityFixed ==
  [][\A s \in Summary : Stored(s) /\ Stored(s)' =>
       /\ rows'[s].children = rows[s].children
       /\ rows'[s].version = rows[s].version]_vars

(* A summary that refresh marked stale stays stale until it is deleted: the  *)
(* flag is what makes build_level write a new version                        *)
(* (test_refresh_marks_parent_stale).                                        *)
StaleSticks ==
  [][\A s \in Summary : Stored(s) /\ rows[s].stale /\ Stored(s)' =>
       rows'[s].stale]_vars

(* After delete_agent_data, a deleted row can only come back through a build *)
(* or a verify_job that was under way; a refresh that was never recreates it. *)
OnlyWritersResurrect ==
  [][ /\ \A b \in Builder : build[b].stage = "idle"
      /\ \A v \in Verifier : audit[v] = IdleAudit
      => \A n \in used : ~Stored(n) => ~Stored(n)']_vars

(* A build_level call that keeps running ends, by returning or by an error. *)
BuildTerminates ==
  \A b \in Builder : build[b].stage # "idle" ~> build[b].stage = "idle"

(* The tree as its readers see it.                                           *)
Lineage == INSTANCE SummaryLineage WITH
  leaves <- {l \in Leaf : Stored(l)},
  published <- {s \in Summary : Stored(s)},
  cover <- [s \in Summary |-> IF Stored(s) THEN rows[s].children ELSE {}],
  retired <- {s \in Summary : Stored(s) /\ rows[s].stale},
  links <- UNION {{l} \X rows[l].parents : l \in {m \in Leaf : Stored(m)}}

(* With one builder at a time and no verify_job the jobs, their copies and   *)
(* their failures implement the promise.                                     *)
RefinesLineage == Lineage!Spec

=============================================================================

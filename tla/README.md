# Verification of the hierarchical memory service

The repository is a memory service for generative agents: it stores what an agent
observed as leaves (level L0), summarizes clusters of leaves (L1), answers queries from
that tree under a token budget, and measures itself with an evaluation harness.  This
directory holds TLA+ models of the parts that carry its logic, TLC configurations that
check them on small instances, and proofs checked by TLAPS.

    tlc -config SummaryTree_serial.cfg MCSummaryTree     # one of the runs of PROJECT.json
    tlapm SummaryTreeProofs.tla                          # the proofs of one module

## 1. The system

Paths are relative to the repository (`src/`).  The service object is a process-wide
singleton (`packages/memory_core/bootstrap.py`), its HTTP handlers are plain `def`
functions and so run in a thread pool, and worker processes run the jobs of
`apps/worker/worker.py` on the same database.  So everything below that reads the store,
computes, and writes it back does so next to other calls doing the same.  A method of
`MemoryStore` opens one session, i.e. one transaction, `child_nodes`, `parent_nodes` and
`node_provenance` one per row they read; nothing spans two of them, and there is no lock, no
row version and no unique constraint except the primary keys.  No isolation level is set
either, so the statements of one transaction and the commits of others interleave: a count
that `mark_accessed` has read, or the ids `delete_agent_data` has selected, may be out of date
when they are used.  (On SQLite, the default, the first write of a transaction locks other
writers out until it commits; a read before it does not.  On PostgreSQL nobody is locked out
but from the same row.)

| component | state | operations | talks to |
|---|---|---|---|
| Memory store (`storage.py`) | tables `memory_nodes`, `memory_edges`, `model_traces`, `retrieval_traces`, `eval_runs` | `write_l0`, `upsert_node`, `mark_stale`, `mark_accessed`, `delete_agent_data`, `write_*_trace`, the reads | database |
| Tree builder (`services.py` `TreeBuilder`) | locals of `build_level`: listed leaves, clusters, draft | `build_level` | store, summarizer, verifier |
| Clustering (`_cluster_nodes`) | none | partition of the listed leaves | - |
| Refresh policy (`RefreshPolicy`) | locals: `stale_ids` | `mark_stale` | store |
| Worker jobs (`worker.py`) | the row read by `verify_job` | build, refresh, verify | service |
| Ingestion (`write_l0`, `ingest_batch`) | locals: records left, counters | single and batch ingest, optional build | store, builder |
| Hierarchical retriever (`retrieval/hierarchical.py`) | `_pipeline_cached_result`, `_pipeline_cached_request`, shared by all requests | the five pipeline phases, `_retrieve_legacy` | store, flat retriever, router |
| Query router (`retrieval/policies.py`) | none | `decide` | - |
| Flat retriever, context packer (`services.py`) | locals: picked, consumed | `retrieve`, `pack` | store |
| Service facade (`MemoryService`) | none of its own | `retrieve`, `retrieve_flat`, traces | all of the above |
| Model clients (`model_clients.py`) | attempt counter | `generate_json` with retries | model provider |
| HTTP API (`apps/api/main.py`) | none | endpoints, `seed-complex` | service |
| Frontier sweep (`packages/evals/frontier.py`) | checkpoint file, results, process pool | sample, evaluate, checkpoint, resume, Pareto | eval runner |
| Evaluation runner, counterfactual, gate, reports | eval rows, report files | replay a scenario, compare, format | service |
| Social state, diagnostics, settings, schemas, migrations, UI | none | projections, parsing, DDL, presentation | - |

What makes each part correct:

* **Store, builder, refresh, verify job** - the edge table agrees with the rows; a leaf's
  parent links and the summaries they name agree in both directions; the summary in use of
  a cluster is the newest one; a stale summary stays stale; no cluster is forgotten; what is
  stored can be audited; a build ends.
* **Retriever** - a request gets, and records in its trace, the result of that request;
  nothing stays in the cache; a request ends.
* **Ingestion** - one leaf per event, no event lost, the earliest of its records kept.
* **Branch selection, flat retrieval, packing** - never over the token budget, no node twice,
  trace, selection and access counts about the same nodes, something selected if it fits.
* **Clustering** - a partition of the listed leaves in time order.
* **Routing** - the thresholds of the policy file decide between flat and hierarchical, and
  forced expansion wins over leaf-first.
* **Model client** - the retry budget, what is retried, and what is raised at the end.
* **Frontier sweep** - after a stop at any point a resumed sweep has lost no result, evaluates
  every candidate once and reports the same frontier as one that was not stopped.
* **Counterfactual and evaluation replay, seeding** - a replay is measured on its own events,
  its report accounts for every scenario, and it ends whatever the model provider does.

What is hard to test about it is the list `hazards` of `PROJECT.json`, each at its line.
The hard behaviours in short:

* **Read, compute, write back.**  `build_level` lists the leaves once and writes whole
  rows back minutes (two model calls per cluster) later; `verify_job` does the same with a
  summary; `refresh` reads parents and flags them in several transactions; `mark_accessed`
  reads a count and writes it back in one, with no lock.
* **Stopping half way.**  A model call that raises, or a process that stops, leaves the
  transactions so far; the next build must find a state it can continue from.
* **Deletion under way.**  `delete_agent_data` does not stop the jobs that work on the
  agent, and misses what they commit after its SELECT.
* **Shared objects.**  The retriever hands its result from one phase to a later one in two
  attributes that all requests share.
* **Greedy budgets, retry loops, checkpoints**, where boundaries decide.

## 2. Modules and plan

The most important behaviour first:

| # | module | models | proofs |
|---|---|---|---|
| 1 | `SummaryLineage` | abstract: what the tree promises its readers | |
| 1 | `SummaryTree`, `MCSummaryTree` | store, tree builder, refresh, verify job; refines `SummaryLineage` | `SummaryTreeProofs`, `TreeLineageProofs` |
| 1 | `Clustering` | the loop of `_cluster_nodes`; gives `MCSummaryTree` its clusters | |
| 2 | `RetrievalPipeline`, `MCRetrievalPipeline` | requests on one shared retriever | `RetrievalPipelineProofs` |
| 3 | `Ingest`, `MCIngest` | `write_l0`, `ingest_batch`, the two duplicate checks, a build after a batch | `IngestProofs` |
| 4 | `QueryRouting` | `decide`, `build_coverage_plan`, leaf targets and utility gates | |
| 4 | `CandidateScoring` | scores, order, and what the ranked leaves say about a query | |
| 4 | `BranchSelection`, `MCBranchSelection` | one retrieval: routing, `_retrieve_legacy`, flat retrieval, `mark_accessed`, packing | `BranchSelectionProofs` |
| 5 | `ParetoFrontier` | objectives, dominance, frontier, utility scores, distinct samples | `ParetoFrontierProofs` |
| 5 | `FrontierSweep`, `MCFrontierSweep` | checkpoint, resume, process pool and its serial fallback, ranking | `FrontierSweepProofs` |
| 6 | `ScenarioReplay`, `MCScenarioReplay` | evals, counterfactuals, sweep candidates and seedings on shared databases; model calls with retries | `ScenarioReplayProofs` |

`QueryRouting`, `CandidateScoring` and `BranchSelection` extend one another, so do
`ParetoFrontier` and `FrontierSweep`.  `BranchSelection` is what one request does inside
`RetrievalPipeline`; `SummaryTree`, `Ingest` and `BranchSelection` are what a replay of
`ScenarioReplay` calls; `ScenarioReplay` is the evaluation of a candidate in `FrontierSweep`.

Of the plan nothing is left that the provers can do: every invariant, action property and
refinement that a passing run checks is a theorem (section 9).  Liveness stays with TLC.

## 3. `SummaryTree`: state and actions

| TLA+ | code |
|---|---|
| `rows[n]` | row of `memory_nodes`: `parents` = `parent_ids`, `children` = `child_ids`, `version`, `stale` = `stale_flag`, `quality` = `quality_status` |
| `edges` | `memory_edges`, (parent, child) |
| `traces` | `model_traces`: the node a trace is of and the component that wrote it |
| `used` | ids ever given out by `uuid4` (fresh ids never repeat) |
| `build[b]` | locals of a `build_level` call: `copy` the listed leaves, `todo` the clusters left, `cluster`, `id`, `row` the current draft, `pending` the children still to backfill, `built` the result list; `rejected` records the skipped clusters for `NoClusterDropped` |
| `audit[v]` | the row a `verify_job` read |
| `marks[r]` | `parent_ids` in `parent_nodes`, then `stale_ids`, of a `RefreshPolicy.mark_stale` call |
| `wipe[d]` | a `delete_agent_data` call: how far it is, the `node_ids` it selected, the edges its first DELETE removes (`gone`) |
| `torn` | history: nodes whose last write overlapped a deletion |

A transaction of one statement, or one in which it makes no difference what others commit
meanwhile, is one atomic piece of an action.  Where it does make a difference it is taken
apart: a deletion is `DeleteSelects`, `DeleteEdges` and `DeleteCommits` (or `DeleteFails`), with
everybody's commits in between; a refresh reads the parent ids in `RefreshReads`, finds in
`RefreshMissesRow` that a row has gone, and marks the rest in `RefreshMarks` or, when a row
goes after it was read, fails in `RefreshFails`; and an `upsert_node` whose row is deleted
between its read and its write either fails (`Crash`, `VerifyJobFails`) or, if no column has
changed, leaves edges behind without a row (`UpsertMissesRow`).  The actions
`BuildLevel`, `ReuseSummary`, `StartSummary`, `GenerateReturns`, `VerifyReturns`,
`SaveSummary`, `LinkChild`, `ClusterBuilt`, `BuildReturns` follow `build_level` from one
transaction or model call to the next; `ModelError` and `Crash` leave it at any of them.
`GenerateReturns` draws the id, reads `next_version` and writes the trace in one step:
nothing reads the draft in between, and a version read earlier or later than the trace is
covered by when the step happens.  `VerifyJobReads`/`VerifyJobWrites` are the two ends of
`verify_job` (its trace is written just before the row, and the two are one step).

Abstracted: a text and its timestamp are the identity of the leaf; a `source_hash` is the
set of leaves it is computed from; columns no job reads back (scores, topics, embedding)
are left out; "verified" also stands for "unsupported", as `build_level` only tells
"contradicted" from the rest.  Which leaves form a cluster is the constant `Clusters`, of
which only the contract of `_cluster_nodes` is assumed (`ClustersAssumption`: a partition).
For TLC it is what module `Clustering` computes: a leaf has a time, words, topics, entities,
an importance and two signals, and `Place` is one turn of the loop - the leaf extends the
latest social thread it can, else the last cluster, else it starts one.  TLC evaluates the
assumption for the leaves of the instance, all subsets of them.
`verify_job` accepts any node id; it is modelled for summaries, whose supports it is there
to check.

`SummaryLineage` is the same tree without jobs: leaves are added, summaries published over
a set of them with at most one live summary per set, links and retirements only grow.

### Runs

* `tree_serial` - one builder, one refresher, three leaves, three summary ids; leaves,
  refreshes and failing model calls between any two steps of the build.  The reader's
  invariants hold, every behaviour is one of `SummaryLineage`, and every build ends.
* `tree_concurrent` - two builders, a verify job, a refresher, processes that stop.  What
  survives any overlap: a parent link never leads to nothing or to a summary that does not
  list the child, an audit trail exists, identities are immutable.
* `tree_delete` - `delete_agent_data`, statement by statement, during a build, a verify job
  and a refresh.  Rows do come back (through writers that were under way), and a summary saved
  between the SELECT and the DELETEs stays as a row whose edges went with the children they
  name; but only a node whose last write overlapped a deletion can be in that state, even such
  a row never has an edge to a node it does not list, all others agree with their edges
  (`EdgesMatchRows`), and a refresh alone recreates nothing (`OnlyWritersResurrect`).
* `tree_verify_after_refresh` (violation of `StaleSticks`) - `verify_job` reads the row, a
  refresh marks it stale, `verify_job` writes the whole row back: the summary is live again.
* `tree_two_builders` (violation of `BacklinksComplete`) - leaves l1, l2, l3 and two builds
  that list different leaves: each backfills its copies, the later one erases the other's
  link, and `existing_summary` makes every later build skip the cluster.

Bounds: one deletion at a time, with one leaf, as its overlap with writers is one of a row and
its children (the proofs cover any number); otherwise two or three leaves, of which l3 joins
the cluster of l1 and l2 only if all three are listed (so that a new leaf changes an old cluster, the case that leaves superseded
summaries behind); two or three summary ids, enough for two versions of one cluster next to
another cluster; a build starts only if the ids left suffice for it (`PoolLasts`, part of
that bound).  Deadlock is not checked in these runs: a service without requests has nothing
to do, and with the id pool used up and no refresh or build in progress the model has no step.

Fairness: `FairSpec` asks that a `build_level` in progress takes its next step (weak
fairness of `BuildStep`, failures excluded).  A call in progress is a running thread;
nothing is assumed about requests arriving, refreshes finishing or failures ending.

## 4. `RetrievalPipeline`: state and actions

| TLA+ | code |
|---|---|
| `cachedResult`, `cachedRequest` | `_pipeline_cached_result`, `_pipeline_cached_request` of the one `HierarchicalRetriever` |
| `call[t]` | a `MemoryService.retrieve` on thread t: the phase it is in, its request and result; `joined` records which results others cached meanwhile |
| `Key[r]` | the tuple compared in phase 5: the request without its mode |

A step is the work of a phase up to and including one access to one of the two attributes,
which is where Python may switch threads and another request sees the difference: `Rank`
(result), `CacheRequest`, then in phase 5 `CheckRequest`, `CheckResult`, `TakeResult`,
`ClearRequest`, `ClearResult`.  `Settle` stands for the branches in which a call goes on
with its own selection (flat route, leaf-first, the assembly when the cache was taken over).
A call whose result has become `None` between check and read fails when it is unpacked, in
`ClearResult`.  Which nodes are selected is a function of the request and the store, left to
`BranchSelection`; a result is therefore named by the request it was computed for.

### Runs

* `pipeline_threads` - two threads, three requests (two that differ in mode only), all
  interleavings.  A request is only ever mixed up with one ranked at the same time, never
  with a leftover; when no request is in progress no result is left in the cache; and
  however often they take over each other's cache, every request ends.  Fairness is weak and
  per thread: a thread serving a request runs.  Failures are possible but never assumed.
* `pipeline_mixed` (violation of `TracesHonest`) - two requests at once: one returns, packs,
  answers from and writes as its own trace what was selected for the other.

The cache holds one entry, so a mix-up takes two threads, one that ranks and one that
overwrites; for the safety properties the proofs of section 9 cover any number of threads.
The runs check deadlock: a thread can always receive another request.

## 5. `Ingest`: state and actions

| TLA+ | code |
|---|---|
| `leaves[n]` | the rows of level L0 in `memory_nodes`: event id and timestamp of the record; `raced` records which leaves others stored between this leaf's check and its write |
| `summarized` | the leaves that some `build_summaries` has listed |
| `call[c]` | the locals of one `ingest_memory` or `ingest_batch` call: `todo` the records left, `ingested` and `duplicates` the lists of the response; `written` records the ids this call stored itself |

`ReceiveBatch` sorts the records if asked to and enters the loop, `ReceiveOne` goes straight
to `write_l0`.  `FindDuplicate` is the look-up of the loop, `CheckBeforeWrite` the second
look-up inside `write_l0`, which returns the earliest leaf of the event, and `WriteLeaf` the
transaction that stores: three transactions, other calls between any two of them.
`LoopEnds` decides about the build, `BuildSummaries` lists the leaves there are (what comes
of them is `SummaryTree`), `Respond` answers.  `Fail` is a transaction or the build raising,
or the process stopping: what was written stays, and the client may send the request again,
which is a new `Receive`.  The embedding, scores and text of a record are left out, and so
is deletion, whose overlap with writers is checked in `SummaryTree`.

### Runs

* `ingest_overlap` - two callers, single and batch requests, all interleavings, failures and
  repetitions.  Two leaves of one event only ever come from calls that overlapped; no event
  of an answered request is lost; a sorted batch drops no record of an event for a later one
  that it stored under deduplication (`EarliestKept`: a record with `allow_duplicate` is stored
  whatever is there, so it may follow a drop); a batch that asked for a build returns no leaf
  a build has not seen.
* `ingest_race` (violation of `OneLeafPerEvent`) - two requests with one event look it up,
  both find nothing, both store.

Bounds: three leaf ids and one event, with records of it at two times, one with
`allow_duplicate`, and a record without event id; two batches of two records, one of them
out of order, one whose second record repeats the event of the first with `allow_duplicate`.
A race needs two calls and one event; the third id lets a call write before or after the
race. Deadlock is checked: a call that finds the id pool used up can still fail.

## 6. `BranchSelection`: state and actions

| TLA+ | code |
|---|---|
| `stored`, `stale`, `accesses` | rows of `memory_nodes`, `stale_flag`, `access_count` |
| `written`, `deleted`, `others`, `highest`, `outdated` | history: nodes ever written and ever deleted, accesses counted by other calls, the highest count a row ever had, nodes whose count was written from an older one |
| `stage`, `legacy` | where the call is; whether it is inside `_retrieve_legacy` |
| `entities`, `leaves`, `summaries` | `query_entities` with their aliases, the ranked leaves, `ranked_summaries` |
| `branch`, `unread`, `children`, `spent` | the loop over branches: its index, the `child_ids` still to read, the children read, `branch_consumed` |
| `queue` | what the current loop still has to go through: `children_to_add`, flat candidates, nodes to pack |
| `consumed`, `picked`, `trace` | `consumed`, `picked` with `picked_ids`, `trace_entries` |
| `marking`, `seen` | what is selected and still to be marked, and the count `mark_accessed` has read |
| `packed`, `used` | the context and its tokens |

One call of `retrieve` or `retrieve_flat` from the request to the packed context.  The
pipeline routes the query (`RouteQuery`) and tries a leaf-first answer (`Probe`), then
`_retrieve_legacy` does both again with what the store holds by then; `ListSummaries` ranks
and cuts the branches; `OpenBranch`, `ReadChild`, `Descend`, `AddChild`, `SkipChild`,
`ChildrenAdded` and `TakeSummary` are the loop over them, `Supplement` one turn of the
supplemental loop, `Finish` the sort or the fallback; `ListFlat`, `TakeFlat`, `SkipFlat`,
`FlatEnds` are flat retrieval, `PackNode` a turn of `ContextPacker.pack`.  A step is the work
up to and including one access to the store.  `mark_accessed` is two (`MarkReads`, `MarkWrites`)
for each node selected, one after the other for the two of a leaf-first answer; it does
nothing for a row that is gone (`MarkMissesRow`), and when the row goes between the two the
UPDATE matches none, the transaction fails, and the call with it (`MarkFails`: stage `failed`).

Between two accesses others change the store.  Nodes are written, marked stale and deleted; a
deletion spares what was created after its SELECT (`Forget`).  Another retrieval marks a node
(`OtherMarks`), from any count the row has had so far, since it may have read it long before.
A build backfilling a leaf, or a `verify_job` on any node, writes a copy back (`WriteBack`) with
the count and stale flag of then, and may so bring back a row that was deleted.

A node is a record of attributes (tokens, score components, names, terms, facets, polarity);
a query is what the regular expressions of the policy find in it.  `QueryRouting` is the
decision table and the coverage policy over these, `CandidateScoring` the scores: rational
numbers with a common denominator, so that ties and thresholds fall as in the code.  The
decay of recency, the text measures and the wording of reasons are left out.  Children are
read one by one but scored as they are listed in the end; the sort is stable, as Python's.

### Run

* `selection` - five leaves (one arrives during the call), two summaries that share a leaf,
  the default policy, eight queries that take each route, all modes, budgets that no leaf,
  one leaf, some leaves and all of them fit, `branch_limit` 0 to 2, and up to two changes of
  the store between any two steps. The budget holds but for a leaf-first answer of a single
  leaf, which nobody compares to it (`BudgetKept`); trace and selection are about the same
  nodes and `consumed` is the sum of their tokens (`BookkeepingAgrees`); an `access_count` is never
  more than the accesses made - one of this call per node it selected and has marked, and
  those of other calls - and less only if the row was deleted or a count was written, by
  whichever call or job, from one that was out of date (`AccessOnceEach`); an empty selection
  means that nothing that was there all the time fits (`NothingFitsIfEmpty`); the context
  repeats nothing and is full up to what overlaps or does not fit (`ContextPacked`); and the
  call ends, answered or failed (`EveryCallEnds`).

Bounds: one call in full, as calls share only the cache of `RetrievalPipeline` and the counts,
on which others act through `OtherMarks`; one leaf and one summary that others mark and write
back (`Contended`); two changes, since a deletion followed by a write-back is the longest that
matters to one node.
Fairness: the thread of the call runs; the store need not change.  Deadlock is not checked:
the call is over at `done` or `failed`.

## 7. `FrontierSweep`: state and actions

| TLA+ | code |
|---|---|
| `disk`, `tmp` | the checkpoint file and the temporary one; `TornFile` is half-written content |
| `mem` | `FrontierCheckpointStore.state` |
| `stage`, `after` | where the process is; `save` is inside `_write_checkpoint`, which returns to `after` |
| `config`, `policy`, `workers` | what enters the config signature, the base policy it loaded, `candidate_workers` |
| `rows`, `pending`, `todo`, `futures` | `evaluated`, `pending_candidates`, what the serial loop has left, the futures |
| `fellBack`, `best`, `doubled` | whether the serial loop repeats the pool, what heads each ranking, which seeds were ranked with two rows of a candidate (history) |
| `basePolicy`, `edits`, `starts` | the policy file and how often it was edited, processes started |

`Start` to `BeginSweep` are `run_frontier_sweep`, `FrontierCheckpointStore.create` and
`restored_candidates`; `Evaluate` and `SerialEnds` the serial loop; `PoolEvaluates`,
`TakeResult`, `TakeException`, `PoolEnds`, `FallBack`, `SweepFails` the pool; `Rank`,
`NextSeed`, `Report` the end.  Every save is two steps, `Persist` (the temporary file is half
written) and `Replace`; `SaveFails` is an `OSError` in between, which inside the pool is
caught by the handler meant for workers that are not available.  `Crash` stops the process
anywhere.  An evaluation yields one of the measurements of its point under the policy loaded:
two evaluations of one candidate may differ, as model calls do.

`ParetoFrontier` holds the arithmetic: `Objectives` of a candidate from its slices,
`Dominates` with a tolerance, `Undominated` (the frontier), `Utility` and `Distinct` (the
rejection of repeated samples).  Which points are drawn for a seed is part of the config:
the generators are seeded and so repeat themselves.

### Run

* `sweep_resume` - two seeds, one given twice, three points one of which measures differently
  from time to time, two configs (one with a tolerance under which three candidates dominate
  each other in a circle), serial or with two workers, two starts, one edit of the base
  policy.  The file on disk is always a whole one; a recorded result is lost by nothing and
  replaced only by the serial loop that repeats a failed pool (`RecordedKept`); a candidate
  has two rows only then (`OncePerCandidate`); what is ranked is on disk
  (`RankedIsRecorded`); the frontier in a checkpoint is the one its results have, however
  often the sweep was stopped (`ResumeAgrees`); results of two policies mix only across a
  restart (`MixNeedsResume`); without a tolerance the best candidate is on the frontier
  (`BestOnFrontier`); every process ends (`SweepEnds`).

Bounds: two starts, since a third continues from a file like the second; one edit is enough
to mix.  Fairness: a process that is running goes on - its worker processes included, as the
executor waits for them; nothing is assumed about starts and failures.  Deadlock is not
checked: the last process ends.

What the properties leave open is what the code does: after a failed pool two rows of one
candidate are ranked, and a row that has been replaced in the file can keep another candidate
off the frontier; a sweep resumed after an edit of the policy file is not refused, because
the policy is not part of its signature; with a tolerance the frontier can be empty.

## 8. `ScenarioReplay`: state and actions

| TLA+ | code |
|---|---|
| `rows` | `memory_nodes` of all databases: the configured one is 0, a candidate's temporary one its job; a row is the n-th event of a replay, or (n = 0) a summary |
| `call[t]` | a job on thread t: which scenario it is at, events left, model calls left, failed attempts of the current one, what it has read, the results so far |
| `foreign`, `cleared` | history: whose rows of this agent were there or were touched during the replay |

Jobs: `eval` (`run_selected`), `candidate` (`_evaluate_candidate` with `_slice_report`),
`counterfactual` (`run_counterfactual_replay`), `benchmark` (`seed_benchmark_agents`), `seed`
and `graph` (`seed_complex_demo` for a scenario and for the demo graph).  `List` and `Clear`
are the check and the deletion before a seeding, `Write` one event or node, `Build` the
listing of a build; `Answered`, `Transient` and `Rejected` are what can come of a model call:
a reply, a failure that is retried up to `MaxRetries` times, one that is raised at once.
`Skips` is the error a candidate survives: one whose text, which quotes the answer, says that
the prompt was refused - raised at once, or after the last retry (`ErrorText`).  `Flat`, `Retrieve` and `Reply` read the rows.
`Variant` applies the operations of a counterfactual request to the events; an operation that
matches no event or several raises, after the base scenario was replayed.

The assumptions on jobs are those of the code that makes them: two scenarios of a catalogue
slice have the same agent only if they are the same scenario (`_agent_id`,
`scenario_with_perturbation`), and only a counterfactual request has variants
(`JobsAssumption`).  What the operations make of the events is computed by a fold, whose type
is assumed (`EventsAssumption`: a list of events, or an error); TLC evaluates both.

### Run

* `replay` - two threads, two jobs of seven kinds: a candidate that replays one scenario twice,
  an eval, a forced benchmark seeding, a counterfactual request with all four operations and
  a variant that cannot be resolved, a seeding, and the demo graph with and without force;
  up to one cluster per build and one retry.  A replay sees all its own events unless another
  job deletes the agent, and nothing else if no other job touched the agent and its job
  replays no scenario twice (`OwnEventsOnly`); candidates are never disturbed.  The report of a
  finished job accounts for every scenario in order, only a candidate skips, and only
  what its error says the provider refused (`ReportComplete`); every job ends (`JobsEnd`).

The conditions of `OwnEventsOnly` say where isolation ends: `run_all` creates a fresh
service per scenario "for isolation", but all of them use the configured database, so a
second run of a scenario retrieves from the memories of the first; seeds of two slices that
overlap replay a scenario twice within a job (a perturbed scenario gets an agent of its own);
two variants with one id share an agent; and a request for the demo that comes while another
is writing is told that the data is there.

Bounds: one event per scenario (two in the demo graph, where writing in passes matters), as
replays interleave per transaction and not per event; a reset of several agents is in the
model (`AfterReset`), the instance resets one.  Fairness: weak, per thread; a thread in a model
call proceeds because the HTTP client has a timeout.  Deadlock is not checked: with `MaxJobs`
jobs done nothing is left to do.

## 9. Proofs

`SummaryTreeProofs`, for every set of leaves, summaries, builders, verifiers and refreshers,
and every partition `Clusters`:

* `TypeCorrect` - `TypeOK`, with `LocalsOK` as strengthening: a draft is a complete row from
  generation to save, and every leaf still to be linked was listed as a stored row.
* `EdgesAlwaysMatchRows` - `EdgesMatchRows`, inductive with types and `WipeCovers`: of
  a node that was not written since a deletion began (`torn`), the deletion has selected the row
  and, from its first DELETE on, removes all edges with it.
* `IdentityNeverChanges`, `OnlyWritersBringBack` - from two facts about what the jobs hold:
  `DraftsOwned` (ids are drawn once, and nobody but its build has a draft's row) and
  `AuditsAgree` (what a verify job will write back has the children and the version of the
  stored row).  Without the first, a save could overwrite a stored summary.
* `StaleStaysStale` - assumes there is no verify job (`Verifier = {}`); the run
  `tree_verify_after_refresh` shows that the assumption is needed.
* `LinksAlwaysSound` - assumes nothing is deleted (`Deleter = {}`); the strengthening
  `CallLinked` says that the links in the copies a build holds are sound too, and that what
  it is linking is stored.

`TreeLineageProofs` goes on from there.  It first says what each step of a build does to its
locals and to the tables (`BuildCases`), and then proves, each under the conditions of the run
that checks it:

* `TracesFirst` - `TracesPrecedeRows`, if nothing is deleted; `TracesInv` adds that a draft has
  the traces of the model calls behind it and that whatever may be written back has both.
* `ClustersAccounted` - `NoClusterDropped`, if nothing is deleted: a cluster is still to do,
  rejected, or covered by a summary the build holds, at every moment of the build
  (`Accounted`).  It takes `LeavesFresh`, as a build lists only what is not stale.
* `BacklinksAlwaysComplete` - `BacklinksComplete`, for one builder that does not crash, if
  nothing is deleted.  With one builder nobody else writes the leaves it has copied
  (`CopiesCurrent`), so the rows it writes back erase nothing; `tree_two_builders` shows the
  erasure with two.
* `NewestIsLive` - `LiveIsNewest`, for one builder and no verify job, with crashes and
  deletions: no live summary covers the cluster of a draft, and the draft is newer than all
  that do (`DraftNewest`).
* `TreeRefinesLineage` - the refinement `RefinesLineage`, for one builder, no verify job and
  no deletion: one lemma per kind of step says which step of `SummaryLineage` it is, or that
  it changes nothing the abstract tree shows.

`RetrievalPipelineProofs`, for every set of threads and requests and every `Key`:

* `TypeCorrect` - types, and that a call that answers has a result.
* `NoLeftovers` - `OnlyOverlapMixes`, with `NoEarlyResult`: a call has no result before the
  step that takes one on.
* `CacheAlwaysDrains` - `CacheDrains` from `SomeoneDrains`: as long as a result is cached,
  some call is bound to clear it - one that has ranked and not yet cached its request, one
  whose request is the cached one, or one past the check.
* `AloneTracesHonest` - `TracesHonest` when there is only one thread: mutual exclusion is
  all that is missing.

`IngestProofs`, for every set of callers, ids, events, records and batches:

* `TypeCorrect` - types, and that a call about to check or to write has a record left.
* `RaceNeeded` - `DuplicatesOnlyFromRace`.  It is inductive together with `RacersKnown`:
  a call that is about to write under deduplication has every leaf of its event among those
  stored since its check.
* `NoEventLost` - `EventsCovered`, from `Accounted`: at any point of a call each of its
  records is still to be done or has a leaf of its event.
* `AloneOneLeaf` - `OneLeafPerEvent` when there is only one caller, however often requests
  fail and are repeated.
* `EarliestStored`, `BuildListsAll` - `EarliestKept` and `BuildCovers`, from what is true of
  each call whatever the others do (`CallSound`): what it returns is stored, what it noted as
  a duplicate is a known event, and nothing it has stored is later than what a sorted batch
  still has to do.  The proof corrected `EarliestKept`, which did not except records with
  `allow_duplicate`; TLC has the counterexample as soon as a batch holds such a record
  behind one of the same event, and the run has that batch now.

`FrontierSweepProofs`, for any configs, seeds, draws, measurements and bounds:

* `TypeCorrect` - types, and with them that the file on disk is a whole checkpoint.
* `ResultsKept` - `RecordedKept`, from `Extends`: the state in memory has every result of the
  file, but for those the serial loop is replacing.
* `RankedRecorded` - `RankedIsRecorded`, from `Saved` (between two saves the file is the state,
  except from a failed save inside the pool to the next one) and `RowsListed` (the rows of a
  candidate end with what is recorded of it; one without rows is still to be evaluated).
* `CandidatesOnce` - `OncePerCandidate`, with `RowsOnce`: the serial loop of a sweep that has
  not fallen back only has candidates without rows left.

* `PoliciesMixed` - `MixNeedsResume`.  As long as the policy was not edited or only one process
  was started, there is one policy behind everything in the file, in memory and in the futures
  (`OnePolicy`).
* `ResumedFrontier` - `ResumeAgrees`, from `FinishedRuns`: in the file and in memory a finished
  run has a result for each candidate of its sweep and the frontier of these.  A run that is
  still evaluating is not finished (`Unfinished`), and only candidates of its sweep get rows
  (`RowsOfThis`).
* `BestReported` - `BestOnFrontier`, from `BestInv` (what the report holds of a seed is on the
  frontier of that seed's run, and each seed is ranked before the next) and the theorem below.

`ParetoFrontierProofs` has the arithmetic: `BestUndominated` says that, without tolerance, the
highest utility among finitely many candidates exists and belongs to one that none dominates.
A candidate that dominates has more utility, because the weights are positive (but for
a family objective that is not there) and each objective is scaled by the same span for all
(`UtilityGrows`).  With it go the lemmas that a
non-empty finite set of integers has a least and a greatest member and that `Distinct`
numbers its points without gaps and loses none.

They rest on `ConfigAssumption`: the draws are points of the policies, and the objectives of an
evaluation are integers (they are folds, whose values the provers cannot compute; TLC
evaluates the assumption in the run).

`BranchSelectionProofs`, for any nodes, policy, requests, budgets and number of changes of
the store during a call:

* `TypeCorrect` - types, and that a branch is one of those listed and what is spent in it is
  part of what is consumed.
* `Budget` - `BudgetKept`, from `AllowanceBound` (a branch is never allowed more than is left)
  and `WithinBudget`: whatever goes on selecting is within the budget.
* `Selected` - `SelectedOnce`: trace and selection have the same nodes, each once.
* `Bookkeeping` - `BookkeepingAgrees`, from `Counted`: at every moment `consumed` is the sum of
  the tokens in the trace.  A sum is a recursive function, and that it exists and what one
  more entry adds is proved from the least list for which it would fail.
* `Packed` - `ContextPacked`, from `Packing`: the context counts the query and its snippets, no
  two of them overlap, and what was selected is still in the queue or was left out for a
  reason that remains, as the context only grows.
* `Accesses` - `AccessOnceEach`, from `CountsKept` and `Pending`: what a count lacks of the accesses
  made is excused by a deletion or an outdated write, no count is above what a row ever had,
  and what is still to be marked is selected, once, and not counted yet.
* `EmptyAnswer` - `NothingFitsIfEmpty`, from `FlatQueue`: while flat retrieval has taken
  nothing, each leaf that fits is still in its queue.

They rest on `NodesAssumption` (finitely many nodes with natural attributes) and
`RequestsAssumption`.

`ScenarioReplayProofs`, for any jobs, threads, databases and retries:

* `TypeCorrect` - types, and with them that a call is retried at most `MaxRetries` times.
* `MeasuredOnItsOwn` - `OwnEventsOnly`, from what is true of each job (`CallInv`): the rows under
  its agent are its own or of a job it has noted as foreign (`Accounted`), its own rows are
  there unless they were cleared (`Kept`), and rows carry the agent of the scenario they were
  written for (`Planned`).  Numbers are given once (`NumbersDiffer`), and a database that is
  not the configured one has rows of its candidate only (`RowsSound`).
* `NothingLeftOut` - `ReportComplete`, from `Reported`: the results so far are those of the
  scenarios before the current one, in order.

Only model-checked is liveness (`BuildTerminates`, `EveryRequestEnds`, `SweepEnds`,
`EveryCallEnds`, `JobsEnd`): fairness is out of the prover's reach.  The properties of the
violation runs do not hold in general; `AloneTracesHonest` and `AloneOneLeaf` prove two of them
for a single thread or caller, `StaleStaysStale` and `BacklinksAlwaysComplete` the other two
without a verify job and for a single builder.

## 10. Not modelled

In part: the read-only views and projections of the store and the service, the traces that
retrievals and evals append, the ablation (an eval with more retrievals), argument parsing.

Not at all: text (feature regular expressions, prompts, the deterministic test model, token
estimation), embeddings, the components of a score (text overlap, recency decay), response
formatting, the scenario catalogue, reports and plots, the UI, migrations.  They keep no state
a second actor can see, and what is wrong with them is better found by running them.

---------------------------- MODULE FrontierSweep ----------------------------
(***************************************************************************)
(* A frontier sweep and its checkpoint file (packages/evals/frontier.py,     *)
(* run_frontier_sweep with --checkpoint-path).  For each optimizer seed the  *)
(* process evaluates the baseline and the sampled candidates, serially or in *)
(* a process pool, replaces the checkpoint file after each one, and          *)
(* extracts the frontier.  A process may stop anywhere; the next one         *)
(* continues from the file.                                                  *)
(*                                                                          *)
(* The base policy is a file that may be edited at any time.  How a          *)
(* candidate is evaluated is module ScenarioReplay; here it is a choice among *)
(* the measurements that policy and overrides allow, or an exception.        *)
(***************************************************************************)
EXTENDS ParetoFrontier

CONSTANTS
  Config,         \* what enters the config signature of a sweep
  Policy,         \* versions of the base policy file
  OptimizerSeeds, \* seeds of the sweeps, as given on the command line
  Baseline,       \* the override-free point
  Measured,       \* Measured[p][o]: slice metrics o may get over policy p
  NoResult, NoRun, NoFile, TornFile,
  MaxStarts,      \* bound: processes started
  MaxEdits        \* bound: edits of the base policy

Seed == Range(OptimizerSeeds)
RunSeeds == Distinct(OptimizerSeeds)

(* The candidates of one sweep are numbered: 0 is the baseline, and           *)
(* candidate_000i the i-th distinct point drawn with that seed.              *)
CandidateId == 0..Max({Len(cfg.draws[s]) : cfg \in Config, s \in Seed})
Points == [cfg \in Config |-> [s \in Seed |-> Distinct(cfg.draws[s])]]
Candidates(cfg, s) == 0..Len(Points[cfg][s])
Overrides(cfg, s, c) == IF c = 0 THEN Baseline ELSE Points[cfg][s][c]

(* The points drawn can be laid over any version of the base policy, and every *)
(* evaluation measures integers.                                             *)
ASSUME ConfigAssumption ==
  /\ IsFiniteSet(Config) /\ Config # {} /\ Policy # {}
  /\ OptimizerSeeds \in Seq(Seed) /\ OptimizerSeeds # <<>>
  /\ \A cfg \in Config : cfg.epsilon \in Nat /\ cfg.family \in {"max", "min", "none"}
  /\ \A p \in Policy :
       /\ Baseline \in DOMAIN Measured[p]
       /\ \A cfg \in Config, s \in Seed : cfg.draws[s] \in Seq(DOMAIN Measured[p])
       /\ \A cfg \in Config, o \in DOMAIN Measured[p] : \A m \in Measured[p][o] :
            Objectives(m, cfg.family) \in [Objective -> Int]
ASSUME BoundsAssumption == MaxStarts \in Nat /\ MaxEdits \in Nat
Result == [policy : Policy, vector : [Objective -> Int]]
Run == [completed : [CandidateId -> Result \cup {NoResult}],
        finished : BOOLEAN, frontier : SUBSET CandidateId]
File == [config : Config, runs : [Seed -> Run \cup {NoRun}]]

ASSUME ValuesAssumption ==
  /\ NoResult \notin Result /\ NoRun \notin Run
  /\ NoFile \notin File /\ TornFile \notin File /\ NoFile # TornFile

NewRun == [completed |-> [c \in CandidateId |-> NoResult],
           finished |-> FALSE, frontier |-> {}]

(* _evaluate_candidate, when it returns: Results[p][o][cfg]. *)
Results ==
  [p \in Policy |-> [o \in DOMAIN Measured[p] |-> [cfg \in Config |->
     {[policy |-> p, vector |-> Objectives(m, cfg.family)] : m \in Measured[p][o]}]]]
Evaluations(p, cfg, s, c) == Results[p][Overrides(cfg, s, c)][cfg]

VARIABLES
  basePolicy, edits,  \* the policy file now; how often it was edited
  disk, tmp,          \* the checkpoint file and the .tmp file next to it
  starts,             \* processes started so far
  stage, after,       \* where the process is; where it goes once it has saved
  config, policy,     \* its arguments; the base policy it loaded
  workers,            \* candidate_workers
  mem,                \* FrontierCheckpointStore.state
  index,              \* of the optimizer seed it is at
  rows,               \* `evaluated`, by candidate: the results in order
  pending,            \* pending_candidates
  todo,               \* what the serial loop has left of them
  futures,            \* the futures of the pool
  fellBack,           \* the serial loop repeats what the pool was to do
  best,               \* by seed: what heads the candidates in the report
  doubled             \* seeds ranked with two rows of one candidate (history)

world == <<basePolicy, edits>>
files == <<disk, tmp>>
args == <<starts, config, policy, workers>>
sweep == <<rows, pending, todo, futures, fellBack>>
outcome == <<best, doubled>>
vars == <<world, files, args, stage, after, mem, index, sweep, outcome>>

Stage == {"down", "create", "restore", "sweep", "serial", "pool", "fallback",
          "failing", "save", "rank", "next", "report"}

None == [state |-> "none", result |-> NoResult]
Submitted == [state |-> "submitted", result |-> NoResult]
Raised(e) == [state |-> e, result |-> NoResult]
Done(r) == [state |-> "done", result |-> r]

seed == RunSeeds[index]

AnyConfig == CHOOSE cfg \in Config : TRUE
AnyPolicy == CHOOSE p \in Policy : TRUE
NoRows == [c \in CandidateId |-> <<>>]
NoFutures == [c \in CandidateId |-> None]

Init ==
  /\ basePolicy \in Policy /\ edits = 0
  /\ disk = NoFile /\ tmp = NoFile
  /\ starts = 0 /\ stage = "down" /\ after = "down"
  /\ config = AnyConfig /\ policy = AnyPolicy /\ workers = 1
  /\ mem = NoFile /\ index = 1
  /\ rows = NoRows /\ pending = {} /\ todo = {} /\ futures = NoFutures
  /\ fellBack = FALSE
  /\ best = [s \in Seed |-> {}] /\ doubled = {}

(* The process ends, by itself or not; its memory is gone.                   *)
Stop ==
  /\ stage' = "down" /\ after' = "down"
  /\ config' = AnyConfig /\ policy' = AnyPolicy /\ workers' = 1
  /\ mem' = NoFile /\ index' = 1
  /\ rows' = NoRows /\ pending' = {} /\ todo' = {} /\ futures' = NoFutures
  /\ fellBack' = FALSE
  /\ best' = [s \in Seed |-> {}]
  /\ UNCHANGED <<world, starts, doubled>>

(* The state with another run for a seed; with a result of a candidate.       *)
WithRun(file, s, run) == [file EXCEPT !.runs[s] = run]
WithResult(c, r) == WithRun(mem, seed, [mem.runs[seed] EXCEPT !.completed[c] = r])

GoTo(next) == stage' = next /\ UNCHANGED after

(* Slip: the file itself is opened for writing. *)
SlipPersistInPlace(content, next) ==
  /\ mem' = content
  /\ disk' = TornFile
  /\ stage' = "save" /\ after' = next
  /\ UNCHANGED tmp

(* _write_checkpoint, up to where the temporary file is half written; the     *)
(* step Replace ends it.                                                     *)
Persist(content, next) ==
  /\ mem' = content
  /\ tmp' = TornFile
  /\ stage' = "save" /\ after' = next
  /\ UNCHANGED disk

-----------------------------------------------------------------------------
(* Starting *)

Edit ==
  /\ edits < MaxEdits
  /\ edits' = edits + 1
  /\ basePolicy' \in Policy \ {basePolicy}
  /\ UNCHANGED <<files, args, stage, after, mem, index, sweep, outcome>>

(* run_frontier_sweep loads the base policy once; it is not part of the       *)
(* config signature.                                                         *)
Start(cfg, n) ==
  /\ stage = "down" /\ starts < MaxStarts
  /\ starts' = starts + 1
  /\ config' = cfg /\ workers' = n /\ policy' = basePolicy
  /\ GoTo("create")
  /\ UNCHANGED <<world, files, mem, index, sweep, outcome>>

CreateFile ==
  /\ stage = "create" /\ disk = NoFile
  /\ Persist([config |-> config, runs |-> [s \in Seed |-> NoRun]], "restore")
  /\ UNCHANGED <<world, args, index, sweep, outcome>>

LoadFile ==
  /\ stage = "create" /\ disk \in File /\ disk.config = config
  /\ mem' = disk
  /\ GoTo("restore")
  /\ UNCHANGED <<world, files, args, index, sweep, outcome>>

(* Another config signature, or a file that is not JSON: an exception.       *)
RefuseFile ==
  /\ stage = "create" /\ disk # NoFile
  /\ ~(disk \in File /\ disk.config = config)
  /\ Stop /\ UNCHANGED files

(* Slip: a run that is not finished starts afresh. *)
SlipEnsureRunAfresh ==
  /\ stage = "restore"
  /\ IF mem.runs[seed] = NoRun \/ ~mem.runs[seed].finished
     THEN Persist(WithRun(mem, seed, NewRun), "sweep")
     ELSE GoTo("sweep") /\ UNCHANGED <<files, mem>>
  /\ UNCHANGED <<world, args, index, sweep, outcome>>

(* restored_candidates enters the run in the file if it is not there yet.    *)
EnsureRun ==
  /\ stage = "restore"
  /\ IF mem.runs[seed] = NoRun
     THEN Persist(WithRun(mem, seed, NewRun), "sweep")
     ELSE GoTo("sweep") /\ UNCHANGED <<files, mem>>
  /\ UNCHANGED <<world, args, index, sweep, outcome>>

(* The candidates of this sweep that the checkpoint has a result of.         *)
Restored(completed) == {c \in Candidates(config, seed) : completed[c] # NoResult}

(* The head of _run_single_sweep.  A pool that cannot be created raises        *)
(* PermissionError or OSError.                                               *)
BeginSweep ==
  /\ stage = "sweep"
  /\ LET completed == mem.runs[seed].completed
         restored == Restored(completed)
         left == Candidates(config, seed) \ restored
     IN /\ rows' = [c \in CandidateId |-> IF c \in restored THEN <<completed[c]>> ELSE <<>>]
        /\ pending' = left
        /\ \/ left = {} /\ GoTo("rank") /\ UNCHANGED <<todo, futures>>
           \/ /\ left # {} /\ workers = 1
              /\ todo' = left /\ GoTo("serial") /\ UNCHANGED futures
           \/ /\ left # {} /\ workers > 1
              /\ futures' = [c \in CandidateId |-> IF c \in left THEN Submitted ELSE None]
              /\ GoTo("pool") /\ UNCHANGED todo
           \/ left # {} /\ workers > 1 /\ GoTo("fallback") /\ UNCHANGED <<todo, futures>>
  /\ fellBack' = FALSE
  /\ UNCHANGED <<world, files, args, mem, index, outcome>>

-----------------------------------------------------------------------------
(* Evaluating *)

(* Slip: the candidate is remembered only. *)
SlipCompletedInMemory(c, r, next) ==
  /\ rows' = [rows EXCEPT ![c] = Append(rows[c], r)]
  /\ mem' = WithResult(c, r)
  /\ GoTo(next) /\ UNCHANGED files

(* A result is appended, and on_candidate_complete records it in the file.   *)
Completed(c, r, next) ==
  /\ rows' = [rows EXCEPT ![c] = Append(rows[c], r)]
  /\ Persist(WithResult(c, r), next)

(* Slip: the policy file is read again for each candidate. *)
SlipEvaluateRereadsPolicy ==
  /\ stage = "serial" /\ todo # {}
  /\ \E c \in todo : \E r \in Evaluations(basePolicy, config, seed, c) :
       /\ \A d \in todo : c <= d
       /\ todo' = todo \ {c}
       /\ Completed(c, r, "serial")
  /\ UNCHANGED <<world, args, index, pending, futures, fellBack, outcome>>

(* The loop of _run_candidates_serial. *)
Evaluate ==
  /\ stage = "serial" /\ todo # {}
  /\ \E c \in todo : \E r \in Evaluations(policy, config, seed, c) :
       /\ \A d \in todo : c <= d
       /\ todo' = todo \ {c}
       /\ Completed(c, r, "serial")
  /\ UNCHANGED <<world, args, index, pending, futures, fellBack, outcome>>

EvaluationRaises ==
  /\ stage = "serial" /\ todo # {}
  /\ Stop /\ UNCHANGED files

SerialEnds ==
  /\ stage = "serial" /\ todo = {}
  /\ GoTo("rank")
  /\ UNCHANGED <<world, files, args, mem, index, sweep, outcome>>

(* A worker process of the pool comes to the end of a candidate: they are      *)
(* handed out in order, `workers` of them at a time.                         *)
PoolEvaluates(c) ==
  /\ futures[c] = Submitted
  /\ Cardinality({d \in pending : d < c /\ futures[d] = Submitted}) < workers
  /\ \/ \E r \in Evaluations(policy, config, seed, c) :
          futures' = [futures EXCEPT ![c] = Done(r)]
     \/ \E e \in {"osError", "error"} : futures' = [futures EXCEPT ![c] = Raised(e)]
  /\ UNCHANGED <<world, files, args, stage, after, mem, index, rows, pending,
                 todo, fellBack, outcome>>

(* Slip: the future stays in the set. *)
SlipTakeResultKeepsFuture(c) ==
  /\ stage = "pool" /\ futures[c].state = "done"
  /\ Completed(c, futures[c].result, "pool")
  /\ UNCHANGED <<world, args, index, pending, todo, futures, fellBack, outcome>>

(* as_completed hands over a future that is done. *)
TakeResult(c) ==
  /\ stage = "pool" /\ futures[c].state = "done"
  /\ futures' = [futures EXCEPT ![c] = None]
  /\ Completed(c, futures[c].result, "pool")
  /\ UNCHANGED <<world, args, index, pending, todo, fellBack, outcome>>

TakeException(c) ==
  /\ stage = "pool" /\ futures[c].state \in {"osError", "error"}
  /\ GoTo(IF futures[c].state = "osError" THEN "fallback" ELSE "failing")
  /\ UNCHANGED <<world, files, args, mem, index, sweep, outcome>>

PoolEnds ==
  /\ stage = "pool" /\ futures = NoFutures
  /\ GoTo("rank")
  /\ UNCHANGED <<world, files, args, mem, index, sweep, outcome>>

(* Slip: the results are waited for, not the workers. *)
SlipPoolIdleWhenTaken == futures = NoFutures

(* An exception leaves the pool once the executor has waited for all futures;  *)
(* PermissionError and OSError lead to the serial loop over all of           *)
(* pending_candidates, other exceptions end the sweep.                       *)
PoolIdle == \A c \in pending : futures[c] # Submitted

FallBack ==
  /\ stage = "fallback" /\ PoolIdle
  /\ futures' = NoFutures /\ todo' = pending /\ fellBack' = TRUE
  /\ GoTo("serial")
  /\ UNCHANGED <<world, files, args, mem, index, rows, pending, outcome>>

SweepFails ==
  /\ stage = "failing" /\ PoolIdle
  /\ Stop /\ UNCHANGED files

-----------------------------------------------------------------------------
(* Saving, ranking and reporting *)

Replace ==
  /\ stage = "save"
  /\ disk' = mem /\ tmp' = NoFile
  /\ stage' = after /\ UNCHANGED after
  /\ UNCHANGED <<world, args, mem, index, sweep, outcome>>

(* The file cannot be written: OSError, which the handler around the pool      *)
(* takes for workers that are not available.                                 *)
SaveFails ==
  /\ stage = "save"
  /\ IF after = "pool"
     THEN /\ GoTo("fallback")
          /\ UNCHANGED <<world, args, mem, index, sweep, outcome>>
     ELSE Stop
  /\ UNCHANGED files

RowsOfSweep ==
  UNION {{[id |-> c, vector |-> rows[c][i].vector] : i \in DOMAIN rows[c]} : c \in CandidateId}

(* Ranking, and mark_run_completed. *)
Rank ==
  /\ stage = "rank"
  /\ \E ranked \in {RowsOfSweep} :
       LET frontier == {x.id : x \in Undominated(ranked, config.epsilon)}
           run == [mem.runs[seed] EXCEPT !.finished = TRUE, !.frontier = frontier]
       IN /\ Persist(WithRun(mem, seed, run),
                     IF index < Len(RunSeeds) THEN "next" ELSE "report")
          /\ best' = [best EXCEPT ![seed] = Best(ranked, config.family)]
  /\ doubled' = IF \E c \in CandidateId : Len(rows[c]) > 1
                THEN doubled \cup {seed} ELSE doubled
  /\ UNCHANGED <<world, args, index, sweep>>

NextSeed ==
  /\ stage = "next"
  /\ index' = index + 1
  /\ GoTo("restore")
  /\ UNCHANGED <<world, files, args, mem, sweep, outcome>>

(* The report is written and the process ends.                               *)
Report ==
  /\ stage = "report"
  /\ Stop /\ UNCHANGED files

Crash ==
  /\ stage # "down"
  /\ Stop /\ UNCHANGED files

Work ==
  \/ CreateFile \/ LoadFile \/ RefuseFile \/ EnsureRun \/ BeginSweep
  \/ Evaluate \/ SerialEnds
  \/ \E c \in CandidateId : PoolEvaluates(c) \/ TakeResult(c) \/ TakeException(c)
  \/ PoolEnds \/ FallBack \/ SweepFails \/ Replace \/ Rank \/ NextSeed \/ Report

Next ==
  \/ Work \/ EvaluationRaises \/ SaveFails \/ Crash \/ Edit
  \/ \E cfg \in Config, n \in {1, 2} : Start(cfg, n)

Spec == Init /\ [][Next]_vars

(* A process that is running goes on; nothing is assumed about starts,        *)
(* edits and failures.                                                       *)
FairSpec == Spec /\ WF_vars(Work)

-----------------------------------------------------------------------------
(* Properties *)

(* Types.  Of the file on disk: it is always a whole checkpoint, whenever the  *)
(* process stops, because _write_checkpoint writes another file first.       *)
TypeOK ==
  /\ basePolicy \in Policy /\ edits \in 0..MaxEdits
  /\ disk \in File \cup {NoFile} /\ tmp \in {NoFile, TornFile}
  /\ starts \in 0..MaxStarts
  /\ stage \in Stage /\ after \in Stage
  /\ config \in Config /\ policy \in Policy /\ workers \in {1, 2}
  /\ mem \in File \cup {NoFile}
  /\ index \in 1..Len(RunSeeds)
  /\ rows \in [CandidateId -> Seq(Result)]
  /\ pending \subseteq CandidateId /\ todo \subseteq pending
  /\ futures \in [CandidateId ->
                    [state : {"none", "submitted", "done", "osError", "error"},
                     result : Result \cup {NoResult}]]
  /\ fellBack \in BOOLEAN
  /\ best \in [Seed -> SUBSET CandidateId] /\ doubled \subseteq Seed

IsFile(file) == file \notin {NoFile, TornFile}
Recorded(file, s, c) ==
  IF IsFile(file) /\ file.runs[s] # NoRun THEN file.runs[s].completed[c] ELSE NoResult
Finished(file, s) == IsFile(file) /\ file.runs[s] # NoRun /\ file.runs[s].finished

(* A result in the checkpoint file is never lost again (record_candidate,     *)
(* mark_run_completed, restarts), and only the serial loop that repeats the  *)
(* work of a failed pool replaces one.                                       *)
RecordedKept ==
  [][\A s \in Seed, c \in CandidateId : Recorded(disk, s, c) # NoResult =>
       \/ Recorded(disk', s, c) = Recorded(disk, s, c)
       \/ fellBack /\ s = seed /\ Recorded(disk', s, c) # NoResult]_vars

(* `evaluated` has one row per candidate, restored or evaluated, unless the    *)
(* pool failed and _run_candidates_serial went over all of                   *)
(* pending_candidates again; then there may be two, both of them ranked.     *)
OncePerCandidate == \A c \in CandidateId :
  Len(rows[c]) <= 1 \/ (fellBack /\ c \in pending /\ Len(rows[c]) = 2)

(* When _run_single_sweep ranks, every candidate has been evaluated and the    *)
(* file on disk holds the latest result of each: stopping from there on      *)
(* costs no evaluation.                                                      *)
RankedIsRecorded == stage = "rank" =>
  \A c \in Candidates(config, seed) :
    /\ rows[c] # <<>>
    /\ Recorded(disk, seed, c) = rows[c][Len(rows[c])]

(* The frontier_candidate_ids of a finished run are the candidates no other    *)
(* recorded one dominates, however often the sweep was stopped and resumed:  *)
(* what a resumed sweep reports is what an undisturbed one would have.  Runs *)
(* ranked with rows the failed pool left over are the exception.             *)
ResumeAgrees ==
  \A s \in Seed \ doubled : Finished(disk, s) =>
    disk.runs[s].frontier =
      {c \in Candidates(disk.config, s) :
         ~(\E d \in Candidates(disk.config, s) \ {c} :
             Dominates(Recorded(disk, s, d).vector, Recorded(disk, s, c).vector,
                       disk.config.epsilon))}

(* The base policy is not part of the config signature, so a sweep resumed     *)
(* after an edit mixes results of two policies; one process never does.      *)
MixNeedsResume ==
  \A s, t \in Seed, c, d \in CandidateId :
    LET a == Recorded(disk, s, c)
        b == Recorded(disk, t, d)
    IN a # NoResult /\ b # NoResult /\ a.policy # b.policy => starts > 1 /\ edits > 0

(* Without tolerance the candidate at the head of the list by utility score    *)
(* (_assign_utility_scores) is on the frontier, so no frontier is empty; with *)
(* a tolerance, dominance may be circular and this fails.                    *)
BestOnFrontier == stage = "report" /\ config.epsilon = 0 =>
  \A s \in Seed : best[s] # {} /\ best[s] \subseteq mem.runs[s].frontier

(* Every sweep comes to an end, be it by an exception: the pool and the loop   *)
(* that waits for it never wait for each other.                              *)
SweepEnds == stage # "down" ~> stage = "down"
=============================================================================

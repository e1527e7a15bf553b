------------------------- MODULE FrontierSweepProofs -------------------------
(***************************************************************************)
(* What the checkpoint of a frontier sweep guarantees for any number of       *)
(* seeds, candidates, restarts and edits of the base policy.                 *)
(***************************************************************************)
EXTENDS FrontierSweep, ParetoFrontierProofs

(* Where the process is, seen past the checkpoint it may be writing.         *)
Doing == IF stage = "save" THEN after ELSE stage
Evaluating == Doing \in {"serial", "pool", "fallback", "failing", "rank"}

SavesReturn ==
  /\ stage = "save" => after \in {"restore", "sweep", "serial", "pool", "next", "report"}
  /\ Doing = "next" => index < Len(RunSeeds)

(* The process has a state, which has the run of the seed it is at.          *)
MemoryLoaded ==
  /\ Doing \notin {"down", "create"} => mem \in File /\ mem.config = config
  /\ Doing \notin {"down", "create", "restore"} => mem.runs[seed] \in Run

(* Only the candidates of this sweep are pending; the serial loop and the pool *)
(* work on pending ones, one of them at a time.                              *)
PendingKnown ==
  /\ Doing # "serial" => todo = {}
  /\ Evaluating => pending \subseteq Candidates(config, seed)
  /\ futures = NoFutures \/ Doing \in {"pool", "fallback", "failing"}
  /\ \A c \in CandidateId : futures[c].state # "none" => c \in pending

(* A future that is done has a result.                                       *)
FuturesDone ==
  \A c \in CandidateId : futures[c].state = "done" => futures[c].result \in Result

(* A pool has something to do, and so has the loop that takes over.          *)
FallBackIsNew ==
  /\ Doing \in {"pool", "fallback"} => pending # {} /\ ~fellBack
  /\ Evaluating /\ fellBack => pending # {}

(* Between two saves the file is the state, except from the failure of a       *)
(* save inside the pool to the next one.                                     *)
Saved ==
  stage \notin {"down", "create", "save", "fallback"} =>
    disk = mem \/ (stage = "serial" /\ fellBack /\ todo = pending)

(* The state extends the file.                                               *)
Extends ==
  Doing \notin {"down", "create"} =>
    \A s \in Seed, c \in CandidateId : Recorded(disk, s, c) # NoResult =>
      \/ Recorded(mem, s, c) = Recorded(disk, s, c)
      \/ fellBack /\ s = seed /\ Recorded(mem, s, c) # NoResult

(* The rows of a candidate end with what is recorded of it, and a candidate    *)
(* without rows is still to be evaluated.                                    *)
RowsListed ==
  Doing \in {"serial", "pool", "fallback", "rank"} =>
    \A c \in Candidates(config, seed) :
      /\ rows[c] # <<>> => Recorded(mem, seed, c) = rows[c][Len(rows[c])]
      /\ rows[c] = <<>> /\ ~fellBack => Recorded(mem, seed, c) = NoResult
      /\ Doing = "serial" => (rows[c] = <<>> => c \in todo)
      /\ Doing = "serial" /\ ~fellBack => (c \in todo => rows[c] = <<>>)
      /\ Doing = "pool" => (rows[c] = <<>> <=> futures[c].state # "none")
      /\ Doing = "fallback" => (rows[c] = <<>> => c \in pending)
      /\ Doing = "rank" => rows[c] # <<>>

RowsOnce ==
  \A c \in CandidateId :
    \/ Len(rows[c]) <= 1
    \/ fellBack /\ c \in pending /\ Len(rows[c]) = 2 /\ (Doing = "serial" => c \notin todo)

(* The inductive invariant. *)
IInv ==
  /\ TypeOK /\ SavesReturn /\ MemoryLoaded /\ PendingKnown /\ FuturesDone /\ FallBackIsNew
  /\ Saved /\ Extends /\ RowsListed /\ RowsOnce

-----------------------------------------------------------------------------
(* What the assumptions on the command line come to: the seeds of the runs are *)
(* those given, the candidates of a sweep are numbered, and what is measured *)
(* of one is a result of the policy it was measured over.                    *)
LEMMA RunSeedsKnown ==
  /\ RunSeeds \in Seq(Seed) /\ RunSeeds # <<>>
  /\ \A s \in Seed : \E i \in 1..Len(RunSeeds) : RunSeeds[i] = s
<1>1. OptimizerSeeds \in Seq(Seed) /\ OptimizerSeeds # <<>>
  BY ConfigAssumption
<1>2. PICK r : r = RunSeeds
  OBVIOUS
<1>3. /\ r \in Seq(Seed)
      /\ \A i \in DOMAIN OptimizerSeeds : \E n \in 1..Len(r) : r[n] = OptimizerSeeds[i]
  BY <1>1, <1>2, DistinctKeeps DEF RunSeeds
<1>4. \A s \in Seed : \E i \in DOMAIN OptimizerSeeds : OptimizerSeeds[i] = s
  BY DEF Seed, Range
<1>5. r # <<>>
  <2>1. 1 \in DOMAIN OptimizerSeeds
    BY <1>1
  <2> QED
    BY <1>3, <2>1
<1> QED
  BY <1>2, <1>3, <1>4, <1>5

LEMMA SeedsFinite == IsFiniteSet(Seed)
<1>1. OptimizerSeeds \in Seq(Seed)
  BY ConfigAssumption
<1>2. IsFiniteSet(DOMAIN OptimizerSeeds) /\ OptimizerSeeds \in [DOMAIN OptimizerSeeds -> Seed]
  <2>1. Len(OptimizerSeeds) \in Int /\ 1 \in Int /\ DOMAIN OptimizerSeeds = 1..Len(OptimizerSeeds)
    BY <1>1
  <2>2. IsFiniteSet(1..Len(OptimizerSeeds))
    BY <2>1, FS_Interval
  <2> QED
    BY <1>1, <2>1, <2>2
<1>3. Seed = {OptimizerSeeds[i] : i \in DOMAIN OptimizerSeeds}
  BY DEF Seed, Range
<1> QED
  BY <1>2, <1>3, ImageFinite

LEMMA PointsKnown ==
  ASSUME NEW cfg \in Config, NEW s \in Seed, NEW p \in Policy
  PROVE  /\ Points[cfg][s] \in Seq(DOMAIN Measured[p])
         /\ Len(Points[cfg][s]) \in 0..Len(cfg.draws[s])
<1>1. cfg.draws[s] \in Seq(DOMAIN Measured[p])
  BY ConfigAssumption
<1>2. Points[cfg][s] = Distinct(cfg.draws[s])
  BY DEF Points
<1> QED
  BY <1>1, <1>2, DistinctKeeps

LEMMA EvaluationKnown ==
  ASSUME NEW cfg \in Config, NEW s \in Seed, NEW p \in Policy, NEW c \in Candidates(cfg, s),
         NEW r \in Evaluations(p, cfg, s, c)
  PROVE  r \in Result /\ r.policy = p /\ (cfg.family = "none" => r.vector["family"] = 0)
<1>1. Points[cfg][s] \in Seq(DOMAIN Measured[p]) /\ Baseline \in DOMAIN Measured[p]
  BY PointsKnown, ConfigAssumption
<1>2. Overrides(cfg, s, c) \in DOMAIN Measured[p]
  <2>1. Len(Points[cfg][s]) \in Nat /\ c \in 0..Len(Points[cfg][s])
    BY <1>1 DEF Candidates
  <2>2. CASE c = 0
    BY <1>1, <2>2 DEF Overrides
  <2>3. CASE c # 0
    <3>1. c \in 1..Len(Points[cfg][s])
      BY <2>1, <2>3
    <3>2. Points[cfg][s][c] \in DOMAIN Measured[p]
      BY <1>1, <3>1
    <3> QED
      BY <2>3, <3>2 DEF Overrides
  <2> QED
    BY <2>2, <2>3
<1>3. Evaluations(p, cfg, s, c) =
        {[policy |-> p, vector |-> Objectives(m, cfg.family)] : m \in Measured[p][Overrides(cfg, s, c)]}
  BY <1>2 DEF Evaluations, Results
<1>4. PICK m \in Measured[p][Overrides(cfg, s, c)] : r = [policy |-> p, vector |-> Objectives(m, cfg.family)]
  BY <1>3
<1>5. Objectives(m, cfg.family) \in [Objective -> Int]
  BY <1>2, ConfigAssumption
<1>6. cfg.family = "none" => Objectives(m, cfg.family)["family"] = 0
  BY DEF Objectives
<1> QED
  BY <1>4, <1>5, <1>6 DEF Result

LEMMA CandidatesNumbered ==
  ASSUME NEW cfg \in Config, NEW s \in Seed
  PROVE  Candidates(cfg, s) \subseteq CandidateId /\ IsFiniteSet(CandidateId)
<1>1. PICK p \in Policy : TRUE
  BY ConfigAssumption
<1>2. \A g \in Config, t \in Seed : Len(g.draws[t]) \in Nat /\ Len(Points[g][t]) \in 0..Len(g.draws[t])
  <2> SUFFICES ASSUME NEW g \in Config, NEW t \in Seed
               PROVE  Len(g.draws[t]) \in Nat /\ Len(Points[g][t]) \in 0..Len(g.draws[t])
    OBVIOUS
  <2>1. g.draws[t] \in Seq(DOMAIN Measured[p])
    BY <1>1, ConfigAssumption
  <2>2. Len(g.draws[t]) \in Nat
    BY <2>1
  <2> QED
    BY <1>1, <2>2, PointsKnown
<1>3. IsFiniteSet(Config \X Seed)
  BY ConfigAssumption, SeedsFinite, FS_Product
<1>4. PICK f : f = [x \in Config \X Seed |-> Len(x[1].draws[x[2]])]
  OBVIOUS
<1>5. f \in [Config \X Seed -> Int]
  BY <1>2, <1>4
<1>6. PICK x \in Config \X Seed : \A y \in Config \X Seed : f[y] <= f[x]
  <2>1. Config \X Seed # {}
    <3>1. <<cfg, s>> \in Config \X Seed
      OBVIOUS
    <3> QED
      BY <3>1
  <2> QED
    BY <1>3, <1>5, <2>1, Greatest
<1> DEFINE lengths == {Len(g.draws[t]) : g \in Config, t \in Seed}
<1>7. /\ \A g \in Config, t \in Seed : Len(g.draws[t]) \in lengths
      /\ \A n \in lengths : \E g \in Config, t \in Seed : n = Len(g.draws[t])
      /\ CandidateId = 0..Max(lengths)
  BY DEF CandidateId
<1> HIDE DEF lengths
<1>8. f[x] \in lengths /\ f[x] \in Nat
  <2>1. PICK g \in Config, t \in Seed : x = <<g, t>>
    BY <1>6
  <2>2. f[x] = Len(g.draws[t])
    BY <1>4, <2>1
  <2> QED
    BY <1>2, <1>7, <2>2
<1>9. \A n \in lengths : n \in Nat /\ f[x] >= n
  <2> SUFFICES ASSUME NEW g \in Config, NEW t \in Seed PROVE f[x] >= Len(g.draws[t])
    BY <1>2, <1>7
  <2>1. f[<<g, t>>] = Len(g.draws[t])
    BY <1>4
  <2>2. f[<<g, t>>] <= f[x]
    BY <1>6
  <2> QED
    BY <1>2, <1>8, <2>1, <2>2
<1>10. Max(lengths) \in lengths /\ \A n \in lengths : Max(lengths) >= n
  BY <1>8, <1>9 DEF Max
<1>11. CandidateId = 0..Max(lengths) /\ Max(lengths) \in Nat
  BY <1>7, <1>9, <1>10
<1>12. Len(cfg.draws[s]) \in lengths
  BY <1>7
<1>13. Len(Points[cfg][s]) \in Nat /\ Len(Points[cfg][s]) <= Max(lengths)
  BY <1>2, <1>9, <1>10, <1>12
<1>14. Candidates(cfg, s) = 0..Len(Points[cfg][s])
  BY DEF Candidates
<1>15. IsFiniteSet(CandidateId)
  BY <1>11, FS_Interval
<1> QED
  BY <1>11, <1>13, <1>14, <1>15

LEMMA CandidatesKnown ==
  /\ RunSeeds \in Seq(Seed) /\ RunSeeds # <<>>
  /\ \A cfg \in Config, s \in Seed :
       /\ Candidates(cfg, s) \subseteq CandidateId
       /\ \A p \in Policy, c \in Candidates(cfg, s) : Evaluations(p, cfg, s, c) \subseteq Result
  BY RunSeedsKnown, CandidatesNumbered, EvaluationKnown

LEMMA SeedType == TypeOK => seed \in Seed
  BY CandidatesKnown DEF TypeOK, seed

LEMMA RunsDiffer == NoRun \notin Run /\ NoResult \notin Result /\ NoFile \notin File /\ TornFile \notin File
  BY ValuesAssumption

LEMMA NewRunType == NewRun \in Run /\ \A c \in CandidateId : NewRun.completed[c] = NoResult
  BY DEF NewRun, Run

(* Another run for one seed changes what the file records of that seed only.   *)
LEMMA RunWritten ==
  ASSUME NEW file \in File, NEW s \in Seed, NEW run \in Run, NEW new, new = WithRun(file, s, run)
  PROVE  /\ new \in File /\ new.config = file.config /\ new.runs[s] = run
         /\ \A t \in Seed, d \in CandidateId :
              Recorded(new, t, d) = IF t = s THEN run.completed[d] ELSE Recorded(file, t, d)
<1>1. /\ new \in File /\ new.config = file.config
      /\ new.runs = [file.runs EXCEPT ![s] = run]
  BY DEF File, WithRun
<1>2. IsFile(file) /\ IsFile(new)
  BY <1>1, RunsDiffer DEF IsFile
<1>3. \A t \in Seed : new.runs[t] = IF t = s THEN run ELSE file.runs[t]
  BY <1>1 DEF File
<1> QED
  BY <1>1, <1>2, <1>3, RunsDiffer DEF Recorded

LEMMA WithRunRecords ==
  \A file \in File, s \in Seed, run \in Run :
    /\ WithRun(file, s, run) \in File
    /\ WithRun(file, s, run).config = file.config
    /\ WithRun(file, s, run).runs[s] = run
    /\ \A t \in Seed, d \in CandidateId :
         Recorded(WithRun(file, s, run), t, d) =
           IF t = s THEN run.completed[d] ELSE Recorded(file, t, d)
  BY RunWritten

(* What is recorded of the current seed is in its run. *)
LEMMA RecordedInRun ==
  \A file \in File, s \in Seed, c \in CandidateId :
    Recorded(file, s, c) = IF file.runs[s] = NoRun THEN NoResult ELSE file.runs[s].completed[c]
  BY RunsDiffer DEF Recorded, IsFile

-----------------------------------------------------------------------------
LEMMA Initially == Init => IInv
<1> SUFFICES ASSUME Init PROVE IInv
  OBVIOUS
<1> USE DEF Init
<1>1. TypeOK
  <2>1. AnyConfig \in Config
    BY ConfigAssumption DEF AnyConfig
  <2> HIDE DEF Init
  <2>2. AnyPolicy \in Policy
    <3>1. basePolicy \in Policy
      BY DEF Init
    <3> QED
      BY <3>1 DEF AnyPolicy
  <2> USE DEF Init
  <2>3. rows \in [CandidateId -> Seq(Result)]
    BY DEF NoRows
  <2>4. 1 \in 1..Len(RunSeeds)
    BY CandidatesKnown
  <2>5. futures \in [CandidateId ->
                       [state : {"none", "submitted", "done", "osError", "error"},
                        result : Result \cup {NoResult}]]
    BY DEF NoFutures, None
  <2>6. best \in [Seed -> SUBSET CandidateId] /\ doubled \subseteq Seed
    OBVIOUS
  <2>7. edits \in 0..MaxEdits /\ starts \in 0..MaxStarts
    BY BoundsAssumption
  <2>8. stage \in Stage /\ after \in Stage /\ pending \subseteq CandidateId /\ todo \subseteq pending
    BY DEF Stage
  <2> QED
    BY <2>1, <2>2, <2>3, <2>4, <2>5, <2>6, <2>7, <2>8 DEF TypeOK
<1>2. SavesReturn /\ MemoryLoaded /\ PendingKnown /\ FuturesDone /\ FallBackIsNew
  BY DEF SavesReturn, MemoryLoaded, PendingKnown, FuturesDone, FallBackIsNew, Doing, Evaluating, NoFutures, None
<1>3. Saved /\ Extends /\ RowsListed /\ RowsOnce
  BY DEF Saved, Extends, RowsListed, RowsOnce, Doing, NoRows
<1> QED
  BY <1>1, <1>2, <1>3 DEF IInv

(* However the process ends, the file stays what it was.                     *)
LEMMA StopStep == IInv /\ Stop /\ UNCHANGED files => IInv'
<1> SUFFICES ASSUME IInv, Stop, UNCHANGED files PROVE IInv'
  OBVIOUS
<1> USE DEF Stop, files, world
<1>1. TypeOK'
  <2>1. AnyConfig \in Config
    BY ConfigAssumption DEF AnyConfig
  <2>2. AnyPolicy \in Policy
    BY DEF AnyPolicy, IInv, TypeOK
  <2>3. rows' \in [CandidateId -> Seq(Result)]
    BY DEF NoRows
  <2>4. 1 \in 1..Len(RunSeeds)
    BY CandidatesKnown
  <2> QED
    BY <2>1, <2>2, <2>3, <2>4 DEF IInv, TypeOK, Stage, NoFutures, None
<1>2. (SavesReturn /\ MemoryLoaded /\ PendingKnown /\ FuturesDone /\ FallBackIsNew)'
  BY DEF SavesReturn, MemoryLoaded, PendingKnown, FuturesDone, FallBackIsNew, Doing, Evaluating, NoFutures, None
<1>3. (Saved /\ Extends /\ RowsListed /\ RowsOnce)'
  BY DEF Saved, Extends, RowsListed, RowsOnce, Doing, NoRows
<1> QED
  BY <1>1, <1>2, <1>3 DEF IInv

LEMMA EditStep == IInv /\ Edit => IInv'
<1> SUFFICES ASSUME IInv, Edit PROVE IInv'
  OBVIOUS
<1> USE DEF Edit, files, args, sweep, outcome
<1>1. TypeOK'
  BY BoundsAssumption DEF IInv, TypeOK
<1>2. (SavesReturn /\ MemoryLoaded /\ PendingKnown /\ FuturesDone /\ FallBackIsNew)'
  BY DEF IInv, SavesReturn, MemoryLoaded, PendingKnown, FuturesDone, FallBackIsNew, Doing, Evaluating, seed
<1>3. (Saved /\ Extends /\ RowsListed /\ RowsOnce)'
  BY DEF IInv, Saved, Extends, RowsListed, RowsOnce, Doing, seed
<1> QED
  BY <1>1, <1>2, <1>3 DEF IInv

LEMMA StartStep ==
  ASSUME IInv, NEW cfg \in Config, NEW n \in {1, 2}, Start(cfg, n)
  PROVE  IInv'
<1> USE DEF Start, GoTo, world, files, sweep, outcome
<1>1. TypeOK'
  BY BoundsAssumption DEF IInv, TypeOK, Stage
<1>2. (SavesReturn /\ MemoryLoaded /\ PendingKnown /\ FuturesDone /\ FallBackIsNew)'
  BY DEF IInv, SavesReturn, MemoryLoaded, PendingKnown, FuturesDone, FallBackIsNew, Doing, Evaluating
<1>3. (Saved /\ Extends /\ RowsListed /\ RowsOnce)'
  BY DEF IInv, Saved, Extends, RowsListed, RowsOnce, Doing
<1> QED
  BY <1>1, <1>2, <1>3 DEF IInv

LEMMA CreateFileStep == IInv /\ CreateFile => IInv'
<1> SUFFICES ASSUME IInv, CreateFile PROVE IInv'
  OBVIOUS
<1> USE DEF CreateFile, Persist, world, args, sweep, outcome
<1>0. mem' \in File /\ mem'.config = config'
  BY DEF File, IInv, TypeOK
<1>1. TypeOK'
  BY <1>0 DEF IInv, TypeOK, Stage
<1>2. (SavesReturn /\ MemoryLoaded /\ PendingKnown /\ FuturesDone /\ FallBackIsNew)'
  BY <1>0 DEF IInv, SavesReturn, MemoryLoaded, PendingKnown, FuturesDone, FallBackIsNew, Doing, Evaluating
<1>3. Extends'
  BY DEF Extends, Recorded, IsFile
<1>4. (Saved /\ RowsListed /\ RowsOnce)'
  BY DEF IInv, Saved, RowsListed, RowsOnce, Doing
<1> QED
  BY <1>1, <1>2, <1>3, <1>4 DEF IInv

LEMMA LoadFileStep == IInv /\ LoadFile => IInv'
<1> SUFFICES ASSUME IInv, LoadFile PROVE IInv'
  OBVIOUS
<1> USE DEF LoadFile, GoTo, world, files, args, sweep, outcome
<1>1. TypeOK'
  BY DEF IInv, TypeOK, Stage
<1>2. (SavesReturn /\ MemoryLoaded /\ PendingKnown /\ FuturesDone /\ FallBackIsNew)'
  BY DEF IInv, SavesReturn, MemoryLoaded, PendingKnown, FuturesDone, FallBackIsNew, Doing, Evaluating
<1>3. (Saved /\ Extends /\ RowsListed /\ RowsOnce)'
  BY DEF IInv, Saved, Extends, RowsListed, RowsOnce, Doing
<1> QED
  BY <1>1, <1>2, <1>3 DEF IInv

LEMMA EnsureRunStep == IInv /\ EnsureRun => IInv'
<1> SUFFICES ASSUME IInv, EnsureRun PROVE IInv'
  OBVIOUS
<1> USE DEF EnsureRun, world, args, sweep, outcome
<1>1. seed \in Seed /\ mem \in File /\ mem.config = config
  BY SeedType DEF IInv, MemoryLoaded, Doing
<1>2. CASE mem.runs[seed] = NoRun
  <2>1. mem' = WithRun(mem, seed, NewRun)
    BY <1>2 DEF Persist
  <2>2. /\ mem' \in File /\ mem'.config = mem.config /\ mem'.runs[seed] = NewRun
        /\ \A s \in Seed, c \in CandidateId : Recorded(mem', s, c) = Recorded(mem, s, c)
    BY <1>1, <1>2, <2>1, NewRunType, WithRunRecords, RecordedInRun
  <2>3. TypeOK'
    BY <1>2, <2>2 DEF IInv, TypeOK, Stage, Persist
  <2>4. (SavesReturn /\ MemoryLoaded /\ PendingKnown /\ FuturesDone /\ FallBackIsNew)'
    BY <1>1, <1>2, <2>2, NewRunType DEF IInv, SavesReturn, MemoryLoaded, PendingKnown, FuturesDone, FallBackIsNew,
       Doing, Evaluating, seed, Persist
  <2>5. Extends'
    <3>1. disk' = disk /\ seed' = seed /\ fellBack' = fellBack
      BY <1>2 DEF Persist, seed
    <3> QED
      BY <2>2, <3>1 DEF IInv, Extends, Doing
  <2>6. (Saved /\ RowsListed /\ RowsOnce)'
    BY <1>2 DEF IInv, Saved, RowsListed, RowsOnce, Doing, Persist
  <2> QED
    BY <2>3, <2>4, <2>5, <2>6 DEF IInv
<1>3. CASE mem.runs[seed] # NoRun
  <2> USE <1>3 DEF GoTo, files
  <2>1. mem.runs[seed] \in Run
    BY <1>1 DEF File
  <2>2. TypeOK'
    BY DEF IInv, TypeOK, Stage
  <2>3. (SavesReturn /\ MemoryLoaded /\ PendingKnown /\ FuturesDone /\ FallBackIsNew)'
    BY <2>1 DEF IInv, SavesReturn, MemoryLoaded, PendingKnown, FuturesDone, FallBackIsNew, Doing, Evaluating, seed
  <2>4. (Saved /\ Extends /\ RowsListed /\ RowsOnce)'
    BY DEF IInv, Saved, Extends, RowsListed, RowsOnce, Doing, seed
  <2> QED
    BY <2>2, <2>3, <2>4 DEF IInv
<1> QED
  BY <1>2, <1>3

LEMMA BeginSweepStep == IInv /\ BeginSweep => IInv'
<1> SUFFICES ASSUME IInv, BeginSweep PROVE IInv'
  OBVIOUS
<1> DEFINE completed == mem.runs[seed].completed
           restored == Restored(completed)
           left == Candidates(config, seed) \ restored
<1>1. seed \in Seed /\ mem \in File /\ mem.config = config /\ mem.runs[seed] \in Run
  BY SeedType DEF IInv, MemoryLoaded, Doing, BeginSweep
<1>2. completed \in [CandidateId -> Result \cup {NoResult}]
  BY <1>1 DEF Run
<1>3. Candidates(config, seed) \subseteq CandidateId
  BY <1>1, CandidatesKnown DEF IInv, TypeOK
<1>4. \A c \in CandidateId : Recorded(mem, seed, c) = completed[c]
  BY <1>1, RunsDiffer DEF Recorded, IsFile
<1>5. rows' = [c \in CandidateId |-> IF c \in restored THEN <<completed[c]>> ELSE <<>>]
  BY DEF BeginSweep
<1>6. \A c \in restored : completed[c] \in Result
  BY <1>2, <1>3 DEF Restored
<1>7. pending' = left /\ fellBack' = FALSE /\ UNCHANGED <<world, files, args, mem, index, outcome, after>>
  BY DEF BeginSweep, GoTo
<1>8. \/ left = {} /\ stage' = "rank" /\ UNCHANGED <<todo, futures>>
      \/ left # {} /\ stage' = "serial" /\ todo' = left /\ UNCHANGED futures
      \/ left # {} /\ stage' = "pool" /\ UNCHANGED todo
         /\ futures' = [c \in CandidateId |-> IF c \in left THEN Submitted ELSE None]
      \/ left # {} /\ stage' = "fallback" /\ UNCHANGED <<todo, futures>>
  BY DEF BeginSweep, GoTo
<1>9. stage = "sweep" /\ todo = {} /\ futures = NoFutures /\ disk = mem
  BY DEF IInv, PendingKnown, Saved, Doing, BeginSweep
<1> HIDE DEF completed, restored, left
<1>10. left \subseteq Candidates(config, seed) /\ restored = Candidates(config, seed) \ left
  BY DEF left, restored, Restored
<1>11. \A c \in CandidateId : c \in restored <=> c \in Candidates(config, seed) /\ completed[c] # NoResult
  BY <1>3 DEF restored, Restored
<1>12. rows' \in [CandidateId -> Seq(Result)]
  BY <1>5, <1>6
<1>13. stage' \in {"rank", "serial", "pool", "fallback"}
  BY <1>8
<1>14. futures' \in [CandidateId ->
                       [state : {"none", "submitted", "done", "osError", "error"},
                        result : Result \cup {NoResult}]]
  <2>1. futures' = NoFutures \/ futures' = [c \in CandidateId |-> IF c \in left THEN Submitted ELSE None]
    BY <1>8, <1>9
  <2>2. {None, Submitted} \subseteq [state : {"none", "submitted", "done", "osError", "error"},
                                   result : Result \cup {NoResult}]
    BY DEF None, Submitted
  <2> QED
    BY <2>1, <2>2 DEF NoFutures
<1>15. TypeOK'
  <2>1. todo' \subseteq pending' /\ pending' \subseteq CandidateId
    BY <1>3, <1>7, <1>8, <1>9, <1>10
  <2>2. stage' \in Stage /\ after' \in Stage /\ fellBack' \in BOOLEAN
    BY <1>7, <1>13 DEF IInv, TypeOK, Stage
  <2> QED
    BY <1>7, <1>12, <1>14, <2>1, <2>2 DEF IInv, TypeOK, world, files, args, outcome
<1>16. (SavesReturn /\ MemoryLoaded /\ FallBackIsNew /\ Saved)'
  BY <1>1, <1>7, <1>8, <1>9 DEF SavesReturn, MemoryLoaded, FallBackIsNew, Saved,
     Doing, Evaluating, args, files, seed
<1>17. PendingKnown'
  BY <1>7, <1>8, <1>9, <1>10 DEF PendingKnown, Doing, Evaluating, args, seed, NoFutures, None, Submitted
<1>18. Extends'
  BY <1>7, <1>9 DEF Extends, files
<1>19. RowsListed'
  <2>1. seed' = seed /\ config' = config /\ mem' = mem
    BY <1>7 DEF seed, args
  <2> SUFFICES ASSUME NEW c \in Candidates(config, seed)
               PROVE  /\ rows'[c] # <<>> => Recorded(mem, seed, c) = rows'[c][Len(rows'[c])]
                      /\ rows'[c] = <<>> => Recorded(mem, seed, c) = NoResult
                      /\ stage' = "serial" => (rows'[c] = <<>> <=> c \in todo')
                      /\ stage' = "pool" => (rows'[c] = <<>> <=> futures'[c].state # "none")
                      /\ stage' = "fallback" => (rows'[c] = <<>> => c \in pending')
                      /\ stage' = "rank" => rows'[c] # <<>>
    BY <1>13, <2>1 DEF RowsListed, Doing
  <2>2. c \in CandidateId
    BY <1>3
  <2>3. rows'[c] = <<>> <=> c \in left
    BY <1>5, <1>10, <2>2
  <2>4. Recorded(mem, seed, c) = completed[c]
    BY <1>4, <2>2 DEF completed
  <2>5. rows'[c] # <<>> => Recorded(mem, seed, c) = rows'[c][Len(rows'[c])]
    BY <1>5, <2>2, <2>3, <2>4
  <2>6. rows'[c] = <<>> => Recorded(mem, seed, c) = NoResult
    BY <1>10, <1>11, <2>2, <2>3, <2>4
  <2> QED
    BY <1>7, <1>8, <2>2, <2>3, <2>5, <2>6 DEF Submitted, None
<1>20. RowsOnce'
  BY <1>5 DEF RowsOnce
<1>21. FuturesDone'
  <2>1. \A c \in CandidateId : futures'[c] \in {None, Submitted}
    BY <1>8, <1>9 DEF NoFutures
  <2> QED
    BY <2>1 DEF FuturesDone, None, Submitted
<1> QED
  BY <1>15, <1>16, <1>17, <1>18, <1>19, <1>20, <1>21 DEF IInv

LEMMA SerialEndsStep == IInv /\ SerialEnds => IInv'
<1> SUFFICES ASSUME IInv, SerialEnds PROVE IInv'
  OBVIOUS
<1> USE DEF SerialEnds, GoTo, world, files, args, sweep, outcome
<1>1. TypeOK'
  BY DEF IInv, TypeOK, Stage
<1>2. (SavesReturn /\ MemoryLoaded /\ PendingKnown /\ FuturesDone /\ FallBackIsNew)'
  BY DEF IInv, SavesReturn, MemoryLoaded, PendingKnown, FuturesDone, FallBackIsNew, Doing, Evaluating, seed
<1>3. Saved'
  BY DEF IInv, Saved, FallBackIsNew, Doing, Evaluating
<1>4. (Extends /\ RowsListed /\ RowsOnce)'
  BY DEF IInv, Extends, RowsListed, RowsOnce, Doing, seed
<1> QED
  BY <1>1, <1>2, <1>3, <1>4 DEF IInv

LEMMA PoolEndsStep == IInv /\ PoolEnds => IInv'
<1> SUFFICES ASSUME IInv, PoolEnds PROVE IInv'
  OBVIOUS
<1> USE DEF PoolEnds, GoTo, world, files, args, sweep, outcome
<1>1. TypeOK'
  BY DEF IInv, TypeOK, Stage
<1>2. (SavesReturn /\ MemoryLoaded /\ PendingKnown /\ FuturesDone /\ FallBackIsNew)'
  BY DEF IInv, SavesReturn, MemoryLoaded, PendingKnown, FuturesDone, FallBackIsNew, Doing, Evaluating, seed
<1>3. (Saved /\ Extends /\ RowsOnce)'
  BY DEF IInv, Saved, Extends, RowsOnce, Doing, seed
<1>4. RowsListed'
  <2>1. \A c \in Candidates(config, seed) : c \in CandidateId
    BY SeedType, CandidatesKnown DEF IInv, TypeOK
  <2> QED
    BY <2>1 DEF IInv, RowsListed, Doing, seed, NoFutures, None
<1> QED
  BY <1>1, <1>2, <1>3, <1>4 DEF IInv

LEMMA TakeExceptionStep ==
  ASSUME IInv, NEW c \in CandidateId, TakeException(c) PROVE IInv'
<1> USE DEF TakeException, GoTo, world, files, args, sweep, outcome
<1>1. TypeOK'
  BY DEF IInv, TypeOK, Stage
<1>2. (SavesReturn /\ MemoryLoaded /\ PendingKnown /\ FuturesDone /\ FallBackIsNew)'
  BY DEF IInv, SavesReturn, MemoryLoaded, PendingKnown, FuturesDone, FallBackIsNew, Doing, Evaluating, seed
<1>3. (Saved /\ Extends /\ RowsOnce)'
  BY DEF IInv, Saved, Extends, RowsOnce, Doing, seed
<1>4. RowsListed'
  <2>1. \A d \in Candidates(config, seed) : d \in CandidateId
    BY SeedType, CandidatesKnown DEF IInv, TypeOK
  <2> QED
    BY <2>1 DEF IInv, RowsListed, PendingKnown, Doing, seed
<1> QED
  BY <1>1, <1>2, <1>3, <1>4 DEF IInv

LEMMA PoolEvaluatesStep ==
  ASSUME IInv, NEW c \in CandidateId, PoolEvaluates(c) PROVE IInv'
<1> USE DEF world, files, args, outcome
<1>1. futures[c] = Submitted
  BY DEF PoolEvaluates
<1>2. UNCHANGED <<world, files, args, stage, after, mem, index, rows, pending, todo, fellBack, outcome>>
  BY DEF PoolEvaluates
<1>3. Doing \in {"pool", "fallback", "failing"} /\ c \in pending
  BY <1>1 DEF IInv, PendingKnown, NoFutures, None, Submitted
<1>4. PICK f : /\ futures' = [futures EXCEPT ![c] = f]
               /\ f \in [state : {"done", "osError", "error"}, result : Result \cup {NoResult}]
               /\ f.state = "done" => f.result \in Result
  <2>1. c \in Candidates(config, seed)
    BY <1>3 DEF IInv, PendingKnown, Evaluating
  <2>2. Evaluations(policy, config, seed, c) \subseteq Result
    BY <2>1, SeedType, CandidatesKnown DEF IInv, TypeOK
  <2>3. \A r \in Result :
          /\ Done(r) \in [state : {"done", "osError", "error"}, result : Result \cup {NoResult}]
          /\ Done(r).result = r
    BY DEF Done
  <2>4. \A e \in {"osError", "error"} :
          /\ Raised(e) \in [state : {"done", "osError", "error"}, result : Result \cup {NoResult}]
          /\ Raised(e).state # "done"
    BY DEF Raised
  <2>5. CASE \E r \in Evaluations(policy, config, seed, c) : futures' = [futures EXCEPT ![c] = Done(r)]
    <3>1. PICK r \in Result : futures' = [futures EXCEPT ![c] = Done(r)]
      BY <2>2, <2>5
    <3>2. Done(r).result \in Result
      BY <2>3
    <3> QED
      BY <2>3, <3>1, <3>2
  <2>6. CASE \E e \in {"osError", "error"} : futures' = [futures EXCEPT ![c] = Raised(e)]
    BY <2>4, <2>6
  <2> QED
    BY <2>5, <2>6 DEF PoolEvaluates
<1>5. futures' \in [CandidateId ->
                      [state : {"none", "submitted", "done", "osError", "error"},
                       result : Result \cup {NoResult}]]
  BY <1>4 DEF IInv, TypeOK
<1>6. \A d \in CandidateId : futures'[d].state = "none" <=> futures[d].state = "none"
  BY <1>1, <1>4 DEF Submitted, IInv, TypeOK
<1>7. TypeOK'
  BY <1>2, <1>5 DEF IInv, TypeOK
<1>8. (SavesReturn /\ MemoryLoaded /\ FallBackIsNew /\ Saved /\ Extends /\ RowsOnce)'
  BY <1>2 DEF IInv, SavesReturn, MemoryLoaded, FallBackIsNew, Saved, Extends, RowsOnce,
     Doing, Evaluating, seed
<1>9. PendingKnown'
  BY <1>2, <1>3, <1>6 DEF IInv, PendingKnown, Doing, Evaluating, seed
<1>10. RowsListed'
  <2>1. \A d \in Candidates(config, seed) : d \in CandidateId
    BY SeedType, CandidatesKnown DEF IInv, TypeOK
  <2> QED
    BY <1>2, <1>6, <2>1 DEF IInv, RowsListed, Doing, seed
<1>11. FuturesDone'
  BY <1>4 DEF IInv, TypeOK, FuturesDone
<1> QED
  BY <1>7, <1>8, <1>9, <1>10, <1>11 DEF IInv

LEMMA FallBackStep == IInv /\ FallBack => IInv'
<1> SUFFICES ASSUME IInv, FallBack PROVE IInv'
  OBVIOUS
<1> USE DEF FallBack, GoTo, world, files, args, outcome
<1>1. TypeOK'
  BY DEF IInv, TypeOK, Stage, NoFutures, None
<1>2. (SavesReturn /\ MemoryLoaded /\ PendingKnown /\ FuturesDone /\ FallBackIsNew /\ Saved)'
  BY DEF IInv, SavesReturn, MemoryLoaded, PendingKnown, FuturesDone, FallBackIsNew, Saved, Doing, Evaluating,
     seed, NoFutures, None
<1>3. Extends'
  BY DEF IInv, Extends, FallBackIsNew, Doing, seed
<1>4. (RowsListed /\ RowsOnce)'
  BY DEF IInv, RowsListed, RowsOnce, FallBackIsNew, Doing, seed
<1> QED
  BY <1>1, <1>2, <1>3, <1>4 DEF IInv

(* The file becomes the state. *)
LEMMA ReplaceStep == IInv /\ Replace => IInv'
<1> SUFFICES ASSUME IInv, Replace PROVE IInv'
  OBVIOUS
<1> USE DEF Replace, world, args, sweep, outcome
<1>0. mem \in File /\ stage' = Doing /\ Doing' = Doing
      /\ Doing \in {"restore", "sweep", "serial", "pool", "next", "report"}
  BY DEF IInv, SavesReturn, MemoryLoaded, Doing
<1>1. TypeOK'
  BY <1>0 DEF IInv, TypeOK, Stage
<1>2. (SavesReturn /\ MemoryLoaded /\ PendingKnown /\ FuturesDone /\ FallBackIsNew)'
  BY <1>0 DEF IInv, SavesReturn, MemoryLoaded, PendingKnown, FuturesDone, FallBackIsNew, Evaluating, seed
<1>3. (Saved /\ Extends)'
  BY <1>0 DEF Saved, Extends
<1>4. (RowsListed /\ RowsOnce)'
  BY <1>0 DEF IInv, RowsListed, RowsOnce, seed
<1> QED
  BY <1>1, <1>2, <1>3, <1>4 DEF IInv

LEMMA SaveFailsStep == IInv /\ SaveFails => IInv'
<1> SUFFICES ASSUME IInv, SaveFails PROVE IInv'
  OBVIOUS
<1>1. CASE after = "pool"
  <2> USE <1>1 DEF SaveFails, GoTo, world, files, args, sweep, outcome
  <2>1. TypeOK'
    BY DEF IInv, TypeOK, Stage
  <2>2. (SavesReturn /\ MemoryLoaded /\ PendingKnown /\ FuturesDone /\ FallBackIsNew /\ Saved)'
    BY DEF IInv, SavesReturn, MemoryLoaded, PendingKnown, FuturesDone, FallBackIsNew, Saved, Doing, Evaluating, seed
  <2>3. Extends'
    BY DEF IInv, Extends, Doing, seed
  <2>4. (RowsListed /\ RowsOnce)'
    <3>1. \A d \in Candidates(config, seed) : d \in CandidateId
      BY SeedType, CandidatesKnown DEF IInv, TypeOK
    <3> QED
      BY <3>1 DEF IInv, RowsListed, RowsOnce, PendingKnown, Doing, seed
  <2> QED
    BY <2>1, <2>2, <2>3, <2>4 DEF IInv
<1>2. CASE after # "pool"
  BY <1>2, StopStep DEF SaveFails
<1> QED
  BY <1>1, <1>2

LEMMA NextSeedStep == IInv /\ NextSeed => IInv'
<1> SUFFICES ASSUME IInv, NextSeed PROVE IInv'
  OBVIOUS
<1> USE DEF NextSeed, GoTo, world, files, args, sweep, outcome
<1>0. index < Len(RunSeeds)
  BY DEF IInv, SavesReturn, Doing
<1>1. TypeOK'
  BY <1>0, CandidatesKnown DEF IInv, TypeOK, Stage
<1>2. (SavesReturn /\ MemoryLoaded /\ PendingKnown /\ FuturesDone /\ FallBackIsNew /\ Saved)'
  BY DEF IInv, SavesReturn, MemoryLoaded, PendingKnown, FuturesDone, FallBackIsNew, Saved, Doing, Evaluating
<1>3. Extends'
  <2>1. disk' = disk /\ mem' = mem /\ disk = mem
    BY DEF IInv, Saved
  <2> QED
    BY <2>1 DEF Extends
<1>4. (RowsListed /\ RowsOnce)'
  BY DEF IInv, RowsListed, RowsOnce, Doing
<1> QED
  BY <1>1, <1>2, <1>3, <1>4 DEF IInv

-----------------------------------------------------------------------------
(* Writing a result down *)

LEMMA Bounded == TypeOK => \A c \in Candidates(config, seed) : c \in CandidateId
  BY SeedType, CandidatesKnown DEF TypeOK

LEMMA CompletedState ==
  ASSUME IInv, Evaluating, NEW c \in CandidateId, NEW r \in Result, NEW next \in Stage,
         Completed(c, r, next)
  PROVE  /\ mem' \in File /\ mem'.config = mem.config /\ mem'.runs[seed] \in Run
         /\ \A s \in Seed, d \in CandidateId :
              Recorded(mem', s, d) = IF s = seed /\ d = c THEN r ELSE Recorded(mem, s, d)
         /\ rows' \in [CandidateId -> Seq(Result)]
         /\ \A d \in CandidateId : rows'[d] = IF d = c THEN Append(rows[c], r) ELSE rows[d]
         /\ rows'[c] # <<>> /\ rows'[c][Len(rows'[c])] = r /\ Len(rows'[c]) = Len(rows[c]) + 1
<1> DEFINE run == [mem.runs[seed] EXCEPT !.completed[c] = r]
<1>1. seed \in Seed /\ mem \in File /\ mem.runs[seed] \in Run
  BY SeedType DEF IInv, MemoryLoaded, Evaluating
<1>2. /\ run \in Run
      /\ \A d \in CandidateId : run.completed[d] = IF d = c THEN r ELSE mem.runs[seed].completed[d]
  BY <1>1 DEF Run
<1>3. mem' = WithRun(mem, seed, run)
  BY DEF Completed, Persist, WithResult
<1> HIDE DEF run
<1>4. /\ mem' \in File /\ mem'.config = mem.config /\ mem'.runs[seed] = run
      /\ \A s \in Seed, d \in CandidateId :
           Recorded(mem', s, d) = IF s = seed THEN run.completed[d] ELSE Recorded(mem, s, d)
  <2>1. PICK new : new = WithRun(mem, seed, run)
    OBVIOUS
  <2>2. /\ new \in File /\ new.config = mem.config /\ new.runs[seed] = run
        /\ \A s \in Seed, d \in CandidateId :
             Recorded(new, s, d) = IF s = seed THEN run.completed[d] ELSE Recorded(mem, s, d)
    <3>1. mem \in File /\ seed \in Seed /\ run \in Run
      BY <1>1, <1>2
    <3> QED
      BY <2>1, <3>1, RunWritten
  <2> QED
    BY <1>3, <2>1, <2>2
<1>5. \A s \in Seed, d \in CandidateId :
        Recorded(mem', s, d) = IF s = seed /\ d = c THEN r ELSE Recorded(mem, s, d)
  BY <1>1, <1>2, <1>4, RecordedInRun, RunsDiffer
<1>6. rows' = [rows EXCEPT ![c] = Append(rows[c], r)] /\ rows \in [CandidateId -> Seq(Result)]
  BY DEF Completed, IInv, TypeOK
<1>7. rows[c] \in Seq(Result)
  BY <1>6
<1>8. /\ Append(rows[c], r) \in Seq(Result) /\ Append(rows[c], r) # <<>>
      /\ Append(rows[c], r)[Len(Append(rows[c], r))] = r
      /\ Len(Append(rows[c], r)) = Len(rows[c]) + 1
  BY <1>7
<1> QED
  BY <1>2, <1>4, <1>5, <1>6, <1>8

(* What both ways of writing a result have in common. *)
LEMMA CompletedStep ==
  ASSUME IInv, NEW c \in Candidates(config, seed), NEW r \in Result, NEW next \in {"serial", "pool"},
         stage = next, Completed(c, r, next), UNCHANGED <<world, args, index, pending, fellBack, outcome>>,
         fellBack \/ rows[c] = <<>>
  PROVE  /\ Doing' = next /\ seed' = seed
         /\ (SavesReturn /\ MemoryLoaded /\ Saved /\ Extends)'
         /\ stage' \in Stage /\ after' \in Stage /\ tmp' = TornFile /\ disk' = disk
<1> USE DEF args, outcome, world
<1>1. Evaluating /\ Doing = next
  BY DEF Evaluating, Doing
<1>2. c \in CandidateId /\ next \in Stage /\ seed \in Seed
  BY Bounded, SeedType DEF IInv, Stage
<1>3. /\ mem' \in File /\ mem'.config = mem.config /\ mem'.runs[seed] \in Run
      /\ \A s \in Seed, d \in CandidateId :
           Recorded(mem', s, d) = IF s = seed /\ d = c THEN r ELSE Recorded(mem, s, d)
  BY <1>1, <1>2, CompletedState
<1>4. stage' = "save" /\ after' = next /\ tmp' = TornFile /\ disk' = disk /\ seed' = seed
  BY DEF Completed, Persist, seed
<1>5. Doing' = next
  BY <1>4 DEF Doing
<1>6. (SavesReturn /\ MemoryLoaded /\ Saved)'
  BY <1>1, <1>3, <1>4, <1>5 DEF IInv, SavesReturn, MemoryLoaded, Saved
<1>7. Extends'
  <2> SUFFICES ASSUME NEW s \in Seed, NEW d \in CandidateId, Recorded(disk, s, d) # NoResult
               PROVE  \/ Recorded(mem', s, d) = Recorded(disk, s, d)
                      \/ fellBack /\ s = seed /\ Recorded(mem', s, d) # NoResult
    BY <1>4 DEF Extends
  <2>1. \/ Recorded(mem, s, d) = Recorded(disk, s, d)
        \/ fellBack /\ s = seed /\ Recorded(mem, s, d) # NoResult
    BY <1>1 DEF IInv, Extends
  <2>2. CASE s = seed /\ d = c
    <3>1. Recorded(mem', s, d) = r /\ r # NoResult
      BY <1>3, <2>2, RunsDiffer
    <3>2. ~fellBack => Recorded(mem, seed, c) = NoResult
      BY <1>1 DEF IInv, RowsListed
    <3> QED
      BY <2>1, <2>2, <3>1, <3>2
  <2>3. CASE ~(s = seed /\ d = c)
    BY <1>3, <2>1, <2>3
  <2> QED
    BY <2>2, <2>3
<1> QED
  BY <1>4, <1>5, <1>6, <1>7 DEF Stage, Completed, Persist

LEMMA EvaluateStep == IInv /\ Evaluate => IInv'
<1> SUFFICES ASSUME IInv, Evaluate PROVE IInv'
  OBVIOUS
<1>1. PICK c \in todo : \E r \in Evaluations(policy, config, seed, c) :
        todo' = todo \ {c} /\ Completed(c, r, "serial")
  BY DEF Evaluate
<1>2. /\ stage = "serial" /\ Doing = "serial" /\ Evaluating
      /\ UNCHANGED <<world, args, index, pending, futures, fellBack, outcome>>
  BY DEF Evaluate, Doing, Evaluating
<1>3. c \in Candidates(config, seed) /\ c \in pending
  BY <1>2 DEF IInv, TypeOK, PendingKnown
<1>4. Evaluations(policy, config, seed, c) \subseteq Result
  BY <1>3, SeedType, CandidatesKnown DEF IInv, TypeOK
<1>5. PICK r \in Result : todo' = todo \ {c} /\ Completed(c, r, "serial")
  BY <1>1, <1>4
<1>6. c \in CandidateId /\ "serial" \in Stage /\ seed \in Seed
  BY <1>3, Bounded, SeedType DEF IInv, Stage
<1>7. /\ mem' \in File /\ mem'.config = mem.config
      /\ \A s \in Seed, d \in CandidateId :
           Recorded(mem', s, d) = IF s = seed /\ d = c THEN r ELSE Recorded(mem, s, d)
      /\ rows' \in [CandidateId -> Seq(Result)]
      /\ \A d \in CandidateId : rows'[d] = IF d = c THEN Append(rows[c], r) ELSE rows[d]
      /\ rows'[c] # <<>> /\ rows'[c][Len(rows'[c])] = r /\ Len(rows'[c]) = Len(rows[c]) + 1
  BY <1>2, <1>5, <1>6, CompletedState
<1>8. fellBack \/ rows[c] = <<>>
  BY <1>1, <1>2, <1>3 DEF IInv, RowsListed
<1>9. /\ Doing' = "serial" /\ seed' = seed
      /\ (SavesReturn /\ MemoryLoaded /\ Saved /\ Extends)'
      /\ stage' \in Stage /\ after' \in Stage /\ tmp' = TornFile /\ disk' = disk
  BY <1>2, <1>3, <1>5, <1>8, CompletedStep
<1>10. TypeOK'
  BY <1>2, <1>5, <1>7, <1>9 DEF IInv, TypeOK, world, args, outcome
<1>11. (PendingKnown /\ FuturesDone /\ FallBackIsNew)'
  BY <1>2, <1>9 DEF IInv, PendingKnown, FuturesDone, FallBackIsNew, Evaluating, args
<1>12. RowsListed'
  <2> SUFFICES ASSUME NEW d \in Candidates(config, seed)
               PROVE  /\ rows'[d] # <<>> => Recorded(mem', seed, d) = rows'[d][Len(rows'[d])]
                      /\ rows'[d] = <<>> /\ ~fellBack => Recorded(mem', seed, d) = NoResult
                      /\ rows'[d] = <<>> => d \in todo'
                      /\ ~fellBack => (d \in todo' => rows'[d] = <<>>)
    BY <1>2, <1>9 DEF RowsListed, args
  <2>1. d \in CandidateId
    BY Bounded DEF IInv
  <2>2. /\ rows[d] # <<>> => Recorded(mem, seed, d) = rows[d][Len(rows[d])]
        /\ rows[d] = <<>> /\ ~fellBack => Recorded(mem, seed, d) = NoResult
        /\ rows[d] = <<>> => d \in todo
        /\ ~fellBack => (d \in todo => rows[d] = <<>>)
    BY <1>2 DEF IInv, RowsListed
  <2>3. CASE d = c
    BY <1>5, <1>6, <1>7, <2>3
  <2>4. CASE d # c
    BY <1>5, <1>6, <1>7, <2>1, <2>2, <2>4
  <2> QED
    BY <2>3, <2>4
<1>13. RowsOnce'
  <2> SUFFICES ASSUME NEW d \in CandidateId
               PROVE  \/ Len(rows'[d]) <= 1
                      \/ fellBack /\ d \in pending /\ Len(rows'[d]) = 2 /\ d \notin todo'
    BY <1>2, <1>9 DEF RowsOnce
  <2>1. \/ Len(rows[d]) <= 1
        \/ fellBack /\ d \in pending /\ Len(rows[d]) = 2 /\ d \notin todo
    BY <1>2 DEF IInv, RowsOnce
  <2>2. rows[c] = <<>> => Len(rows[c]) = 0
    OBVIOUS
  <2>3. rows[c] \in Seq(Result) /\ Len(rows[c]) \in Nat
    BY <1>6 DEF IInv, TypeOK
  <2>4. CASE d = c
    <3>1. Len(rows'[c]) = Len(rows[c]) + 1 /\ c \notin todo'
      BY <1>5, <1>7
    <3>2. CASE ~fellBack
      BY <1>8, <2>2, <2>3, <2>4, <3>1, <3>2
    <3>3. CASE fellBack
      <4>1. Len(rows[c]) <= 1
        BY <1>1, <2>1, <2>4
      <4>2. Len(rows'[c]) <= 1 \/ Len(rows'[c]) = 2
        BY <2>3, <3>1, <4>1
      <4> QED
        BY <1>3, <2>4, <3>1, <3>3, <4>2
    <3> QED
      BY <3>2, <3>3
  <2>5. CASE d # c
    BY <1>5, <1>7, <2>1, <2>5
  <2> QED
    BY <2>4, <2>5
<1> QED
  BY <1>9, <1>10, <1>11, <1>12, <1>13 DEF IInv

LEMMA TakeResultStep ==
  ASSUME IInv, NEW c \in CandidateId, TakeResult(c) PROVE IInv'
<1> DEFINE r == futures[c].result
<1>1. /\ stage = "pool" /\ Doing = "pool" /\ Evaluating /\ futures[c].state = "done"
      /\ futures' = [futures EXCEPT ![c] = None] /\ Completed(c, r, "pool")
      /\ UNCHANGED <<world, args, index, pending, todo, fellBack, outcome>>
  BY DEF TakeResult, Doing, Evaluating
<1>2. c \in pending /\ c \in Candidates(config, seed)
  BY <1>1 DEF IInv, PendingKnown
<1>3. r \in Result
  BY <1>1 DEF IInv, FuturesDone
<1>4. "pool" \in Stage /\ seed \in Seed
  BY SeedType DEF IInv, Stage
<1> HIDE DEF r
<1>5. /\ mem' \in File /\ mem'.config = mem.config
      /\ \A s \in Seed, d \in CandidateId :
           Recorded(mem', s, d) = IF s = seed /\ d = c THEN r ELSE Recorded(mem, s, d)
      /\ rows' \in [CandidateId -> Seq(Result)]
      /\ \A d \in CandidateId : rows'[d] = IF d = c THEN Append(rows[c], r) ELSE rows[d]
      /\ rows'[c] # <<>> /\ rows'[c][Len(rows'[c])] = r /\ Len(rows'[c]) = Len(rows[c]) + 1
  BY <1>1, <1>3, <1>4, CompletedState
<1>6. rows[c] = <<>> /\ ~fellBack
  BY <1>1, <1>2 DEF IInv, RowsListed, FallBackIsNew
<1>7. /\ Doing' = "pool" /\ seed' = seed
      /\ (SavesReturn /\ MemoryLoaded /\ Saved /\ Extends)'
      /\ stage' \in Stage /\ after' \in Stage /\ tmp' = TornFile /\ disk' = disk
  BY <1>1, <1>2, <1>3, <1>6, CompletedStep
<1>8. /\ futures' \in [CandidateId ->
                      [state : {"none", "submitted", "done", "osError", "error"},
                       result : Result \cup {NoResult}]]
      /\ \A d \in CandidateId : futures'[d] = IF d = c THEN None ELSE futures[d]
  BY <1>1 DEF IInv, TypeOK, None
<1>9. TypeOK'
  BY <1>1, <1>5, <1>7, <1>8 DEF IInv, TypeOK, world, args, outcome
<1>10. (PendingKnown /\ FallBackIsNew /\ FuturesDone)'
  BY <1>1, <1>7, <1>8 DEF IInv, PendingKnown, FallBackIsNew, FuturesDone, Evaluating, args, None
<1>11. RowsListed'
  <2> SUFFICES ASSUME NEW d \in Candidates(config, seed)
               PROVE  /\ rows'[d] # <<>> => Recorded(mem', seed, d) = rows'[d][Len(rows'[d])]
                      /\ rows'[d] = <<>> => Recorded(mem', seed, d) = NoResult
                      /\ rows'[d] = <<>> <=> futures'[d].state # "none"
    BY <1>1, <1>7 DEF RowsListed, args
  <2>1. d \in CandidateId
    BY Bounded DEF IInv
  <2>2. /\ rows[d] # <<>> => Recorded(mem, seed, d) = rows[d][Len(rows[d])]
        /\ rows[d] = <<>> => Recorded(mem, seed, d) = NoResult
        /\ rows[d] = <<>> <=> futures[d].state # "none"
    BY <1>1, <1>6 DEF IInv, RowsListed
  <2>3. CASE d = c
    BY <1>4, <1>5, <1>8, <2>3 DEF None
  <2>4. CASE d # c
    BY <1>4, <1>5, <1>8, <2>1, <2>2, <2>4
  <2> QED
    BY <2>3, <2>4
<1>12. RowsOnce'
  <2>1. Len(rows'[c]) <= 1
    BY <1>5, <1>6
  <2>2. \A d \in CandidateId : Len(rows[d]) <= 1
    BY <1>6 DEF IInv, RowsOnce
  <2>3. \A d \in CandidateId : Len(rows'[d]) <= 1
    <3> SUFFICES ASSUME NEW d \in CandidateId PROVE Len(rows'[d]) <= 1
      OBVIOUS
    <3>1. CASE d = c
      BY <2>1, <3>1
    <3>2. CASE d # c
      BY <1>5, <2>2, <3>2
    <3> QED
      BY <3>1, <3>2
  <2> QED
    BY <2>3 DEF RowsOnce
<1> QED
  BY <1>7, <1>9, <1>10, <1>11, <1>12 DEF IInv

(* The candidates a ranking names are numbered ones.                          *)
LEMMA RankedIds ==
  /\ {x.id : x \in Undominated(RowsOfSweep, config.epsilon)} \subseteq CandidateId
  /\ Best(RowsOfSweep, config.family) \subseteq CandidateId
<1>1. \A x \in RowsOfSweep : x.id \in CandidateId
  BY DEF RowsOfSweep
<1> QED
  BY <1>1 DEF Undominated, Best

LEMMA RankStep == IInv /\ Rank => IInv'
<1> SUFFICES ASSUME IInv, Rank PROVE IInv'
  OBVIOUS
<1>1. PICK ranked \in {RowsOfSweep} :
        LET frontier == {x.id : x \in Undominated(ranked, config.epsilon)}
            run == [mem.runs[seed] EXCEPT !.finished = TRUE, !.frontier = frontier]
        IN /\ Persist(WithRun(mem, seed, run), IF index < Len(RunSeeds) THEN "next" ELSE "report")
           /\ best' = [best EXCEPT ![seed] = Best(ranked, config.family)]
  BY DEF Rank
<1> DEFINE frontier == {x.id : x \in Undominated(ranked, config.epsilon)}
           run == [mem.runs[seed] EXCEPT !.finished = TRUE, !.frontier = frontier]
<1>2. /\ stage = "rank" /\ Doing = "rank"
      /\ doubled' = IF \E c \in CandidateId : Len(rows[c]) > 1 THEN doubled \cup {seed} ELSE doubled
      /\ UNCHANGED <<world, args, index, sweep>>
  BY DEF Rank, Doing
<1>3. seed \in Seed /\ mem \in File /\ mem.config = config /\ mem.runs[seed] \in Run
  BY <1>2, SeedType DEF IInv, MemoryLoaded
<1>4. ranked = RowsOfSweep
  OBVIOUS
<1>5. frontier \subseteq CandidateId /\ Best(ranked, config.family) \subseteq CandidateId
  BY <1>4, RankedIds
<1> HIDE DEF frontier
<1>6. run \in Run /\ run.completed = mem.runs[seed].completed
  BY <1>3, <1>5 DEF Run
<1>7. mem' = WithRun(mem, seed, run)
  BY <1>1 DEF Persist, frontier
<1> HIDE DEF run
<1>8. /\ mem' \in File /\ mem'.config = config /\ mem'.runs[seed] = run
      /\ \A s \in Seed, c \in CandidateId : Recorded(mem', s, c) = Recorded(mem, s, c)
  <2> PICK new : new = WithRun(mem, seed, run)
    OBVIOUS
  <2>0. /\ new \in File /\ new.config = mem.config /\ new.runs[seed] = run
        /\ \A s \in Seed, c \in CandidateId :
             Recorded(new, s, c) = IF s = seed THEN run.completed[c] ELSE Recorded(mem, s, c)
    <3>1. mem \in File /\ seed \in Seed /\ run \in Run /\ new = WithRun(mem, seed, run)
      BY <1>3, <1>6
    <3> QED
      BY <3>1, RunWritten
  <2>1. /\ mem' \in File /\ mem'.config = mem.config /\ mem'.runs[seed] = run
        /\ \A s \in Seed, c \in CandidateId :
             Recorded(mem', s, c) = IF s = seed THEN run.completed[c] ELSE Recorded(mem, s, c)
    BY <1>7, <2>0
  <2>2. \A c \in CandidateId : Recorded(mem, seed, c) = run.completed[c]
    BY <1>3, <1>6, RecordedInRun, RunsDiffer
  <2> QED
    BY <1>3, <2>1, <2>2
<1>9. /\ stage' = "save" /\ tmp' = TornFile /\ disk' = disk
      /\ after' = IF index < Len(RunSeeds) THEN "next" ELSE "report"
      /\ seed' = seed
  BY <1>1, <1>2 DEF Persist, seed
<1>10. Doing' = after' /\ Doing' \in {"next", "report"} /\ (Doing' = "next" => index < Len(RunSeeds))
  BY <1>9 DEF Doing
<1>11. best' \in [Seed -> SUBSET CandidateId]
  BY <1>1, <1>5 DEF IInv, TypeOK
<1>12. TypeOK'
  BY <1>2, <1>3, <1>8, <1>9, <1>11 DEF IInv, TypeOK, Stage, world, args, sweep
<1>13. (SavesReturn /\ MemoryLoaded /\ PendingKnown /\ FallBackIsNew /\ FuturesDone /\ Saved)'
  BY <1>2, <1>6, <1>8, <1>9, <1>10 DEF IInv, SavesReturn, MemoryLoaded, PendingKnown, FallBackIsNew,
     FuturesDone, Saved, Evaluating, sweep, args
<1>14. Extends'
  BY <1>2, <1>8, <1>9 DEF IInv, Extends, sweep
<1>15. (RowsListed /\ RowsOnce)'
  BY <1>2, <1>10 DEF IInv, RowsListed, RowsOnce, sweep
<1> QED
  BY <1>12, <1>13, <1>14, <1>15 DEF IInv

LEMMA EveryStep == IInv /\ [Next]_vars => IInv'
<1> SUFFICES ASSUME IInv, [Next]_vars PROVE IInv'
  OBVIOUS
<1>1. CASE Work
  <2>1. CASE RefuseFile \/ SweepFails \/ Report
    BY <2>1, StopStep DEF RefuseFile, SweepFails, Report
  <2> QED
    BY <1>1, <2>1, CreateFileStep, LoadFileStep, EnsureRunStep, BeginSweepStep, EvaluateStep,
       SerialEndsStep, PoolEvaluatesStep, TakeResultStep, TakeExceptionStep, PoolEndsStep,
       FallBackStep, ReplaceStep, RankStep, NextSeedStep DEF Work
<1>2. CASE EvaluationRaises \/ Crash
  BY <1>2, StopStep DEF EvaluationRaises, Crash
<1>3. CASE \E cfg \in Config, n \in {1, 2} : Start(cfg, n)
  BY <1>3, StartStep
<1>4. CASE UNCHANGED vars
  <2> USE <1>4 DEF vars, world, files, args, sweep, outcome
  <2>1. TypeOK'
    BY DEF IInv, TypeOK
  <2>2. (SavesReturn /\ MemoryLoaded /\ PendingKnown /\ FallBackIsNew /\ FuturesDone)'
    BY DEF IInv, SavesReturn, MemoryLoaded, PendingKnown, FallBackIsNew, FuturesDone, Doing, Evaluating, seed
  <2>3. (Saved /\ Extends /\ RowsListed /\ RowsOnce)'
    BY DEF IInv, Saved, Extends, RowsListed, RowsOnce, Doing, seed
  <2> QED
    BY <2>1, <2>2, <2>3 DEF IInv
<1> QED
  BY <1>1, <1>2, <1>3, <1>4, SaveFailsStep, EditStep DEF Next

LEMMA InvariantHolds == Spec => []IInv
  BY Initially, EveryStep, PTL DEF Spec

-----------------------------------------------------------------------------
(* TypeOK, and with it that the checkpoint on disk is a whole one whenever the *)
(* process stops.                                                            *)
THEOREM TypeCorrect == Spec => []TypeOK
<1>1. IInv => TypeOK
  BY DEF IInv
<1> QED
  BY <1>1, InvariantHolds, PTL

(* No candidate is in `evaluated` twice, unless the pool failed after it was.  *)
THEOREM CandidatesOnce == Spec => []OncePerCandidate
<1>1. IInv => OncePerCandidate
  BY DEF IInv, RowsOnce, OncePerCandidate
<1> QED
  BY <1>1, InvariantHolds, PTL

(* What is ranked is on disk.                                                *)
THEOREM RankedRecorded == Spec => []RankedIsRecorded
<1>1. IInv => RankedIsRecorded
  <2> SUFFICES ASSUME IInv, stage = "rank", NEW c \in Candidates(config, seed)
               PROVE  rows[c] # <<>> /\ Recorded(disk, seed, c) = rows[c][Len(rows[c])]
    BY DEF RankedIsRecorded
  <2>1. Doing = "rank" /\ disk = mem
    BY DEF Doing, IInv, Saved
  <2> QED
    BY <2>1 DEF IInv, RowsListed
<1> QED
  BY <1>1, InvariantHolds, PTL

(* No step loses a recorded result, whatever fails and whenever the process    *)
(* stops.                                                                    *)
THEOREM ResultsKept == Spec => RecordedKept
<1> DEFINE Kept ==
      \A s \in Seed, c \in CandidateId : Recorded(disk, s, c) # NoResult =>
        \/ Recorded(disk', s, c) = Recorded(disk, s, c)
        \/ fellBack /\ s = seed /\ Recorded(disk', s, c) # NoResult
<1>1. IInv /\ [Next]_vars => [Kept]_vars
  <2> SUFFICES ASSUME IInv, Next PROVE Kept
    OBVIOUS
  <2>1. CASE UNCHANGED disk
    BY <2>1
  <2>2. CASE Replace
    <3>1. disk' = mem /\ Doing \notin {"down", "create"}
      BY <2>2 DEF Replace, IInv, SavesReturn, Doing
    <3> QED
      BY <3>1 DEF IInv, Extends
  <2>3. UNCHANGED disk \/ Replace
    BY DEF Next, Work, CreateFile, LoadFile, RefuseFile, EnsureRun, BeginSweep, Evaluate, SerialEnds,
       PoolEvaluates, TakeResult, TakeException, PoolEnds, FallBack, SweepFails, Rank, NextSeed,
       Report, EvaluationRaises, SaveFails, Crash, Edit, Start, Persist, Completed, files
  <2> QED
    BY <2>1, <2>2, <2>3
<1> QED
  BY <1>1, InvariantHolds, PTL DEF Spec, RecordedKept

-----------------------------------------------------------------------------
(* One policy: until the base policy is edited and a second process started,  *)
(* everything recorded or on its way to the file was measured over one       *)
(* policy, which is the one the process loaded.                              *)
OfPolicy(file, p) ==
  \A s \in Seed, c \in CandidateId : Recorded(file, s, c) # NoResult => Recorded(file, s, c).policy = p
FuturesOf(fs, p) ==
  \A c \in CandidateId : fs[c].state = "done" => fs[c].result.policy = p
OnePolicy ==
  edits = 0 \/ starts <= 1 =>
    \E p \in Policy : /\ edits = 0 => basePolicy = p
                      /\ stage # "down" => policy = p
                      /\ OfPolicy(disk, p) /\ OfPolicy(mem, p) /\ FuturesOf(futures, p)
FirstStart ==
  /\ starts = 0 => disk = NoFile /\ stage = "down"
  /\ stage = "down" => mem = NoFile
MixInv == OnePolicy /\ FirstStart

LEMMA NothingOfPolicy ==
  \A p : OfPolicy(NoFile, p) /\ FuturesOf(NoFutures, p)
  BY DEF OfPolicy, FuturesOf, Recorded, IsFile, NoFutures, None

(* What can become of the state that mirrors the file, in a step that is not  *)
(* the end of the process: it is loaded, or what it records is kept except   *)
(* for one result.                                                           *)
LEMMA MemoryStep ==
  ASSUME IInv, Next
  PROVE  \/ mem' = mem \/ mem' = NoFile \/ LoadFile
         \/ \A s \in Seed, c \in CandidateId : Recorded(mem', s, c) = NoResult
         \/ \A s \in Seed, c \in CandidateId : Recorded(mem', s, c) = Recorded(mem, s, c)
         \/ \E b \in CandidateId, r \in Result :
              /\ \/ stage = "pool" /\ futures[b].state = "done" /\ r = futures[b].result
                 \/ /\ stage = "serial" /\ b \in Candidates(config, seed)
                    /\ r \in Evaluations(policy, config, seed, b)
              /\ \A s \in Seed, c \in CandidateId :
                   Recorded(mem', s, c) = IF s = seed /\ c = b THEN r ELSE Recorded(mem, s, c)
<1>1. CASE Evaluate
  <2>1. PICK b \in todo : \E r \in Evaluations(policy, config, seed, b) : Completed(b, r, "serial")
    BY <1>1 DEF Evaluate
  <2>2. PICK r \in Evaluations(policy, config, seed, b) : Completed(b, r, "serial")
    BY <2>1
  <2>3. stage = "serial" /\ Evaluating /\ "serial" \in Stage
    BY <1>1 DEF Evaluate, Evaluating, Doing, Stage
  <2>4. b \in Candidates(config, seed) /\ b \in CandidateId
    BY <2>1, <2>3, Bounded DEF IInv, TypeOK, PendingKnown
  <2>5. r \in Result
    BY <2>2, <2>4, SeedType, CandidatesKnown DEF IInv, TypeOK
  <2>6. \A s \in Seed, c \in CandidateId :
          Recorded(mem', s, c) = IF s = seed /\ c = b THEN r ELSE Recorded(mem, s, c)
    BY <2>2, <2>3, <2>4, <2>5, CompletedState
  <2> QED
    BY <2>2, <2>3, <2>4, <2>5, <2>6
<1>2. CASE \E c \in CandidateId : TakeResult(c)
  <2>1. PICK b \in CandidateId : TakeResult(b)
    BY <1>2
  <2>2. PICK r : r = futures[b].result
    OBVIOUS
  <2>3. /\ stage = "pool" /\ futures[b].state = "done" /\ Completed(b, r, "pool")
        /\ Evaluating /\ "pool" \in Stage
    BY <2>1, <2>2 DEF TakeResult, Evaluating, Doing, Stage
  <2>4. r \in Result
    BY <2>2, <2>3 DEF IInv, FuturesDone
  <2>5. \A s \in Seed, c \in CandidateId :
          Recorded(mem', s, c) = IF s = seed /\ c = b THEN r ELSE Recorded(mem, s, c)
    BY <2>3, <2>4, CompletedState
  <2> QED
    BY <2>2, <2>3, <2>4, <2>5
<1>3. CASE EnsureRun
  <2>1. seed \in Seed /\ mem \in File
    BY <1>3, SeedType DEF IInv, MemoryLoaded, Doing, EnsureRun
  <2>2. CASE mem.runs[seed] = NoRun
    <3>1. mem' = WithRun(mem, seed, NewRun)
      BY <1>3, <2>2 DEF EnsureRun, Persist
    <3> QED
      BY <2>1, <2>2, <3>1, NewRunType, WithRunRecords, RecordedInRun
  <2>3. CASE mem.runs[seed] # NoRun
    BY <1>3, <2>3 DEF EnsureRun
  <2> QED
    BY <2>2, <2>3
<1>4. CASE Rank
  <2>1. PICK frontier \in SUBSET CandidateId : \E next :
          Persist(WithRun(mem, seed, [mem.runs[seed] EXCEPT !.finished = TRUE, !.frontier = frontier]), next)
    BY <1>4, RankedIds DEF Rank
  <2> DEFINE run == [mem.runs[seed] EXCEPT !.finished = TRUE, !.frontier = frontier]
  <2>2. seed \in Seed /\ mem \in File /\ mem.runs[seed] \in Run
    BY <1>4, SeedType DEF IInv, MemoryLoaded, Rank, Doing
  <2>3. run \in Run /\ run.completed = mem.runs[seed].completed
    BY <2>2 DEF Run
  <2>4. mem' = WithRun(mem, seed, run)
    BY <2>1 DEF Persist
  <2> HIDE DEF run
  <2>5. \A s \in Seed, c \in CandidateId : Recorded(mem', s, c) = Recorded(mem, s, c)
    BY <2>2, <2>3, <2>4, WithRunRecords, RecordedInRun, RunsDiffer
  <2> QED
    BY <2>5
<1>5. CASE CreateFile
  BY <1>5 DEF CreateFile, Persist, Recorded
<1>6. CASE LoadFile
  BY <1>6
<1>7. Evaluate \/ (\E c \in CandidateId : TakeResult(c)) \/ EnsureRun \/ Rank \/ CreateFile \/ LoadFile
      \/ mem' = mem \/ mem' = NoFile
  BY DEF Next, Work, RefuseFile, BeginSweep, SerialEnds, PoolEvaluates, TakeException, PoolEnds,
     FallBack, SweepFails, Replace, NextSeed, Report, EvaluationRaises, SaveFails, Crash, Edit, Start, Stop
<1> QED
  BY <1>1, <1>2, <1>3, <1>4, <1>5, <1>6, <1>7

(* The same of the futures: they are dropped, submitted anew, or one of them   *)
(* ends.                                                                     *)
LEMMA FuturesStep ==
  ASSUME IInv, Next
  PROVE  \/ futures' = futures
         \/ \A c \in CandidateId : futures'[c].state = "done" =>
              \/ futures'[c] = futures[c]
              \/ /\ stage # "down" /\ c \in Candidates(config, seed)
                 /\ futures'[c].result \in Evaluations(policy, config, seed, c)
<1>1. CASE BeginSweep
  <2>1. futures' = futures
        \/ \A c \in CandidateId : futures'[c] \in {Submitted, None}
    BY <1>1 DEF BeginSweep
  <2> QED
    BY <2>1 DEF Submitted, None
<1>2. CASE \E c \in CandidateId : PoolEvaluates(c)
  <2>1. PICK b \in CandidateId : PoolEvaluates(b)
    BY <1>2
  <2>2. b \in Candidates(config, seed) /\ stage # "down"
    <3>1. futures[b] = Submitted
      BY <2>1 DEF PoolEvaluates
    <3>2. b \in pending /\ futures # NoFutures
      BY <3>1 DEF IInv, PendingKnown, Submitted, NoFutures, None
    <3> QED
      BY <3>2 DEF IInv, PendingKnown, Evaluating, Doing
  <2>3. CASE \E r \in Evaluations(policy, config, seed, b) : futures' = [futures EXCEPT ![b] = Done(r)]
    <3>1. PICK r \in Evaluations(policy, config, seed, b) : futures' = [futures EXCEPT ![b] = Done(r)]
      BY <2>3
    <3>2. \A c \in CandidateId : futures'[c] = IF c = b THEN Done(r) ELSE futures[c]
      BY <3>1 DEF IInv, TypeOK
    <3>3. Done(r).result = r
      BY DEF Done
    <3> QED
      BY <2>2, <3>2, <3>3
  <2>4. CASE \E e \in {"osError", "error"} : futures' = [futures EXCEPT ![b] = Raised(e)]
    <3>1. PICK e \in {"osError", "error"} : futures' = [futures EXCEPT ![b] = Raised(e)]
      BY <2>4
    <3>2. \A c \in CandidateId : futures'[c] = IF c = b THEN Raised(e) ELSE futures[c]
      BY <3>1 DEF IInv, TypeOK
    <3>3. Raised(e).state # "done"
      BY DEF Raised
    <3> QED
      BY <3>2, <3>3
  <2> QED
    BY <2>1, <2>3, <2>4 DEF PoolEvaluates
<1>3. CASE \E c \in CandidateId : TakeResult(c)
  <2>1. PICK b \in CandidateId : futures' = [futures EXCEPT ![b] = None]
    BY <1>3 DEF TakeResult
  <2>2. \A c \in CandidateId : futures'[c] = IF c = b THEN None ELSE futures[c]
    BY <2>1 DEF IInv, TypeOK
  <2> QED
    BY <2>2 DEF None
<1>4. CASE futures' = NoFutures
  BY <1>4 DEF NoFutures, None
<1>5. BeginSweep \/ (\E c \in CandidateId : PoolEvaluates(c)) \/ (\E c \in CandidateId : TakeResult(c))
      \/ futures' = NoFutures \/ futures' = futures
  BY DEF Next, Work, CreateFile, LoadFile, RefuseFile, EnsureRun, Evaluate, SerialEnds, TakeException,
     PoolEnds, FallBack, SweepFails, Replace, Rank, NextSeed, Report, EvaluationRaises, SaveFails, Crash,
     Edit, Start, Stop, sweep
<1> QED
  BY <1>1, <1>2, <1>3, <1>4, <1>5

(* The file changes only to what the state is.                               *)
LEMMA DiskStep ==
  ASSUME IInv, Next
  PROVE  disk' = disk \/ (disk' = mem /\ stage = "save" /\ Doing \notin {"down", "create"} /\ Replace)
<1>1. UNCHANGED disk \/ Replace
  BY DEF Next, Work, CreateFile, LoadFile, RefuseFile, EnsureRun, BeginSweep, Evaluate, SerialEnds,
     PoolEvaluates, TakeResult, TakeException, PoolEnds, FallBack, SweepFails, Rank, NextSeed,
     Report, EvaluationRaises, SaveFails, Crash, Edit, Start, Persist, Completed, files
<1> QED
  BY <1>1 DEF Replace, IInv, SavesReturn, Doing

(* What the world outside does, and who loads its policy.                    *)
LEMMA WorldStep ==
  ASSUME IInv, Next
  PROVE  /\ (edits' = edits /\ basePolicy' = basePolicy) \/ edits' = edits + 1
         /\ \/ stage' = "down"
            \/ starts' = starts /\ stage # "down" /\ policy' = policy
            \/ /\ starts' = starts + 1 /\ stage = "down" /\ policy' = basePolicy
               /\ basePolicy' = basePolicy /\ edits' = edits
               /\ disk' = disk /\ mem' = mem /\ futures' = futures
         /\ starts' = starts \/ starts' = starts + 1
  BY DEF Next, Work, CreateFile, LoadFile, RefuseFile, EnsureRun, BeginSweep, Evaluate, SerialEnds,
     PoolEvaluates, TakeResult, TakeException, PoolEnds, FallBack, SweepFails, Replace, Rank, NextSeed,
     Report, EvaluationRaises, SaveFails, Crash, Edit, Start, Stop, Persist, Completed, world, files,
     args, sweep, IInv, SavesReturn, Doing

(* Without a process the policy may be edited and a process started.         *)
LEMMA WhenDown ==
  ASSUME IInv, Next, stage = "down"
  PROVE  Edit \/ \E cfg \in Config, n \in {1, 2} : Start(cfg, n)
<1>1. ~(\E c \in CandidateId : PoolEvaluates(c))
  <2>1. futures = NoFutures
    BY DEF IInv, PendingKnown, Doing
  <2>2. \A c \in CandidateId : futures[c] # Submitted
    BY <2>1 DEF NoFutures, None, Submitted
  <2> QED
    BY <2>2 DEF PoolEvaluates
<1>2. ~(\E c \in CandidateId : TakeResult(c) \/ TakeException(c))
  BY DEF TakeResult, TakeException
<1>3. ~Work
  BY <1>1, <1>2 DEF Work, CreateFile, LoadFile, RefuseFile, EnsureRun, BeginSweep, Evaluate, SerialEnds,
     PoolEnds, FallBack, SweepFails, Replace, Rank, NextSeed, Report
<1> QED
  BY <1>3 DEF Next, EvaluationRaises, SaveFails, Crash

LEMMA MixInitially == Init => MixInv
<1> SUFFICES ASSUME Init PROVE MixInv
  OBVIOUS
<1>1. FirstStart
  BY DEF Init, FirstStart
<1>2. /\ basePolicy \in Policy /\ stage = "down"
      /\ disk = NoFile /\ mem = NoFile /\ futures = NoFutures
  BY DEF Init
<1>3. OnePolicy
  BY <1>2, NothingOfPolicy DEF OnePolicy
<1> QED
  BY <1>1, <1>3 DEF MixInv

LEMMA FirstStartStep == IInv /\ MixInv /\ Next => FirstStart'
<1> SUFFICES ASSUME IInv, MixInv, Next PROVE FirstStart'
  OBVIOUS
<1>1. starts \in Nat
  BY BoundsAssumption DEF IInv, TypeOK
<1>2. stage' = "down" => mem' = NoFile
  <2>1. Stop => mem' = NoFile
    BY DEF Stop
  <2>2. UNCHANGED <<stage, mem>> \/ Stop \/ stage' # "down"
    BY DEF Next, Work, CreateFile, LoadFile, RefuseFile, EnsureRun, BeginSweep, Evaluate, SerialEnds,
       PoolEvaluates, TakeResult, TakeException, PoolEnds, FallBack, SweepFails, Replace, Rank, NextSeed,
       Report, EvaluationRaises, SaveFails, Crash, Edit, Start, Persist, Completed, GoTo, IInv, SavesReturn
  <2> QED
    BY <2>1, <2>2 DEF MixInv, FirstStart
<1>3. starts' = 0 => disk' = NoFile /\ stage' = "down"
  <2>1. CASE stage = "down"
    <3>1. Edit \/ \E cfg \in Config, n \in {1, 2} : Start(cfg, n)
      BY <2>1, WhenDown
    <3> QED
      BY <1>1, <3>1 DEF Edit, Start, files, args, MixInv, FirstStart
  <2>2. CASE stage # "down"
    <3>1. starts # 0
      BY <2>2 DEF MixInv, FirstStart
    <3>2. starts' = starts \/ starts' = starts + 1
      BY WorldStep
    <3> QED
      BY <1>1, <3>1, <3>2
  <2> QED
    BY <2>1, <2>2
<1> QED
  BY <1>2, <1>3 DEF FirstStart

LEMMA OnePolicyStep == IInv /\ MixInv /\ Next => OnePolicy'
<1> SUFFICES ASSUME IInv, MixInv, Next, edits' = 0 \/ starts' <= 1
             PROVE  \E p \in Policy : /\ edits' = 0 => basePolicy' = p
                                      /\ stage' # "down" => policy' = p
                                      /\ OfPolicy(disk', p) /\ OfPolicy(mem', p) /\ FuturesOf(futures', p)
  BY DEF OnePolicy
<1>1. edits \in Nat /\ starts \in Nat
  BY BoundsAssumption DEF IInv, TypeOK
<1>2. /\ (edits' = edits /\ basePolicy' = basePolicy) \/ edits' = edits + 1
      /\ \/ stage' = "down"
         \/ starts' = starts /\ stage # "down" /\ policy' = policy
         \/ /\ starts' = starts + 1 /\ stage = "down" /\ policy' = basePolicy
            /\ basePolicy' = basePolicy /\ edits' = edits
            /\ disk' = disk /\ mem' = mem /\ futures' = futures
      /\ starts' = starts \/ starts' = starts + 1
  BY WorldStep
<1>3. PICK p \in Policy : /\ edits = 0 => basePolicy = p
                          /\ stage # "down" => policy = p
                          /\ OfPolicy(disk, p) /\ OfPolicy(mem, p) /\ FuturesOf(futures, p)
  <2>1. edits = 0 \/ starts <= 1
    BY <1>1, <1>2
  <2> QED
    BY <2>1 DEF MixInv, OnePolicy
<1>4. CASE starts' = starts + 1 /\ edits' # 0
  <2>1. starts = 0 /\ disk = NoFile /\ stage = "down" /\ mem = NoFile
    BY <1>1, <1>4 DEF MixInv, FirstStart
  <2>2. futures = NoFutures /\ basePolicy \in Policy
    BY <2>1 DEF IInv, TypeOK, PendingKnown, Doing
  <2>3. /\ OfPolicy(disk, basePolicy) /\ OfPolicy(mem, basePolicy) /\ FuturesOf(futures, basePolicy)
    BY <2>1, <2>2, NothingOfPolicy
  <2>4. starts' # starts
    BY <1>1, <1>4
  <2>5. CASE stage' = "down"
    <3>1. Edit \/ \E cfg \in Config, n \in {1, 2} : Start(cfg, n)
      BY <2>1, WhenDown
    <3> QED
      BY <2>4, <2>5, <3>1 DEF Edit, Start, GoTo, args
  <2>6. CASE stage' # "down"
    BY <1>2, <1>4, <2>1, <2>2, <2>3, <2>4, <2>6
  <2> QED
    BY <2>5, <2>6
<1>5. CASE starts' = starts \/ edits' = 0
  <2>1. edits' = 0 => basePolicy' = p
    BY <1>1, <1>2, <1>3
  <2>2. stage' # "down" => policy' = p
    BY <1>1, <1>2, <1>3, <1>5
  <2>3. OfPolicy(disk', p)
    BY <1>3, DiskStep
  <2>4. FuturesOf(futures', p)
    <3> SUFFICES ASSUME futures' # futures, NEW c \in CandidateId, futures'[c].state = "done"
                 PROVE  futures'[c].result.policy = p
      BY <1>3 DEF FuturesOf
    <3>1. CASE futures'[c] = futures[c]
      BY <1>3, <3>1 DEF FuturesOf
    <3>2. CASE /\ stage # "down" /\ c \in Candidates(config, seed)
               /\ futures'[c].result \in Evaluations(policy, config, seed, c)
      BY <1>3, <3>2, SeedType, EvaluationKnown DEF IInv, TypeOK
    <3> QED
      BY <3>1, <3>2, FuturesStep
  <2>5. OfPolicy(mem', p)
    <3>1. CASE mem' = mem \/ mem' = NoFile \/ LoadFile
      BY <1>3, <3>1, NothingOfPolicy DEF LoadFile
    <3>2. CASE \/ \A s \in Seed, c \in CandidateId : Recorded(mem', s, c) = NoResult
               \/ \A s \in Seed, c \in CandidateId : Recorded(mem', s, c) = Recorded(mem, s, c)
      BY <1>3, <3>2 DEF OfPolicy
    <3>3. ASSUME NEW b \in CandidateId, NEW r \in Result,
                 \/ stage = "pool" /\ futures[b].state = "done" /\ r = futures[b].result
                 \/ /\ stage = "serial" /\ b \in Candidates(config, seed)
                    /\ r \in Evaluations(policy, config, seed, b),
                 \A s \in Seed, c \in CandidateId :
                   Recorded(mem', s, c) = IF s = seed /\ c = b THEN r ELSE Recorded(mem, s, c)
          PROVE  OfPolicy(mem', p)
      <4>1. r.policy = p
        BY <1>3, <3>3, SeedType, EvaluationKnown DEF IInv, TypeOK, FuturesOf
      <4> QED
        BY <1>3, <3>3, <4>1 DEF OfPolicy
    <3> QED
      BY <3>1, <3>2, <3>3, MemoryStep
  <2> QED
    BY <2>1, <2>2, <2>3, <2>4, <2>5
<1> QED
  BY <1>2, <1>4, <1>5

(* The inductive step: while nothing was edited, or while only one process     *)
(* ran, a process takes the policy it loaded for all it adds to the file.    *)
LEMMA MixHolds == Spec => []MixInv
<1>1. IInv /\ MixInv /\ [Next]_vars => MixInv'
  <2> SUFFICES ASSUME IInv, MixInv, [Next]_vars PROVE MixInv'
    OBVIOUS
  <2>1. CASE Next
    BY <2>1, FirstStartStep, OnePolicyStep DEF MixInv
  <2>2. CASE UNCHANGED vars
    BY <2>2 DEF MixInv, OnePolicy, FirstStart, vars, world, files, args, sweep
  <2> QED
    BY <2>1, <2>2
<1> QED
  BY <1>1, MixInitially, InvariantHolds, PTL DEF Spec

(* Results measured over two policies are found in the checkpoint only when    *)
(* the base policy was edited and a process was started again: the signature *)
(* of a sweep leaves the policy out, but one process loads it once.          *)
THEOREM PoliciesMixed == Spec => []MixNeedsResume
<1>1. IInv /\ MixInv => MixNeedsResume
  <2> SUFFICES ASSUME IInv, MixInv, NEW s \in Seed, NEW t \in Seed, NEW c \in CandidateId, NEW d \in CandidateId,
                      Recorded(disk, s, c) # NoResult, Recorded(disk, t, d) # NoResult,
                      Recorded(disk, s, c).policy # Recorded(disk, t, d).policy
               PROVE  starts > 1 /\ edits > 0
    BY DEF MixNeedsResume
  <2>1. edits \in Nat /\ starts \in Nat
    BY BoundsAssumption DEF IInv, TypeOK
  <2>2. ~(edits = 0 \/ starts <= 1)
    BY DEF MixInv, OnePolicy, OfPolicy
  <2> QED
    BY <2>1, <2>2
<1> QED
  BY <1>1, InvariantHolds, MixHolds, PTL

-----------------------------------------------------------------------------
(* Finished runs: all candidates of a finished run are recorded, and its       *)
(* frontier is the one of what is recorded.                                  *)
FrontierOf(file, s) ==
  {c \in Candidates(file.config, s) :
     ~(\E d \in Candidates(file.config, s) \ {c} :
         Dominates(Recorded(file, s, d).vector, Recorded(file, s, c).vector, file.config.epsilon))}
Complete(file) ==
  \A s \in Seed : Finished(file, s) =>
    \A c \in Candidates(file.config, s) : Recorded(file, s, c) # NoResult
Agrees(file, twice) ==
  \A s \in Seed \ twice : Finished(file, s) => file.runs[s].frontier = FrontierOf(file, s)

FinishedRuns == Complete(disk) /\ Complete(mem) /\ Agrees(disk, doubled) /\ Agrees(mem, doubled)

(* A run that has candidates to evaluate is not finished, and no candidate of  *)
(* another sweep gets rows.                                                  *)
Unfinished == Evaluating /\ pending # {} => ~mem.runs[seed].finished
RowsOfThis == Evaluating => \A c \in CandidateId : c \notin Candidates(config, seed) => rows[c] = <<>>
ResumeInv == FinishedRuns /\ Unfinished /\ RowsOfThis

LEMMA NothingFinished ==
  ASSUME NEW file, NEW twice, \A s \in Seed : ~Finished(file, s)
  PROVE  Complete(file) /\ Agrees(file, twice)
  BY DEF Complete, Agrees

(* A run that replaces another has to be in order itself.                    *)
LEMMA RunReplaced ==
  ASSUME NEW file \in File, NEW s \in Seed, NEW run \in Run, NEW new, new = WithRun(file, s, run),
         NEW twice, NEW more, twice \subseteq more,
         Complete(file), Agrees(file, twice),
         run.finished => \A c \in Candidates(file.config, s) : run.completed[c] # NoResult,
         run.finished /\ s \notin more => run.frontier = FrontierOf(new, s)
  PROVE  Complete(new) /\ Agrees(new, more)
<1>1. /\ new \in File /\ new.config = file.config
      /\ new.runs = [file.runs EXCEPT ![s] = run]
  BY DEF File, WithRun
<1>2. IsFile(file) /\ IsFile(new)
  BY <1>1, RunsDiffer DEF IsFile
<1>3. new.runs[s] = run /\ \A t \in Seed \ {s} : new.runs[t] = file.runs[t]
  BY <1>1 DEF File
<1>4. Finished(new, s) = run.finished /\ \A c : Recorded(new, s, c) = run.completed[c]
  BY <1>2, <1>3, RunsDiffer DEF Finished, Recorded, Run
<1>5. ASSUME NEW t \in Seed \ {s}
      PROVE  /\ Finished(new, t) = Finished(file, t)
             /\ \A c : Recorded(new, t, c) = Recorded(file, t, c)
  BY <1>2, <1>3 DEF Finished, Recorded
<1>6. ASSUME NEW t \in Seed \ {s}
      PROVE  FrontierOf(new, t) = FrontierOf(file, t)
  <2>1. \A c : Recorded(new, t, c) = Recorded(file, t, c)
    BY <1>5
  <2> QED
    BY <1>1, <2>1 DEF FrontierOf
<1>7. Complete(new)
  <2> SUFFICES ASSUME NEW t \in Seed, Finished(new, t), NEW c \in Candidates(new.config, t)
               PROVE  Recorded(new, t, c) # NoResult
    BY DEF Complete
  <2>1. CASE t = s
    <3>1. run.finished /\ Recorded(new, t, c) = run.completed[c]
      BY <1>4, <2>1
    <3>2. c \in Candidates(file.config, s)
      BY <1>1, <2>1
    <3> QED
      BY <3>1, <3>2
  <2>2. CASE t # s
    BY <1>1, <1>5, <2>2 DEF Complete
  <2> QED
    BY <2>1, <2>2
<1>8. Agrees(new, more)
  <2> SUFFICES ASSUME NEW t \in Seed \ more, Finished(new, t)
               PROVE  new.runs[t].frontier = FrontierOf(new, t)
    BY DEF Agrees
  <2>1. CASE t = s
    BY <1>3, <1>4, <2>1
  <2>2. CASE t # s
    BY <1>3, <1>5, <1>6, <2>2 DEF Agrees
  <2> QED
    BY <2>1, <2>2
<1> QED
  BY <1>7, <1>8

(* Sweeps go on with a candidate that has ended, or begin.                   *)
LEMMA EvaluatingStep ==
  ASSUME IInv, Next, Evaluating'
  PROVE  \/ BeginSweep
         \/ Evaluating /\ UNCHANGED <<mem, pending, config, policy, index, rows>>
         \/ /\ Evaluating /\ UNCHANGED <<pending, config, policy, index>>
            /\ \E c \in Candidates(config, seed), r \in Result, next \in {"serial", "pool"} :
                 /\ c \in pending /\ Completed(c, r, next)
                 /\ \/ r \in Evaluations(policy, config, seed, c)
                    \/ futures[c].state = "done" /\ r = futures[c].result
<1>1. CASE Evaluate
  <2>1. PICK c \in todo : \E r \in Evaluations(policy, config, seed, c) : Completed(c, r, "serial")
    BY <1>1 DEF Evaluate
  <2>2. PICK r \in Evaluations(policy, config, seed, c) : Completed(c, r, "serial")
    BY <2>1
  <2>3. stage = "serial" /\ Evaluating /\ UNCHANGED <<pending, config, policy, index>>
    BY <1>1 DEF Evaluate, Evaluating, Doing, args
  <2>4. c \in Candidates(config, seed) /\ c \in pending
    BY <2>1, <2>3, Bounded DEF IInv, TypeOK, PendingKnown
  <2>5. r \in Result
    BY <2>2, <2>4, SeedType, CandidatesKnown DEF IInv, TypeOK
  <2> QED
    BY <2>2, <2>3, <2>4, <2>5
<1>2. CASE \E c \in CandidateId : TakeResult(c)
  <2>1. PICK c \in CandidateId : TakeResult(c)
    BY <1>2
  <2>2. PICK r : r = futures[c].result
    OBVIOUS
  <2>3. /\ stage = "pool" /\ futures[c].state = "done" /\ Completed(c, r, "pool")
        /\ Evaluating /\ UNCHANGED <<pending, config, policy, index>>
    BY <2>1, <2>2 DEF TakeResult, Evaluating, Doing, args
  <2>4. r \in Result
    BY <2>2, <2>3 DEF IInv, FuturesDone
  <2>5. c \in pending /\ c \in Candidates(config, seed)
    BY <2>3 DEF IInv, PendingKnown
  <2> QED
    BY <2>2, <2>3, <2>4, <2>5
<1>3. CASE CreateFile \/ LoadFile \/ EnsureRun \/ Rank \/ NextSeed \/ Stop
  BY <1>3 DEF CreateFile, LoadFile, EnsureRun, Rank, NextSeed, Stop, Persist, GoTo, Evaluating, Doing
<1>4. CASE \E cfg \in Config, n \in {1, 2} : Start(cfg, n)
  BY <1>4 DEF Start, GoTo, Evaluating, Doing
<1>5. CASE \E c \in CandidateId : PoolEvaluates(c)
  BY <1>5 DEF PoolEvaluates, args, Evaluating, Doing
<1>6. CASE \E c \in CandidateId : TakeException(c)
  BY <1>6 DEF TakeException, args, sweep, Evaluating, Doing
<1>7. CASE SerialEnds \/ PoolEnds \/ FallBack \/ Replace \/ Edit
  BY <1>7 DEF SerialEnds, PoolEnds, FallBack, Replace, Edit, GoTo, args, sweep, Evaluating, Doing
<1>8. CASE SaveFails
  BY <1>3, <1>8 DEF SaveFails, GoTo, args, sweep, Evaluating, Doing
<1>9. BeginSweep \/ Evaluate \/ (\E c \in CandidateId : TakeResult(c))
      \/ CreateFile \/ LoadFile \/ EnsureRun \/ Rank \/ NextSeed \/ Stop
      \/ (\E cfg \in Config, n \in {1, 2} : Start(cfg, n))
      \/ (\E c \in CandidateId : PoolEvaluates(c)) \/ (\E c \in CandidateId : TakeException(c))
      \/ SerialEnds \/ PoolEnds \/ FallBack \/ Replace \/ Edit \/ SaveFails
  BY DEF Next, Work, RefuseFile, SweepFails, Report, EvaluationRaises, Crash
<1> QED
  BY <1>1, <1>2, <1>3, <1>4, <1>5, <1>6, <1>7, <1>8, <1>9

(* What a completed candidate makes of the run of its seed.                  *)
LEMMA CompletedRun ==
  ASSUME IInv, Evaluating, NEW c \in CandidateId, NEW r \in Result, NEW next, Completed(c, r, next)
  PROVE  \E run \in Run : /\ mem' = WithRun(mem, seed, run)
                          /\ run.finished = mem.runs[seed].finished
                          /\ run.frontier = mem.runs[seed].frontier
<1> DEFINE run == [mem.runs[seed] EXCEPT !.completed[c] = r]
<1>1. seed \in Seed /\ mem \in File /\ mem.runs[seed] \in Run
  BY SeedType DEF IInv, MemoryLoaded, Evaluating
<1>2. run \in Run /\ run.finished = mem.runs[seed].finished /\ run.frontier = mem.runs[seed].frontier
  BY <1>1 DEF Run
<1>3. mem' = WithRun(mem, seed, run)
  BY DEF Completed, Persist, WithResult
<1> QED
  BY <1>2, <1>3

LEMMA UnfinishedStep == IInv /\ ResumeInv /\ Next => Unfinished'
<1> SUFFICES ASSUME IInv, ResumeInv, Next, Evaluating', pending' # {}
             PROVE  ~mem'.runs[seed'].finished
  BY DEF Unfinished
<1>1. CASE BeginSweep
  <2>1. /\ mem' = mem /\ seed' = seed /\ stage = "sweep" /\ config' = config
        /\ pending' = Candidates(config, seed) \ Restored(mem.runs[seed].completed)
    BY <1>1 DEF BeginSweep, args, seed
  <2>2. seed \in Seed /\ mem \in File /\ mem.config = config /\ mem.runs[seed] \in Run
    BY <2>1, SeedType DEF IInv, MemoryLoaded, Doing
  <2>3. PICK c \in Candidates(config, seed) : mem.runs[seed].completed[c] = NoResult
    BY <2>1 DEF Restored
  <2>4. Recorded(mem, seed, c) = NoResult /\ Finished(mem, seed) = mem.runs[seed].finished
    BY <2>2, <2>3, RunsDiffer DEF Recorded, Finished, IsFile, Run
  <2>5. ~Finished(mem, seed)
    BY <2>2, <2>4 DEF ResumeInv, FinishedRuns, Complete
  <2> QED
    BY <2>1, <2>2, <2>4, <2>5 DEF Run
<1>2. CASE Evaluating /\ UNCHANGED <<mem, pending, config, policy, index, rows>>
  <2>1. seed' = seed
    BY <1>2 DEF seed
  <2> QED
    BY <1>2, <2>1 DEF ResumeInv, Unfinished
<1>3. ASSUME Evaluating, UNCHANGED <<pending, config, policy, index>>,
             NEW c \in Candidates(config, seed), NEW r \in Result, NEW next \in {"serial", "pool"},
             c \in pending, Completed(c, r, next)
      PROVE  ~mem'.runs[seed'].finished
  <2>1. seed' = seed /\ c \in CandidateId
    BY <1>3, Bounded DEF seed, IInv
  <2>2. PICK run \in Run : mem' = WithRun(mem, seed, run) /\ run.finished = mem.runs[seed].finished
    BY <1>3, <2>1, CompletedRun
  <2>3. mem'.runs[seed] = run
    BY <1>3, <2>2, SeedType, WithRunRecords DEF IInv, MemoryLoaded, Evaluating
  <2> QED
    BY <1>3, <2>1, <2>2, <2>3 DEF ResumeInv, Unfinished
<1> QED
  BY <1>1, <1>2, <1>3, EvaluatingStep

LEMMA RowsOfThisStep == IInv /\ ResumeInv /\ Next => RowsOfThis'
<1> SUFFICES ASSUME IInv, ResumeInv, Next, Evaluating', NEW c \in CandidateId, c \notin Candidates(config', seed')
             PROVE  rows'[c] = <<>>
  BY DEF RowsOfThis
<1>1. CASE BeginSweep
  BY <1>1 DEF BeginSweep, Restored, args, seed
<1>2. CASE Evaluating /\ UNCHANGED <<mem, pending, config, policy, index, rows>>
  BY <1>2 DEF ResumeInv, RowsOfThis, seed
<1>3. ASSUME Evaluating, UNCHANGED <<pending, config, policy, index>>,
             NEW b \in Candidates(config, seed), NEW r \in Result, NEW next \in {"serial", "pool"},
             b \in pending, Completed(b, r, next)
      PROVE  rows'[c] = <<>>
  <2>1. seed' = seed /\ b \in CandidateId /\ c # b
    BY <1>3, Bounded DEF seed, IInv
  <2>2. rows' = [rows EXCEPT ![b] = Append(rows[b], r)] /\ rows \in [CandidateId -> Seq(Result)]
    BY <1>3 DEF Completed, IInv, TypeOK
  <2> QED
    BY <1>3, <2>1, <2>2 DEF ResumeInv, RowsOfThis
<1> QED
  BY <1>1, <1>2, <1>3, EvaluatingStep

LEMMA OneRow ==
  ASSUME NEW q \in Seq(Result), q # <<>>, Len(q) <= 1
  PROVE  Len(q) = 1 /\ DOMAIN q = {1}
<1>1. Len(q) \in Nat /\ DOMAIN q = 1..Len(q) /\ Len(q) # 0
  OBVIOUS
<1>2. Len(q) = 1
  BY <1>1
<1> QED
  BY <1>1, <1>2

(* When every candidate has one row, the rows are what is recorded.          *)
LEMMA RowsAreRecorded ==
  ASSUME IInv, ResumeInv, stage = "rank", \A c \in CandidateId : Len(rows[c]) <= 1
  PROVE  RowsOfSweep = {[id |-> c, vector |-> Recorded(mem, seed, c).vector] : c \in Candidates(config, seed)}
<1>1. Doing = "rank" /\ Evaluating
  BY DEF Doing, Evaluating
<1>2. ASSUME NEW c \in CandidateId, c \in Candidates(config, seed)
      PROVE  DOMAIN rows[c] = {1} /\ rows[c][1] = Recorded(mem, seed, c)
  <2>1. rows[c] # <<>> /\ Recorded(mem, seed, c) = rows[c][Len(rows[c])]
    BY <1>1, <1>2 DEF IInv, RowsListed
  <2>2. rows[c] \in Seq(Result) /\ Len(rows[c]) <= 1
    BY DEF IInv, TypeOK
  <2>3. Len(rows[c]) = 1 /\ DOMAIN rows[c] = {1}
    BY <2>1, <2>2, OneRow
  <2> QED
    BY <2>1, <2>3
<1>3. ASSUME NEW c \in CandidateId, c \notin Candidates(config, seed)
      PROVE  DOMAIN rows[c] = {}
  BY <1>1, <1>3 DEF ResumeInv, RowsOfThis
<1>4. ASSUME NEW c \in CandidateId
      PROVE  {[id |-> c, vector |-> rows[c][i].vector] : i \in DOMAIN rows[c]} =
               IF c \in Candidates(config, seed)
               THEN {[id |-> c, vector |-> Recorded(mem, seed, c).vector]} ELSE {}
  BY <1>2, <1>3
<1>5. \A c \in Candidates(config, seed) : c \in CandidateId
  BY Bounded DEF IInv
<1> QED
  BY <1>4, <1>5 DEF RowsOfSweep

(* The rows no other one dominates are then the frontier of the record.      *)
LEMMA RankedFrontier ==
  ASSUME NEW file, NEW s,
         NEW ranked, ranked = {[id |-> c, vector |-> Recorded(file, s, c).vector] : c \in Candidates(file.config, s)}
  PROVE  {x.id : x \in Undominated(ranked, file.config.epsilon)} = FrontierOf(file, s)
<1>1. \A x \in ranked : x.id \in Candidates(file.config, s) /\ x.vector = Recorded(file, s, x.id).vector
  OBVIOUS
<1>2. \A c \in Candidates(file.config, s) : \E x \in ranked : x.id = c
  <2> SUFFICES ASSUME NEW c \in Candidates(file.config, s) PROVE \E x \in ranked : x.id = c
    OBVIOUS
  <2>1. PICK row : row = [id |-> c, vector |-> Recorded(file, s, c).vector]
    OBVIOUS
  <2>2. row \in ranked /\ row.id = c
    BY <2>1
  <2> QED
    BY <2>2
<1>3. ASSUME NEW x \in ranked
      PROVE  x \in Undominated(ranked, file.config.epsilon) <=> x.id \in FrontierOf(file, s)
  BY <1>1, <1>2 DEF Undominated, FrontierOf
<1>4. \A x \in Undominated(ranked, file.config.epsilon) : x \in ranked
  BY DEF Undominated
<1>5. \A c \in FrontierOf(file, s) : c \in Candidates(file.config, s)
  BY DEF FrontierOf
<1> QED
  BY <1>2, <1>3, <1>4, <1>5

(* The frontier a run is finished with is the one of its record.             *)
LEMMA RankFinishes ==
  ASSUME IInv, ResumeInv, Rank
  PROVE  Complete(mem') /\ Agrees(mem', doubled')
<1>1. PICK frontier \in SUBSET CandidateId :
        /\ frontier = {x.id : x \in Undominated(RowsOfSweep, config.epsilon)}
        /\ mem' = WithRun(mem, seed, [mem.runs[seed] EXCEPT !.finished = TRUE, !.frontier = frontier])
  BY RankedIds DEF Rank, Persist
<1>2. PICK run : run = [mem.runs[seed] EXCEPT !.finished = TRUE, !.frontier = frontier]
  OBVIOUS
<1>3. /\ stage = "rank" /\ Doing = "rank" /\ Evaluating
      /\ doubled' = IF \E c \in CandidateId : Len(rows[c]) > 1 THEN doubled \cup {seed} ELSE doubled
  BY DEF Rank, Doing, Evaluating
<1>4. seed \in Seed /\ mem \in File /\ mem.config = config /\ mem.runs[seed] \in Run
  BY <1>3, SeedType DEF IInv, MemoryLoaded
<1>5. run \in Run /\ run.completed = mem.runs[seed].completed /\ run.frontier = frontier
  BY <1>2, <1>4 DEF Run
<1>6. PICK new : new = mem'
  OBVIOUS
<1>7. new = WithRun(mem, seed, run)
  BY <1>1, <1>2, <1>6
<1>8. /\ new.config = config
      /\ \A c \in CandidateId : Recorded(new, seed, c) = run.completed[c] /\ Recorded(mem, seed, c) = run.completed[c]
  BY <1>4, <1>5, <1>7, WithRunRecords, RecordedInRun, RunsDiffer
<1>9. \A c \in Candidates(config, seed) : c \in CandidateId
  BY Bounded DEF IInv
<1>10. \A c \in Candidates(mem.config, seed) : run.completed[c] # NoResult
  <2> SUFFICES ASSUME NEW c \in Candidates(config, seed) PROVE Recorded(mem, seed, c) # NoResult
    BY <1>4, <1>8, <1>9
  <2>1. rows[c] # <<>> /\ Recorded(mem, seed, c) = rows[c][Len(rows[c])]
    BY <1>3 DEF IInv, RowsListed
  <2>2. rows[c] \in Seq(Result)
    BY <1>9 DEF IInv, TypeOK
  <2>3. rows[c][Len(rows[c])] \in Result
    BY <2>1, <2>2
  <2> QED
    BY <2>1, <2>3, RunsDiffer
<1>11. ASSUME seed \notin doubled' PROVE run.frontier = FrontierOf(new, seed)
  <2>1. \A c \in CandidateId : ~(Len(rows[c]) > 1)
    BY <1>3, <1>11
  <2>2. \A c \in CandidateId : Len(rows[c]) <= 1
    <3> SUFFICES ASSUME NEW c \in CandidateId PROVE Len(rows[c]) <= 1
      OBVIOUS
    <3>1. rows[c] \in Seq(Result)
      BY DEF IInv, TypeOK
    <3>2. Len(rows[c]) \in Nat
      BY <3>1
    <3> QED
      BY <2>1, <3>2
  <2>3. RowsOfSweep = {[id |-> c, vector |-> Recorded(mem, seed, c).vector] : c \in Candidates(config, seed)}
    BY <1>3, <2>2, RowsAreRecorded
  <2>4. RowsOfSweep = {[id |-> c, vector |-> Recorded(new, seed, c).vector] : c \in Candidates(new.config, seed)}
    BY <1>8, <1>9, <2>3
  <2>5. {x.id : x \in Undominated(RowsOfSweep, new.config.epsilon)} = FrontierOf(new, seed)
    BY <2>4, RankedFrontier
  <2> QED
    BY <1>1, <1>5, <1>8, <2>5
<1>12. PICK more : more = doubled'
  OBVIOUS
<1>13. doubled \subseteq more
  BY <1>3, <1>12
<1>14. Complete(mem) /\ Agrees(mem, doubled)
  BY DEF ResumeInv, FinishedRuns
<1>15. run.finished /\ seed \notin more => run.frontier = FrontierOf(new, seed)
  BY <1>11, <1>12
<1>16. Complete(new) /\ Agrees(new, more)
  BY <1>4, <1>5, <1>7, <1>10, <1>13, <1>14, <1>15, RunReplaced
<1> QED
  BY <1>6, <1>12, <1>16

LEMMA FinishedRunsStep == IInv /\ ResumeInv /\ Next => FinishedRuns'
<1> SUFFICES ASSUME IInv, ResumeInv, Next PROVE FinishedRuns'
  OBVIOUS
<1>1. Complete(disk) /\ Complete(mem) /\ Agrees(disk, doubled) /\ Agrees(mem, doubled)
  BY DEF ResumeInv, FinishedRuns
<1>2. doubled \subseteq doubled'
  BY DEF Next, Work, CreateFile, LoadFile, RefuseFile, EnsureRun, BeginSweep, Evaluate, SerialEnds,
     PoolEvaluates, TakeResult, TakeException, PoolEnds, FallBack, SweepFails, Replace, Rank, NextSeed,
     Report, EvaluationRaises, SaveFails, Crash, Edit, Start, Stop, outcome
<1>3. Agrees(disk, doubled') /\ Agrees(mem, doubled')
  BY <1>1, <1>2 DEF Agrees
<1>4. Complete(disk') /\ Agrees(disk', doubled')
  BY <1>1, <1>3, DiskStep
<1>5. Complete(mem') /\ Agrees(mem', doubled')
  <2>1. CASE mem' = mem \/ mem' = disk
    BY <1>1, <1>3, <2>1
  <2>2. CASE mem' = NoFile
    <3>1. \A s \in Seed : ~Finished(mem', s)
      BY <2>2 DEF Finished, IsFile
    <3> QED
      BY <3>1, NothingFinished
  <2>3. CASE CreateFile
    <3>1. \A s \in Seed : ~Finished(mem', s)
      BY <2>3 DEF CreateFile, Persist, Finished
    <3> QED
      BY <3>1, NothingFinished
  <2>4. CASE EnsureRun
    <3>1. CASE mem.runs[seed] = NoRun
      <4>1. mem' = WithRun(mem, seed, NewRun) /\ doubled' = doubled
        BY <2>4, <3>1 DEF EnsureRun, Persist, outcome
      <4>2. seed \in Seed /\ mem \in File
        BY <2>4, SeedType DEF IInv, MemoryLoaded, Doing, EnsureRun
      <4>3. ~NewRun.finished
        BY DEF NewRun
      <4>4. PICK new : new = mem'
        OBVIOUS
      <4>5. Complete(new) /\ Agrees(new, doubled)
        BY <1>1, <4>1, <4>2, <4>3, <4>4, NewRunType, RunReplaced
      <4> QED
        BY <4>1, <4>4, <4>5
    <3>2. CASE mem.runs[seed] # NoRun
      BY <2>1, <2>4, <3>2 DEF EnsureRun
    <3> QED
      BY <3>1, <3>2
  <2>5. ASSUME NEW c \in CandidateId, NEW r \in Result, NEW next, Completed(c, r, next), c \in pending,
               Evaluating, doubled' = doubled
        PROVE  Complete(mem') /\ Agrees(mem', doubled')
    <3>1. PICK run \in Run : mem' = WithRun(mem, seed, run) /\ run.finished = mem.runs[seed].finished
      BY <2>5, CompletedRun
    <3>2. ~run.finished
      BY <2>5, <3>1 DEF ResumeInv, Unfinished
    <3>3. seed \in Seed /\ mem \in File
      BY <2>5, SeedType DEF IInv, MemoryLoaded, Evaluating
    <3>4. PICK new : new = mem'
      OBVIOUS
    <3>5. Complete(new) /\ Agrees(new, doubled)
      BY <1>1, <3>1, <3>2, <3>3, <3>4, RunReplaced
    <3> QED
      BY <2>5, <3>4, <3>5
  <2>6. CASE Evaluate \/ \E c \in CandidateId : TakeResult(c)
    <3>1. Evaluating' /\ doubled' = doubled /\ ~BeginSweep
      BY <2>6 DEF Evaluate, TakeResult, BeginSweep, Evaluating, Doing, Completed, Persist, outcome
    <3>2. CASE UNCHANGED mem
      BY <2>1, <3>2
    <3>3. CASE mem' # mem
      <4>1. PICK c \in Candidates(config, seed), r \in Result, next \in {"serial", "pool"} :
              c \in pending /\ Completed(c, r, next) /\ Evaluating
        BY <3>1, <3>3, EvaluatingStep
      <4>2. c \in CandidateId
        BY <4>1, Bounded DEF IInv
      <4> QED
        BY <2>5, <3>1, <4>1, <4>2
    <3> QED
      BY <3>2, <3>3
  <2>7. Evaluate \/ (\E c \in CandidateId : TakeResult(c)) \/ EnsureRun \/ Rank \/ CreateFile
        \/ mem' = disk \/ mem' = mem \/ mem' = NoFile
    BY DEF Next, Work, LoadFile, RefuseFile, BeginSweep, SerialEnds, PoolEvaluates, TakeException, PoolEnds,
       FallBack, SweepFails, Replace, NextSeed, Report, EvaluationRaises, SaveFails, Crash, Edit, Start, Stop
  <2> QED
    BY <2>1, <2>2, <2>3, <2>4, <2>6, <2>7, RankFinishes
<1> QED
  BY <1>4, <1>5 DEF FinishedRuns

LEMMA ResumeInitially == Init => ResumeInv
<1> SUFFICES ASSUME Init PROVE ResumeInv
  OBVIOUS
<1>1. \A s \in Seed : ~Finished(NoFile, s)
  BY DEF Finished, IsFile
<1>2. FinishedRuns
  BY <1>1, NothingFinished DEF Init, FinishedRuns
<1>3. Unfinished /\ RowsOfThis
  BY DEF Init, Unfinished, RowsOfThis, Evaluating, Doing
<1> QED
  BY <1>2, <1>3 DEF ResumeInv

(* A run is finished by ranking, with the rows of what is recorded.          *)
LEMMA ResumeHolds == Spec => []ResumeInv
<1>1. IInv /\ ResumeInv /\ [Next]_vars => ResumeInv'
  <2> SUFFICES ASSUME IInv, ResumeInv, [Next]_vars PROVE ResumeInv'
    OBVIOUS
  <2>1. CASE Next
    BY <2>1, FinishedRunsStep, UnfinishedStep, RowsOfThisStep DEF ResumeInv
  <2>2. CASE UNCHANGED vars
    BY <2>2 DEF ResumeInv, FinishedRuns, Unfinished, RowsOfThis, Evaluating, Doing, seed,
       vars, files, args, sweep, outcome
  <2> QED
    BY <2>1, <2>2
<1> QED
  BY <1>1, ResumeInitially, InvariantHolds, PTL DEF Spec

(* The frontier of a finished run is that of its recorded results, whatever    *)
(* was stopped, repeated and restored on the way; except when the pool       *)
(* failed and left rows of its own behind.                                   *)
THEOREM ResumedFrontier == Spec => []ResumeAgrees
<1>1. ResumeInv => ResumeAgrees
  BY DEF ResumeInv, FinishedRuns, Agrees, FrontierOf, ResumeAgrees
<1> QED
  BY <1>1, ResumeHolds, PTL

-----------------------------------------------------------------------------
(* The best candidates: where no family is an objective, no result and no row  *)
(* differs from another in it.                                               *)
FamilyOf(file, cfg) ==
  cfg.family = "none" =>
    \A s \in Seed, c \in CandidateId :
      Recorded(file, s, c) # NoResult => Recorded(file, s, c).vector["family"] = 0
FamilyOfFutures(fs, cfg) ==
  cfg.family = "none" =>
    \A c \in CandidateId : fs[c].state = "done" => fs[c].result.vector["family"] = 0
FamilyOfRows(rs, cfg) ==
  cfg.family = "none" =>
    \A c \in CandidateId : \A i \in DOMAIN rs[c] : rs[c][i].vector["family"] = 0
FamilyInv ==
  /\ disk \in File => FamilyOf(disk, disk.config)
  /\ FamilyOf(mem, config) /\ FamilyOfFutures(futures, config)
  /\ Evaluating => FamilyOfRows(rows, config)

(* A process has one configuration; without a process nothing is in memory.   *)
LEMMA ConfigStep ==
  ASSUME IInv, MixInv, Next
  PROVE  \/ config' = config
         \/ mem' = NoFile /\ futures' = NoFutures /\ disk' = disk /\ ~Evaluating'
<1>1. CASE \E cfg \in Config, n \in {1, 2} : Start(cfg, n)
  <2>1. stage = "down" /\ stage' = "create" /\ UNCHANGED <<mem, futures, disk>>
    BY <1>1 DEF Start, GoTo, files, sweep
  <2>2. mem = NoFile /\ futures = NoFutures
    BY <2>1 DEF MixInv, FirstStart, IInv, PendingKnown, Doing
  <2> QED
    BY <2>1, <2>2 DEF Evaluating, Doing
<1>2. CASE Stop
  <2>1. stage' = "down" /\ mem' = NoFile /\ futures' = NoFutures
    BY <1>2 DEF Stop
  <2>2. disk' = disk
    <3>1. ~Replace
      BY <1>2 DEF Stop, Replace, IInv, SavesReturn
    <3> QED
      BY <3>1, DiskStep
  <2> QED
    BY <2>1, <2>2 DEF Evaluating, Doing
<1>3. CASE UNCHANGED config
  BY <1>3
<1>4. (\E cfg \in Config, n \in {1, 2} : Start(cfg, n)) \/ Stop \/ UNCHANGED config
  BY DEF Next, Work, CreateFile, LoadFile, RefuseFile, EnsureRun, BeginSweep, Evaluate, SerialEnds,
     PoolEvaluates, TakeResult, TakeException, PoolEnds, FallBack, SweepFails, Replace, Rank, NextSeed,
     Report, EvaluationRaises, SaveFails, Crash, Edit, args
<1> QED
  BY <1>1, <1>2, <1>3, <1>4

LEMMA FamilyInitially == Init => FamilyInv
<1> SUFFICES ASSUME Init PROVE FamilyInv
  OBVIOUS
<1>1. disk = NoFile /\ mem = NoFile /\ futures = NoFutures /\ stage = "down"
  BY DEF Init
<1> QED
  BY <1>1, RunsDiffer DEF FamilyInv, FamilyOf, FamilyOfFutures, Recorded, IsFile, NoFutures, None, Evaluating, Doing

LEMMA FamilyStep == IInv /\ MixInv /\ FamilyInv /\ Next => FamilyInv'
<1> SUFFICES ASSUME IInv, MixInv, FamilyInv, Next PROVE FamilyInv'
  OBVIOUS
<1>1. /\ disk \in File => FamilyOf(disk, disk.config)
      /\ FamilyOf(mem, config) /\ FamilyOfFutures(futures, config)
      /\ Evaluating => FamilyOfRows(rows, config)
  BY DEF FamilyInv
<1>2. disk' \in File => FamilyOf(disk', disk'.config)
  <2>1. CASE disk' = disk
    BY <1>1, <2>1
  <2>2. CASE disk' = mem /\ Doing \notin {"down", "create"}
    <3>1. mem.config = config
      BY <2>2 DEF IInv, MemoryLoaded
    <3> QED
      BY <1>1, <2>2, <3>1
  <2> QED
    BY <2>1, <2>2, DiskStep
<1>3. CASE mem' = NoFile /\ futures' = NoFutures /\ disk' = disk /\ ~Evaluating'
  <2>1. FamilyOf(mem', config') /\ FamilyOfFutures(futures', config')
    BY <1>3 DEF FamilyOf, FamilyOfFutures, Recorded, IsFile, NoFutures, None
  <2> QED
    BY <1>2, <1>3, <2>1 DEF FamilyInv
<1>4. CASE config' = config
  <2> SUFFICES ASSUME config.family = "none"
               PROVE  /\ FamilyOf(mem', config) /\ FamilyOfFutures(futures', config)
                      /\ Evaluating' => FamilyOfRows(rows', config)
    BY <1>2, <1>4 DEF FamilyInv, FamilyOf, FamilyOfFutures, FamilyOfRows
  <2>1. seed \in Seed /\ config \in Config /\ policy \in Policy
    BY SeedType DEF IInv, TypeOK
  <2>2. \A c \in Candidates(config, seed) : \A r \in Evaluations(policy, config, seed, c) : r.vector["family"] = 0
    BY <2>1, EvaluationKnown
  <2>3. FamilyOfFutures(futures', config)
    <3>1. CASE futures' = futures
      BY <1>1, <3>1
    <3>2. CASE \A c \in CandidateId : futures'[c].state = "done" =>
                 \/ futures'[c] = futures[c]
                 \/ /\ c \in Candidates(config, seed)
                    /\ futures'[c].result \in Evaluations(policy, config, seed, c)
      BY <1>1, <2>2, <3>2 DEF FamilyOfFutures
    <3> QED
      BY <3>1, <3>2, FuturesStep
  <2>4. FamilyOf(mem', config)
    <3>1. CASE mem' = mem
      BY <1>1, <3>1
    <3>2. CASE mem' = NoFile
      BY <3>2 DEF FamilyOf, Recorded, IsFile
    <3>3. CASE LoadFile
      BY <1>1, <3>3 DEF LoadFile
    <3>4. CASE \/ \A s \in Seed, c \in CandidateId : Recorded(mem', s, c) = NoResult
               \/ \A s \in Seed, c \in CandidateId : Recorded(mem', s, c) = Recorded(mem, s, c)
      BY <1>1, <3>4 DEF FamilyOf
    <3>5. ASSUME NEW b \in CandidateId, NEW r \in Result,
                 \/ stage = "pool" /\ futures[b].state = "done" /\ r = futures[b].result
                 \/ /\ stage = "serial" /\ b \in Candidates(config, seed)
                    /\ r \in Evaluations(policy, config, seed, b),
                 \A s \in Seed, c \in CandidateId :
                   Recorded(mem', s, c) = IF s = seed /\ c = b THEN r ELSE Recorded(mem, s, c)
          PROVE  FamilyOf(mem', config)
      <4>1. r.vector["family"] = 0
        BY <1>1, <2>2, <3>5 DEF FamilyOfFutures
      <4> QED
        BY <1>1, <3>5, <4>1 DEF FamilyOf
    <3> QED
      BY <3>1, <3>2, <3>3, <3>4, <3>5, MemoryStep
  <2>5. ASSUME Evaluating' PROVE FamilyOfRows(rows', config)
    <3>1. CASE BeginSweep
      <4>1. /\ mem.runs[seed] \in Run /\ mem \in File
            /\ rows' = [c \in CandidateId |-> IF c \in Restored(mem.runs[seed].completed)
                                              THEN <<mem.runs[seed].completed[c]>> ELSE <<>>]
        BY <3>1 DEF BeginSweep, IInv, MemoryLoaded, Doing
      <4>2. \A c \in CandidateId : c \in Restored(mem.runs[seed].completed) =>
              mem.runs[seed].completed[c].vector["family"] = 0
        BY <1>1, <2>1, <4>1, RecordedInRun, RunsDiffer DEF Restored, FamilyOf
      <4>3. ASSUME NEW c \in CandidateId, NEW i \in DOMAIN rows'[c] PROVE rows'[c][i].vector["family"] = 0
        <5>1. CASE c \in Restored(mem.runs[seed].completed)
          BY <4>1, <4>2, <4>3, <5>1
        <5>2. CASE c \notin Restored(mem.runs[seed].completed)
          BY <4>1, <4>3, <5>2
        <5> QED
          BY <5>1, <5>2
      <4> QED
        BY <4>3 DEF FamilyOfRows
    <3>2. CASE Evaluating /\ UNCHANGED <<mem, pending, config, policy, index, rows>>
      BY <1>1, <3>2
    <3>3. ASSUME Evaluating, NEW b \in Candidates(config, seed), NEW r \in Result, NEW next \in {"serial", "pool"},
                 Completed(b, r, next), r.vector["family"] = 0
          PROVE  FamilyOfRows(rows', config)
      <4>1. b \in CandidateId /\ rows' = [rows EXCEPT ![b] = Append(rows[b], r)] /\ rows \in [CandidateId -> Seq(Result)]
        BY <3>3, Bounded DEF Completed, IInv, TypeOK
      <4>2. \A c \in CandidateId : \A i \in DOMAIN rows[c] : rows[c][i].vector["family"] = 0
        BY <1>1, <3>3 DEF FamilyOfRows
      <4>3. ASSUME NEW c \in CandidateId, NEW i \in DOMAIN rows'[c] PROVE rows'[c][i].vector["family"] = 0
        <5>1. CASE c # b
          BY <4>1, <4>2, <4>3, <5>1
        <5>2. CASE c = b
          <6>1. rows'[c] = Append(rows[b], r) /\ rows[b] \in Seq(Result)
            BY <4>1, <5>2
          <6>2. i \in 1..Len(rows[b]) + 1
            BY <4>3, <6>1
          <6>3. rows'[c][i] = IF i = Len(rows[b]) + 1 THEN r ELSE rows[b][i]
            BY <6>1, <6>2
          <6> QED
            BY <3>3, <4>1, <4>2, <6>1, <6>2, <6>3
        <5> QED
          BY <5>1, <5>2
      <4> QED
        BY <4>3 DEF FamilyOfRows
    <3>4. ASSUME Evaluating, NEW b \in Candidates(config, seed), NEW r \in Result, NEW next \in {"serial", "pool"},
                 Completed(b, r, next), 
                 \/ r \in Evaluations(policy, config, seed, b)
                 \/ futures[b].state = "done" /\ r = futures[b].result
          PROVE  r.vector["family"] = 0
      BY <1>1, <2>2, <3>4, Bounded DEF FamilyOfFutures, IInv
    <3> QED
      BY <2>5, <3>1, <3>2, <3>3, <3>4, EvaluatingStep
  <2> QED
    BY <2>3, <2>4, <2>5
<1> QED
  BY <1>3, <1>4, ConfigStep

LEMMA FamilyHolds == Spec => []FamilyInv
<1>1. IInv /\ MixInv /\ FamilyInv /\ [Next]_vars => FamilyInv'
  <2> SUFFICES ASSUME IInv, MixInv, FamilyInv, [Next]_vars PROVE FamilyInv'
    OBVIOUS
  <2>1. CASE Next
    BY <2>1, FamilyStep
  <2>2. CASE UNCHANGED vars
    BY <2>2 DEF FamilyInv, Evaluating, Doing, vars, files, args, sweep
  <2> QED
    BY <2>1, <2>2
<1> QED
  BY <1>1, FamilyInitially, InvariantHolds, MixHolds, PTL DEF Spec

(* What is ranked: finitely many rows, at least that of the baseline.         *)
LEMMA RankedRows ==
  ASSUME IInv, FamilyInv, stage = "rank"
  PROVE  Rows(RowsOfSweep) /\ FamilyIdle(RowsOfSweep, config.family)
<1>1. Doing = "rank" /\ Evaluating
  BY DEF Doing, Evaluating
<1>2. seed \in Seed /\ config \in Config /\ rows \in [CandidateId -> Seq(Result)]
  BY SeedType DEF IInv, TypeOK
<1>3. IsFiniteSet(CandidateId)
  BY <1>2, CandidatesNumbered
<1>4. \A x \in RowsOfSweep : \E c \in CandidateId : \E i \in DOMAIN rows[c] :
        x = [id |-> c, vector |-> rows[c][i].vector]
  BY DEF RowsOfSweep
<1>5. \A c \in CandidateId : \A i \in DOMAIN rows[c] : rows[c][i] \in Result /\ (i = 1 \/ i = 2)
  <2> SUFFICES ASSUME NEW c \in CandidateId, NEW i \in DOMAIN rows[c]
               PROVE  rows[c][i] \in Result /\ (i = 1 \/ i = 2)
    OBVIOUS
  <2>1. rows[c] \in Seq(Result)
    BY <1>2
  <2>2. Len(rows[c]) \in Nat /\ (Len(rows[c]) <= 1 \/ Len(rows[c]) = 2)
    BY <2>1 DEF IInv, RowsOnce
  <2>3. i \in 1..Len(rows[c]) /\ rows[c][i] \in Result
    BY <2>1
  <2> QED
    BY <2>2, <2>3
<1>6. IsFiniteSet(RowsOfSweep)
  <2> DEFINE Nth(i) == [c \in CandidateId |-> [id |-> c, vector |-> rows[c][i].vector]]
             All(i) == {Nth(i)[c] : c \in CandidateId}
  <2>1. ASSUME NEW i PROVE IsFiniteSet(All(i))
    <3>1. PICK T : T = All(i)
      OBVIOUS
    <3>2. PICK f : f = Nth(i)
      OBVIOUS
    <3>3. f \in [CandidateId -> T] /\ T = {f[c] : c \in CandidateId}
      BY <3>1, <3>2
    <3> QED
      BY <1>3, <3>1, <3>3, ImageFinite
  <2>2. RowsOfSweep \in SUBSET (All(1) \cup All(2))
    <3> SUFFICES ASSUME NEW x \in RowsOfSweep PROVE x \in All(1) \cup All(2)
      OBVIOUS
    <3>1. PICK c \in CandidateId : \E i \in DOMAIN rows[c] : x = [id |-> c, vector |-> rows[c][i].vector]
      BY <1>4
    <3>2. PICK i \in DOMAIN rows[c] : x = [id |-> c, vector |-> rows[c][i].vector]
      BY <3>1
    <3>3. x = Nth(i)[c] /\ (i = 1 \/ i = 2)
      BY <1>5, <3>2
    <3> QED
      BY <3>3
  <2> HIDE DEF All
  <2>3. IsFiniteSet(All(1) \cup All(2))
    BY <2>1, FS_Union
  <2> QED
    BY <2>2, <2>3, FS_Subset
<1>7. RowsOfSweep # {}
  <2>1. 0 \in Candidates(config, seed) /\ 0 \in CandidateId
    <3>1. PICK p \in Policy : TRUE
      BY ConfigAssumption
    <3>2. Len(Points[config][seed]) \in Nat
      BY <1>2, <3>1, PointsKnown
    <3>3. 0 \in Candidates(config, seed)
      BY <3>2 DEF Candidates
    <3> QED
      BY <1>2, <3>3, CandidatesNumbered
  <2>2. rows[0] # <<>> /\ rows[0] \in Seq(Result)
    BY <1>1, <1>2, <2>1 DEF IInv, RowsListed
  <2>3. 1 \in DOMAIN rows[0]
    BY <2>2
  <2>4. PICK x : x = [id |-> 0, vector |-> rows[0][1].vector]
    OBVIOUS
  <2>5. x \in RowsOfSweep
    BY <2>1, <2>3, <2>4 DEF RowsOfSweep
  <2> QED
    BY <2>5
<1>8. \A x \in RowsOfSweep : x.vector \in [Objective -> Int]
  BY <1>4, <1>5 DEF Result
<1>9. FamilyIdle(RowsOfSweep, config.family)
  <2> SUFFICES ASSUME config.family = "none", NEW x \in RowsOfSweep PROVE x.vector["family"] = 0
    BY DEF FamilyIdle
  <2> QED
    BY <1>1, <1>4 DEF FamilyInv, FamilyOfRows
<1> QED
  BY <1>6, <1>7, <1>8, <1>9 DEF Rows

(* What the report holds of a sweep is on its frontier, in this process and in *)
(* every run it has been through.                                            *)
BestKept ==
  \A s \in Seed : best[s] # {} =>
    /\ Doing \notin {"down", "create"} /\ mem.runs[s] \in Run
    /\ config.epsilon = 0 => best[s] \subseteq mem.runs[s].frontier
RankedBefore ==
  /\ Doing \in {"down", "create"} => index = 1
  /\ Doing = "report" => index = Len(RunSeeds)
  /\ Doing \notin {"down", "create"} =>
       \A i \in 1..Len(RunSeeds) :
         i < index \/ (i = index /\ Doing \in {"next", "report"}) => best[RunSeeds[i]] # {}
BestInv == BestKept /\ RankedBefore

LEMMA RankBest ==
  ASSUME IInv, FamilyInv, BestInv, Rank
  PROVE  BestInv'
<1>1. /\ stage = "rank" /\ Doing = "rank"
      /\ best' = [best EXCEPT ![seed] = Best(RowsOfSweep, config.family)]
      /\ stage' = "save" /\ after' = IF index < Len(RunSeeds) THEN "next" ELSE "report"
      /\ config' = config /\ index' = index
  BY DEF Rank, Persist, Doing, args
<1>2. PICK frontier \in SUBSET CandidateId :
        /\ frontier = {x.id : x \in Undominated(RowsOfSweep, config.epsilon)}
        /\ mem' = WithRun(mem, seed, [mem.runs[seed] EXCEPT !.finished = TRUE, !.frontier = frontier])
  BY RankedIds DEF Rank, Persist
<1>3. PICK run : run = [mem.runs[seed] EXCEPT !.finished = TRUE, !.frontier = frontier]
  OBVIOUS
<1>4. seed \in Seed /\ mem \in File /\ mem.runs[seed] \in Run /\ best \in [Seed -> SUBSET CandidateId]
  BY <1>1, SeedType DEF IInv, MemoryLoaded, TypeOK
<1>5. run \in Run /\ run.frontier = frontier
  BY <1>3, <1>4 DEF Run
<1>6. \A s \in Seed : mem'.runs[s] = IF s = seed THEN run ELSE mem.runs[s]
  BY <1>2, <1>3, <1>4 DEF WithRun, File
<1>7. PICK b : b = Best(RowsOfSweep, config.family)
  OBVIOUS
<1>8. b # {} /\ (config.epsilon = 0 => b \subseteq frontier)
  BY <1>1, <1>2, <1>7, RankedRows, BestUndominated
<1>9. \A s \in Seed : best'[s] = IF s = seed THEN b ELSE best[s]
  BY <1>1, <1>4, <1>7
<1>10. Doing' = after' /\ Doing' \in {"next", "report"} /\ (Doing' = "report" => ~(index < Len(RunSeeds)))
  BY <1>1 DEF Doing
<1>11. BestKept'
  <2> SUFFICES ASSUME NEW s \in Seed, best'[s] # {}
               PROVE  mem'.runs[s] \in Run /\ (config.epsilon = 0 => best'[s] \subseteq mem'.runs[s].frontier)
    BY <1>1, <1>10 DEF BestKept
  <2>1. CASE s = seed
    BY <1>5, <1>6, <1>8, <1>9, <2>1
  <2>2. CASE s # seed
    BY <1>6, <1>9, <2>2 DEF BestInv, BestKept
  <2> QED
    BY <2>1, <2>2
<1>12. RankedBefore'
  <2>1. RunSeeds \in Seq(Seed) /\ index \in 1..Len(RunSeeds)
    BY RunSeedsKnown DEF IInv, TypeOK
  <2>2. Len(RunSeeds) \in Nat /\ \A i \in 1..Len(RunSeeds) : RunSeeds[i] \in Seed
    BY <2>1
  <2>3. Doing' = "report" => index = Len(RunSeeds)
    BY <1>10, <2>1, <2>2
  <2>4. ASSUME NEW i \in 1..Len(RunSeeds), i < index \/ i = index PROVE best'[RunSeeds[i]] # {}
    <3>1. i < index => best[RunSeeds[i]] # {}
      BY <1>1 DEF BestInv, RankedBefore
    <3>2. i = index => RunSeeds[i] = seed
      BY DEF seed
    <3> QED
      BY <1>8, <1>9, <2>2, <2>4, <3>1, <3>2
  <2> QED
    BY <1>1, <1>10, <2>3, <2>4 DEF RankedBefore
<1> QED
  BY <1>11, <1>12 DEF BestInv

(* The other steps: they end the process, or leave the best candidates and     *)
(* frontiers alone.                                                          *)
LEMMA OtherSteps ==
  ASSUME IInv, Next, ~Rank
  PROVE  \/ stage' = "down" /\ index' = 1 /\ best' = [s \in Seed |-> {}]
         \/ /\ best' = best
            /\ Doing \in {"down", "create"} =>
                 index' = index /\ Doing' \in {"down", "create", "restore"}
            /\ Doing \notin {"down", "create"} =>
                 /\ config' = config /\ Doing' \notin {"down", "create"}
                 /\ Doing' = "report" => Doing = "report"
                 /\ \/ index' = index /\ (Doing' = "next" => Doing = "next")
                    \/ index' = index + 1 /\ Doing = "next" /\ Doing' = "restore"
<1> USE DEF Doing
<1>1. CASE Stop
  BY <1>1 DEF Stop
<1>2. CASE \E cfg \in Config, n \in {1, 2} : Start(cfg, n)
  BY <1>2 DEF Start, GoTo, outcome
<1>3. CASE CreateFile \/ LoadFile \/ EnsureRun
  BY <1>3 DEF CreateFile, LoadFile, EnsureRun, Persist, GoTo, args, outcome
<1>4. CASE BeginSweep
  BY <1>4 DEF BeginSweep, GoTo, args, outcome
<1>5. CASE Evaluate
  BY <1>5 DEF Evaluate, Completed, Persist, args, outcome
<1>6. CASE \E c \in CandidateId : TakeResult(c)
  BY <1>6 DEF TakeResult, Completed, Persist, args, outcome
<1>7. CASE \E c \in CandidateId : TakeException(c)
  BY <1>7 DEF TakeException, GoTo, args, outcome
<1>8. CASE \E c \in CandidateId : PoolEvaluates(c)
  BY <1>8 DEF PoolEvaluates, args, outcome
<1>9. CASE SerialEnds \/ PoolEnds \/ FallBack \/ Edit
  BY <1>9 DEF SerialEnds, PoolEnds, FallBack, Edit, GoTo, args, outcome
<1>10. CASE Replace
  BY <1>10 DEF Replace, args, outcome, IInv, SavesReturn
<1>11. CASE NextSeed
  BY <1>11 DEF NextSeed, GoTo, args, outcome
<1>12. CASE SaveFails
  BY <1>1, <1>12 DEF SaveFails, GoTo, args, outcome
<1>13. Stop \/ (\E cfg \in Config, n \in {1, 2} : Start(cfg, n)) \/ CreateFile \/ LoadFile \/ EnsureRun
       \/ BeginSweep \/ Evaluate \/ (\E c \in CandidateId : TakeResult(c))
       \/ (\E c \in CandidateId : TakeException(c)) \/ (\E c \in CandidateId : PoolEvaluates(c))
       \/ SerialEnds \/ PoolEnds \/ FallBack \/ Edit \/ Replace \/ NextSeed \/ SaveFails
  BY DEF Next, Work, RefuseFile, SweepFails, Report, EvaluationRaises, Crash
<1> QED
  BY <1>1, <1>2, <1>3, <1>4, <1>5, <1>6, <1>7, <1>8, <1>9, <1>10, <1>11, <1>12, <1>13

LEMMA FrontiersStay ==
  ASSUME IInv, Next, ~Rank, Doing \notin {"down", "create"}, NEW s \in Seed, mem.runs[s] \in Run
  PROVE  stage' = "down" \/ (mem'.runs[s] \in Run /\ mem'.runs[s].frontier = mem.runs[s].frontier)
<1>1. seed \in Seed /\ mem \in File
  BY SeedType DEF IInv, MemoryLoaded
<1>2. ASSUME NEW run \in Run, mem' = WithRun(mem, seed, run),
             mem.runs[seed] \in Run => run.frontier = mem.runs[seed].frontier
      PROVE  mem'.runs[s] \in Run /\ mem'.runs[s].frontier = mem.runs[s].frontier
  <2>1. \A t \in Seed : mem'.runs[t] = IF t = seed THEN run ELSE mem.runs[t]
    BY <1>1, <1>2 DEF WithRun, File
  <2> QED
    BY <1>2, <2>1
<1>3. CASE Evaluate \/ \E c \in CandidateId : TakeResult(c)
  <2>1. CASE mem' = mem
    BY <2>1
  <2>2. CASE mem' # mem
    <3>1. Evaluating' /\ ~BeginSweep
      BY <1>3 DEF Evaluate, TakeResult, BeginSweep, Evaluating, Doing, Completed, Persist
    <3>2. PICK c \in Candidates(config, seed), r \in Result, next \in {"serial", "pool"} :
            Completed(c, r, next) /\ Evaluating
      BY <2>2, <3>1, EvaluatingStep
    <3>3. PICK run \in Run : mem' = WithRun(mem, seed, run) /\ run.frontier = mem.runs[seed].frontier
      BY <3>2, CompletedRun, Bounded DEF IInv
    <3> QED
      BY <1>2, <3>3
  <2> QED
    BY <2>1, <2>2
<1>4. CASE EnsureRun
  <2>1. CASE mem.runs[seed] = NoRun
    <3>1. mem' = WithRun(mem, seed, NewRun)
      BY <1>4, <2>1 DEF EnsureRun, Persist
    <3> QED
      BY <1>2, <2>1, <3>1, NewRunType, RunsDiffer
  <2>2. CASE mem.runs[seed] # NoRun
    BY <1>4, <2>2 DEF EnsureRun
  <2> QED
    BY <2>1, <2>2
<1>5. Evaluate \/ (\E c \in CandidateId : TakeResult(c)) \/ EnsureRun \/ mem' = mem \/ stage' = "down"
  BY DEF Next, Work, CreateFile, LoadFile, RefuseFile, BeginSweep, SerialEnds, PoolEvaluates, TakeException,
     PoolEnds, FallBack, SweepFails, Replace, NextSeed, Report, EvaluationRaises, SaveFails, Crash, Edit,
     Start, Stop, Doing
<1> QED
  BY <1>3, <1>4, <1>5

LEMMA OthersKeepBest ==
  ASSUME IInv, BestInv, Next, ~Rank
  PROVE  BestInv'
<1>1. index \in 1..Len(RunSeeds) /\ Len(RunSeeds) \in Nat /\ best \in [Seed -> SUBSET CandidateId]
      /\ RunSeeds \in Seq(Seed)
  BY RunSeedsKnown DEF IInv, TypeOK
<1>2. CASE stage' = "down" /\ index' = 1 /\ best' = [s \in Seed |-> {}]
  BY <1>2 DEF BestInv, BestKept, RankedBefore, Doing
<1>3. CASE best' = best /\ Doing \in {"down", "create"} /\ index' = index
           /\ Doing' \in {"down", "create", "restore"}
  <2>1. index' = 1 /\ \A s \in Seed : best'[s] = {}
    BY <1>3 DEF BestInv, BestKept, RankedBefore
  <2> QED
    BY <1>1, <1>3, <2>1 DEF BestInv, BestKept, RankedBefore
<1>4. CASE /\ best' = best /\ Doing \notin {"down", "create"}
           /\ config' = config /\ Doing' \notin {"down", "create"}
           /\ Doing' = "report" => Doing = "report"
           /\ \/ index' = index /\ (Doing' = "next" => Doing = "next")
              \/ index' = index + 1 /\ Doing = "next" /\ Doing' = "restore"
  <2>1. BestKept'
    <3> SUFFICES ASSUME NEW s \in Seed, best[s] # {}
                 PROVE  mem'.runs[s] \in Run /\ (config.epsilon = 0 => best[s] \subseteq mem'.runs[s].frontier)
      BY <1>4 DEF BestKept
    <3>1. mem.runs[s] \in Run /\ (config.epsilon = 0 => best[s] \subseteq mem.runs[s].frontier)
      BY DEF BestInv, BestKept
    <3>2. stage' # "down"
      BY <1>4 DEF Doing
    <3> QED
      BY <1>4, <3>1, <3>2, FrontiersStay
  <2>2. \A i \in 1..Len(RunSeeds) :
          i < index' \/ (i = index' /\ Doing' \in {"next", "report"}) => best'[RunSeeds[i]] # {}
    <3> SUFFICES ASSUME NEW i \in 1..Len(RunSeeds), i < index' \/ (i = index' /\ Doing' \in {"next", "report"})
                 PROVE  best[RunSeeds[i]] # {}
      BY <1>4
    <3>1. i < index \/ (i = index /\ Doing \in {"next", "report"})
      BY <1>1, <1>4
    <3> QED
      BY <1>4, <3>1 DEF BestInv, RankedBefore
  <2>3. Doing' = "report" => index' = Len(RunSeeds)
    BY <1>4 DEF BestInv, RankedBefore
  <2> QED
    BY <1>4, <2>1, <2>2, <2>3 DEF BestInv, RankedBefore
<1> QED
  BY <1>2, <1>3, <1>4, OtherSteps

LEMMA BestHolds == Spec => []BestInv
<1>1. Init => BestInv
  BY DEF Init, BestInv, BestKept, RankedBefore, Doing
<1>2. IInv /\ FamilyInv /\ BestInv /\ [Next]_vars => BestInv'
  <2> SUFFICES ASSUME IInv, FamilyInv, BestInv, [Next]_vars PROVE BestInv'
    OBVIOUS
  <2>1. CASE Next
    BY <2>1, RankBest, OthersKeepBest
  <2>2. CASE UNCHANGED vars
    BY <2>2 DEF BestInv, BestKept, RankedBefore, Doing, vars, args, outcome
  <2> QED
    BY <2>1, <2>2
<1> QED
  BY <1>1, <1>2, InvariantHolds, FamilyHolds, PTL DEF Spec

(* Without tolerance the candidate the report puts first is on the frontier,    *)
(* which is not empty, for every seed and however the sweep came to its end: *)
(* dominating means more utility (BestUndominated), and a seed is ranked     *)
(* before the process goes on to the next one.                               *)
THEOREM BestReported == Spec => []BestOnFrontier
<1>1. IInv /\ BestInv => BestOnFrontier
  <2> SUFFICES ASSUME IInv, BestInv, stage = "report", config.epsilon = 0, NEW s \in Seed
               PROVE  best[s] # {} /\ best[s] \subseteq mem.runs[s].frontier
    BY DEF BestOnFrontier
  <2>1. Doing = "report"
    BY DEF Doing
  <2>2. PICK i \in 1..Len(RunSeeds) : RunSeeds[i] = s
    BY RunSeedsKnown
  <2>3. index = Len(RunSeeds) /\ Len(RunSeeds) \in Nat
    BY <2>1, RunSeedsKnown DEF BestInv, RankedBefore
  <2>4. best[s] # {}
    BY <2>1, <2>2, <2>3 DEF BestInv, RankedBefore
  <2> QED
    BY <2>4 DEF BestInv, BestKept
<1> QED
  BY <1>1, InvariantHolds, BestHolds, PTL

=============================================================================

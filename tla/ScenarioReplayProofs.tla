------------------------ MODULE ScenarioReplayProofs ------------------------
(***************************************************************************)
(* Theorems about ScenarioReplay, for all jobs, threads and bounds: what a    *)
(* replay is measured on is its own scenario, and no scenario is missing      *)
(* from a report.                                                           *)
(***************************************************************************)
EXTENDS ScenarioReplay, TLAPS

-----------------------------------------------------------------------------
(* What the steps of a replay know of its locals c, of the rows R of all        *)
(* databases and of the number s of jobs started.                           *)
Active(c) == c.stage \notin {"idle", "done", "failed", "list", "clear", "begin"}
DbOf(c) == IF c.job.kind = "candidate" THEN c.number ELSE 0
ScenarioOf(c) == ScenarioAt(c.job, c.at)
RowOf(c, n) == [db |-> DbOf(c), agent |-> ScenarioOf(c).agent,
                job |-> c.number, at |-> c.at, n |-> n]
StoredOf(c, R) == {m \in R : m.db = DbOf(c) /\ m.agent = ScenarioOf(c).agent}

(* Shape of the locals at each stage. *)
Shaped(c, s) ==
  /\ c.stage # "idle" =>
       c.job \in Job /\ c.number \in 1..s /\ c.at \in 1..Replays(c.job)
  /\ Active(c) => ScenarioOf(c).events # NoEvents
  /\ c.stage = "write" =>
       c.todo # <<>> /\ \A k \in DOMAIN c.todo : c.todo[k] \in DOMAIN ScenarioOf(c).events
  /\ c.stage = "post" => c.posts > 0
  /\ c.stage \in {"list", "clear", "begin"} => c.seen = {}

(* The results so far are those of the scenarios before the current one. *)
Reported(c) ==
  /\ c.stage \in {"idle", "list", "clear"} => c.results = <<>>
  /\ c.stage \notin {"idle", "list", "clear", "done"} => Len(c.results) = c.at - 1
  /\ c.stage = "done" => \/ \E i \in DOMAIN c.results : c.results[i].status = "present"
                         \/ Len(c.results) = Replays(c.job)
  /\ \A i \in DOMAIN c.results :
       /\ c.results[i].at = i
       /\ c.results[i].status = "skipped" =>
            c.job.kind = "candidate" /\ c.results[i].cause = "refused"

(* What a replay has read is its own, as far as r says nobody interfered. *)
ViewOK(c, r, view) ==
  /\ ~r.cleared => Own(c, r) \subseteq view
  /\ r.foreign = {} /\ Unrepeated(c.job, r.at) => {m \in view : m.n > 0} \subseteq Own(c, r)

ResultOK(c, r) ==
  r.status = "done" =>
    /\ c.job.kind = "candidate" => r.foreign = {}
    /\ \A view \in r.seen : ViewOK(c, r, view)

Measured(c) ==
  /\ Active(c) /\ c.job.kind = "candidate" => c.foreign = {}
  /\ \A view \in c.seen : ViewOK(c, c, view)
  /\ \A i \in DOMAIN c.results : ResultOK(c, c.results[i])

(* The tables hold what the replay wrote, unless they were cleared, and what   *)
(* is not its own is known to be foreign.                                    *)
Kept(c, R) ==
  Active(c) /\ ~c.cleared =>
    \A n \in DOMAIN ScenarioOf(c).events :
      RowOf(c, n) \in R \/ (c.stage = "write" /\ \E k \in DOMAIN c.todo : c.todo[k] = n)
Accounted(c, R) ==
  Active(c) => \A m \in StoredOf(c, R) : m.job \in c.foreign \cup {c.number}
Planned(c, R) ==
  c.stage # "idle" => \A m \in R : m.job = c.number =>
    /\ c.stage \notin {"list", "clear"}
    /\ m.at <= c.at /\ m.agent = ScenarioAt(c.job, m.at).agent
    /\ m.n > 0 => m.n \in DOMAIN ScenarioAt(c.job, m.at).events
Grounded(c, R) == Kept(c, R) /\ Accounted(c, R) /\ Planned(c, R)

(* Numbers are given once; a database other than 0 is its candidate's alone. *)
RowsSound(R, s) == \A m \in R : m.job \in 1..s /\ (m.db # 0 => m.db = m.job)

NumbersDiffer ==
  \A t, u \in Thread : t # u /\ call[t].stage # "idle" /\ call[u].stage # "idle" =>
    call[t].number # call[u].number

CallInv(c, R, s) == Shaped(c, s) /\ Reported(c) /\ Measured(c) /\ Grounded(c, R)

ReplayInv ==
  /\ TypeOK /\ RowsSound(rows, started) /\ NumbersDiffer
  /\ \A t \in Thread : CallInv(call[t], rows, started)

-----------------------------------------------------------------------------
(* The scenarios of a job. *)
LEMMA JobFacts ==
  ASSUME NEW job \in Job
  PROVE  /\ Len(job.plan) \in Nat /\ Len(job.variants) \in Nat
         /\ Replays(job) \in Nat /\ 1 \in 1..Replays(job)
         /\ DOMAIN job.plan = 1..Len(job.plan)
         /\ DOMAIN job.variants = 1..Len(job.variants)
         /\ 1..Len(job.plan) \subseteq 1..Replays(job)
<1>1. job.plan \in Seq(Scenario) /\ job.variants \in Seq(VariantRequest) /\ Len(job.plan) > 0
  BY JobsAssumption
<1>2. Len(job.plan) \in Nat /\ Len(job.variants) \in Nat
      /\ DOMAIN job.plan = 1..Len(job.plan) /\ DOMAIN job.variants = 1..Len(job.variants)
  BY <1>1
<1>3. ASSUME NEW p \in Nat, NEW v \in Nat, p > 0
      PROVE  p + v \in Nat /\ 1 \in 1..(p + v) /\ 1..p \subseteq 1..(p + v)
  BY <1>3
<1> QED
  BY <1>1, <1>2, <1>3 DEF Replays

LEMMA IndexNumbers == \A i \in Index : i \in Nat /\ i >= 1
BY JobFacts DEF Index

LEMMA PlannedScenario ==
  ASSUME NEW job \in Job, NEW i \in 1..Len(job.plan)
  PROVE  ScenarioAt(job, i) = job.plan[i] /\ job.plan[i] \in Scenario
<1>1. i \in 1..Replays(job) /\ i <= Len(job.plan) /\ DOMAIN job.plan = 1..Len(job.plan)
  BY JobFacts
<1>2. ScenarioAt(job, i) = job.plan[i]
  BY <1>1 DEF ScenarioAt, Scenarios
<1>3. job.plan \in Seq(Scenario)
  BY JobsAssumption
<1> QED
  BY <1>1, <1>2, <1>3

LEMMA VariantAgent ==
  ASSUME NEW job \in Job, NEW i \in 1..Replays(job), i > Len(job.plan)
  PROVE  /\ job.kind = "counterfactual" /\ Len(job.plan) = 1
         /\ i - Len(job.plan) \in DOMAIN job.variants
         /\ job.variants[i - Len(job.plan)].id \in STRING
         /\ ScenarioAt(job, i).agent =
              Append(job.plan[1].agent, job.variants[i - Len(job.plan)].id)
<1>1. i - Len(job.plan) \in 1..Len(job.variants)
  <2>1. ASSUME NEW p \in Nat, NEW v \in Nat, i \in 1..(p + v), i > p
        PROVE  i - p \in 1..v
    BY <2>1
  <2> QED
    BY <2>1, JobFacts DEF Replays
<1>2. job.kind = "counterfactual" /\ Len(job.plan) = 1
  BY <1>1, JobsAssumption
<1>3. job.variants \in Seq(VariantRequest) /\ job.plan[1] \in Scenario
  BY <1>2, JobsAssumption, PlannedScenario
<1>4. job.variants[i - Len(job.plan)] \in VariantRequest
  BY <1>1, <1>3
<1>5. ScenarioAt(job, i) = Variant(job.plan[1], job.variants[i - Len(job.plan)])
  BY JobFacts DEF ScenarioAt, Scenarios
<1>6. Variant(job.plan[1], job.variants[i - Len(job.plan)]).agent =
        Append(job.plan[1].agent, job.variants[i - Len(job.plan)].id)
  BY <1>3 DEF Variant, Scenario
<1> QED
  BY <1>1, <1>2, <1>4, <1>5, <1>6, JobFacts DEF VariantRequest

LEMMA EventsListed ==
  ASSUME NEW job \in Job, NEW i \in 1..Replays(job), ScenarioAt(job, i).events # NoEvents
  PROVE  /\ Len(ScenarioAt(job, i).events) \in Nat
         /\ DOMAIN ScenarioAt(job, i).events = 1..Len(ScenarioAt(job, i).events)
BY EventsAssumption

(* Two scenarios of a job have the same agent only if the job repeats one. *)
LEMMA AgentsDiffer ==
  ASSUME NEW job \in Job, NEW i \in 1..Replays(job), NEW j \in 1..i,
         ScenarioAt(job, j).agent = ScenarioAt(job, i).agent, Unrepeated(job, i)
  PROVE  j = i
<1>0. j \in 1..Replays(job) /\ Len(job.plan) \in Nat
  BY JobFacts
<1>1. CASE i <= Len(job.plan)
  <2>1. i \in DOMAIN job.plan /\ j \in DOMAIN job.plan
        /\ i \in 1..Len(job.plan) /\ j \in 1..Len(job.plan)
    BY <1>0, <1>1, JobFacts
  <2>2. job.plan[j] = job.plan[i]
    BY <2>1, PlannedScenario, JobsAssumption
  <2> QED
    BY <2>1, <2>2 DEF Unrepeated
<1>2. CASE i > Len(job.plan) /\ j <= Len(job.plan)
  <2>1. Len(job.plan) = 1 /\ job.variants[i - Len(job.plan)].id \in STRING
        /\ ScenarioAt(job, i).agent = Append(job.plan[1].agent, job.variants[i - Len(job.plan)].id)
    BY <1>2, VariantAgent
  <2>2. j = 1 /\ ScenarioAt(job, j).agent = job.plan[1].agent /\ job.plan[1] \in Scenario
    BY <1>0, <1>2, <2>1, PlannedScenario
  <2>3. job.plan[1].agent \in Seq(STRING)
    BY <2>2 DEF Scenario
  <2>4. ASSUME NEW a \in Seq(STRING), NEW e \in STRING PROVE Append(a, e) # a
    BY <2>4
  <2> QED
    BY <2>1, <2>2, <2>3, <2>4
<1>3. CASE i > Len(job.plan) /\ j > Len(job.plan)
  <2> DEFINE k == i - Len(job.plan)
             l == j - Len(job.plan)
  <2>1. /\ k \in DOMAIN job.variants /\ l \in DOMAIN job.variants
        /\ job.variants[k].id \in STRING /\ job.variants[l].id \in STRING
        /\ ScenarioAt(job, i).agent = Append(job.plan[1].agent, job.variants[k].id)
        /\ ScenarioAt(job, j).agent = Append(job.plan[1].agent, job.variants[l].id)
        /\ Len(job.plan) = 1
    <3>1. /\ k \in DOMAIN job.variants /\ job.variants[k].id \in STRING
          /\ ScenarioAt(job, i).agent = Append(job.plan[1].agent, job.variants[k].id)
          /\ Len(job.plan) = 1
      BY <1>0, <1>3, VariantAgent
    <3>2. /\ l \in DOMAIN job.variants /\ job.variants[l].id \in STRING
          /\ ScenarioAt(job, j).agent = Append(job.plan[1].agent, job.variants[l].id)
      BY <1>0, <1>3, VariantAgent
    <3> QED
      BY <3>1, <3>2
  <2>2. job.plan[1].agent \in Seq(STRING)
    BY <2>1, PlannedScenario DEF Scenario
  <2>3. ASSUME NEW a \in Seq(STRING), NEW e \in STRING, NEW f \in STRING,
               Append(a, e) = Append(a, f)
        PROVE  e = f
    BY <2>3
  <2>4. job.variants[k].id = job.variants[l].id
    BY <2>1, <2>2, <2>3
  <2>5. i = l + Len(job.plan)
    BY <1>3, <2>1, <2>4 DEF Unrepeated
  <2> QED
    BY <1>0, <2>5
<1> QED
  BY <1>0, <1>1, <1>2, <1>3

-----------------------------------------------------------------------------
(* What a step of a thread with locals x means for another one with locals v. *)
SameBut(v, w) ==
  /\ w.job = v.job /\ w.number = v.number /\ w.stage = v.stage /\ w.at = v.at
  /\ w.todo = v.todo /\ w.posts = v.posts /\ w.seen = v.seen /\ w.results = v.results
  /\ v.foreign \subseteq w.foreign /\ (v.cleared => w.cleared)

SameRows(v, x) == DbOf(v) = DbOf(x) /\ ScenarioOf(v).agent = ScenarioOf(x).agent

Marked(v, x, w) ==
  /\ w \in Call /\ SameBut(v, w)
  /\ IF Active(v) /\ SameRows(v, x) THEN w.foreign = v.foreign \cup {x.number} ELSE w = v

LEMMA CallFacts ==
  ASSUME TypeOK, NEW t \in Thread
  PROVE  /\ call[t] \in Call
         /\ DatabaseOf(t) = DbOf(call[t]) /\ AgentOf(t) = ScenarioOf(call[t]).agent
         /\ Stored(t) = StoredOf(call[t], rows) /\ Replaying(t) = Active(call[t])
         /\ \A n : Row(t, n) = RowOf(call[t], n)
BY DEF TypeOK, DatabaseOf, DbOf, AgentOf, ScenarioOf, Stored, StoredOf, Replaying, Free,
   Active, Row, RowOf, JobOf

LEMMA TouchedRow ==
  ASSUME NEW v \in Call, NEW k \in 1..MaxJobs, NEW w,
         w = [v EXCEPT !.foreign = @ \cup {k}, !.cleared = @ \/ FALSE]
  PROVE  w \in Call /\ SameBut(v, w) /\ w.foreign = v.foreign \cup {k}
BY DEF Call, SameBut

LEMMA TouchedClear ==
  ASSUME NEW v \in Call, NEW k \in 1..MaxJobs, NEW w,
         w = [v EXCEPT !.foreign = @ \cup {k}, !.cleared = @ \/ TRUE]
  PROVE  w \in Call /\ SameBut(v, w) /\ w.foreign = v.foreign \cup {k} /\ w.cleared
BY DEF Call, SameBut

(* What a replay has read, and how it is shaped, survives a touch. *)
LEMMA TouchKeeps ==
  ASSUME NEW v, NEW w, NEW s, SameBut(v, w), Shaped(v, s), Reported(v), Measured(v),
         Active(v) /\ v.job.kind = "candidate" => w.foreign = {}
  PROVE  Shaped(w, s) /\ Reported(w) /\ Measured(w)
<1>1. /\ w.job = v.job /\ w.number = v.number /\ w.stage = v.stage /\ w.at = v.at
      /\ w.todo = v.todo /\ w.posts = v.posts /\ w.seen = v.seen /\ w.results = v.results
      /\ v.foreign \subseteq w.foreign /\ (v.cleared => w.cleared)
  BY DEF SameBut
<1>2. Shaped(w, s)
  BY <1>1 DEF Shaped, Active, ScenarioOf
<1>3. Reported(w)
  BY <1>1 DEF Reported
<1>4. \A r : Own(w, r) = Own(v, r)
  BY <1>1 DEF Own
<1>5. Own(w, w) = Own(v, v)
  BY <1>1 DEF Own
<1>6. ASSUME NEW view, ViewOK(v, v, view) PROVE ViewOK(w, w, view)
  BY <1>1, <1>5, <1>6 DEF ViewOK
<1>7. ASSUME NEW r, ResultOK(v, r) PROVE ResultOK(w, r)
  BY <1>1, <1>4, <1>7 DEF ResultOK, ViewOK
<1>8. Measured(w)
  BY <1>1, <1>6, <1>7 DEF Measured, Active
<1> QED
  BY <1>2, <1>3, <1>8

(* Two threads at work have different databases, unless it is the shared one. *)
LEMMA OwnDatabase ==
  ASSUME NEW s \in Nat, NEW v, NEW x, Shaped(v, s), Shaped(x, s),
         v.stage # "idle", x.stage # "idle", v.number # x.number
  PROVE  /\ DbOf(v) # x.number
         /\ SameRows(v, x) => v.job.kind # "candidate"
<1>1. v.number \in 1..s /\ x.number \in 1..s
  BY DEF Shaped
<1> QED
  BY <1>1 DEF DbOf, SameRows

LEMMA TouchedKeeps ==
  ASSUME NEW s \in Nat, s <= MaxJobs, NEW v \in Call, NEW x \in Call, NEW w,
         Shaped(v, s), Reported(v), Measured(v), Shaped(x, s),
         v.stage # "idle" => v.number # x.number, x.stage # "idle", Marked(v, x, w)
  PROVE  /\ w \in Call /\ SameBut(v, w) /\ Shaped(w, s) /\ Reported(w) /\ Measured(w)
         /\ DbOf(w) = DbOf(v) /\ ScenarioOf(w) = ScenarioOf(v) /\ Active(w) = Active(v)
         /\ \A n : RowOf(w, n) = RowOf(v, n)
<1>1. x.number \in 1..MaxJobs
  BY JobsAssumption DEF Shaped
<1>2. SameBut(v, w) /\ w \in Call
  BY DEF Marked
<1>3. ASSUME Active(v), v.job.kind = "candidate" PROVE w.foreign = {}
  <2>1. v.stage # "idle"
    BY <1>3 DEF Active
  <2>2. ~SameRows(v, x)
    BY <1>3, <2>1, OwnDatabase
  <2>3. w = v
    BY <2>2 DEF Marked
  <2> QED
    BY <1>3, <2>3 DEF Measured
<1>4. Shaped(w, s) /\ Reported(w) /\ Measured(w)
  BY <1>2, <1>3, TouchKeeps
<1>5. w.job = v.job /\ w.number = v.number /\ w.stage = v.stage /\ w.at = v.at
  BY <1>2 DEF SameBut
<1>6. DbOf(w) = DbOf(v) /\ ScenarioOf(w) = ScenarioOf(v) /\ Active(w) = Active(v)
  BY <1>5 DEF DbOf, ScenarioOf, Active
<1>7. \A n : RowOf(w, n) = RowOf(v, n)
  BY <1>5, <1>6 DEF RowOf
<1> QED
  BY <1>2, <1>4, <1>6, <1>7

(* A row of another replay. *)
LEMMA RowBesides ==
  ASSUME NEW s \in Nat, s <= MaxJobs, NEW v \in Call, NEW x \in Call, NEW w, NEW R, NEW n,
         CallInv(v, R, s), Shaped(x, s), v.stage # "idle" => v.number # x.number,
         x.stage # "idle", Marked(v, x, w)
  PROVE  w \in Call /\ SameBut(v, w) /\ CallInv(w, R \cup {RowOf(x, n)}, s)
<1> DEFINE S == R \cup {RowOf(x, n)}
<1>1. /\ w \in Call /\ SameBut(v, w) /\ Shaped(w, s) /\ Reported(w) /\ Measured(w)
      /\ DbOf(w) = DbOf(v) /\ ScenarioOf(w) = ScenarioOf(v) /\ Active(w) = Active(v)
      /\ \A k : RowOf(w, k) = RowOf(v, k)
  BY TouchedKeeps DEF CallInv
<1>2. x.number \in 1..MaxJobs
  BY JobsAssumption DEF Shaped
<1>3. /\ w.job = v.job /\ w.number = v.number /\ w.stage = v.stage /\ w.at = v.at
      /\ w.todo = v.todo /\ v.foreign \subseteq w.foreign /\ (v.cleared => w.cleared)
  BY <1>1 DEF SameBut
<1>4. Kept(w, S)
  BY <1>1, <1>3 DEF CallInv, Grounded, Kept
<1>5. Accounted(w, S)
  <2>1. ASSUME Active(v), NEW m \in StoredOf(w, R) PROVE m.job \in w.foreign \cup {w.number}
    BY <2>1, <1>1, <1>3 DEF CallInv, Grounded, Accounted, StoredOf
  <2>2. ASSUME Active(v), RowOf(x, n) \in StoredOf(w, S)
        PROVE  RowOf(x, n).job \in w.foreign \cup {w.number}
    <3>1. SameRows(v, x) /\ RowOf(x, n).job = x.number
      BY <2>2, <1>1 DEF StoredOf, RowOf, SameRows
    <3> QED
      BY <2>2, <3>1, <1>2, <1>3 DEF Marked
  <2> QED
    BY <2>1, <2>2, <1>1 DEF Accounted, StoredOf
<1>6. Planned(w, S)
  <2>1. v.stage # "idle" => RowOf(x, n).job # v.number
    BY DEF RowOf
  <2> QED
    BY <2>1, <1>3 DEF CallInv, Grounded, Planned
<1> QED
  BY <1>1, <1>4, <1>5, <1>6 DEF CallInv, Grounded

(* Rows that another replay deletes. *)
LEMMA ClearBesides ==
  ASSUME NEW s \in Nat, s <= MaxJobs, NEW v \in Call, NEW x \in Call, NEW w, NEW R,
         CallInv(v, R, s), Shaped(x, s), v.stage # "idle" => v.number # x.number,
         x.stage # "idle", Marked(v, x, w),
         Active(v) /\ SameRows(v, x) => w.cleared
  PROVE  w \in Call /\ SameBut(v, w) /\ CallInv(w, R \ StoredOf(x, R), s)
<1> DEFINE S == R \ StoredOf(x, R)
<1>1. /\ w \in Call /\ SameBut(v, w) /\ Shaped(w, s) /\ Reported(w) /\ Measured(w)
      /\ DbOf(w) = DbOf(v) /\ ScenarioOf(w) = ScenarioOf(v) /\ Active(w) = Active(v)
      /\ \A k : RowOf(w, k) = RowOf(v, k)
  BY TouchedKeeps DEF CallInv
<1>2. x.number \in 1..MaxJobs
  BY JobsAssumption DEF Shaped
<1>3. /\ w.job = v.job /\ w.number = v.number /\ w.stage = v.stage /\ w.at = v.at
      /\ w.todo = v.todo /\ v.foreign \subseteq w.foreign /\ (v.cleared => w.cleared)
  BY <1>1 DEF SameBut
<1>4. Kept(w, S)
  <2>1. ASSUME Active(v), ~w.cleared
        PROVE  ~SameRows(v, x)
    BY <2>1
  <2>2. ASSUME ~SameRows(v, x), NEW n PROVE RowOf(v, n) \notin StoredOf(x, R)
    BY <2>2 DEF RowOf, StoredOf, SameRows
  <2> QED
    BY <2>1, <2>2, <1>1, <1>3 DEF CallInv, Grounded, Kept
<1>5. Accounted(w, S)
  BY <1>1, <1>3 DEF CallInv, Grounded, Accounted, StoredOf
<1>6. Planned(w, S)
  BY <1>3 DEF CallInv, Grounded, Planned
<1> QED
  BY <1>1, <1>4, <1>5, <1>6 DEF CallInv, Grounded

(* The database of a candidate that goes away. *)
LEMMA EndBesides ==
  ASSUME NEW s \in Nat, NEW v, NEW x, NEW R,
         CallInv(v, R, s), Shaped(x, s), v.stage # "idle" => v.number # x.number,
         x.stage # "idle"
  PROVE  CallInv(v, {m \in R : m.db # x.number}, s)
<1> DEFINE S == {m \in R : m.db # x.number}
<1>1. Kept(v, S)
  <2>1. ASSUME Active(v), NEW n PROVE RowOf(v, n).db # x.number
    <3>1. v.stage # "idle"
      BY <2>1 DEF Active
    <3> QED
      BY <3>1, OwnDatabase DEF RowOf, CallInv
  <2> QED
    BY <2>1 DEF CallInv, Grounded, Kept
<1>2. Accounted(v, S)
  BY DEF CallInv, Grounded, Accounted, StoredOf
<1>3. Planned(v, S)
  BY DEF CallInv, Grounded, Planned
<1> QED
  BY <1>1, <1>2, <1>3 DEF CallInv, Grounded

-----------------------------------------------------------------------------
(* Steps by what they do to the rows: with the locals c that thread t goes on    *)
(* with accounted for, the invariant holds after the step.                   *)
LEMMA Locals ==
  ASSUME ReplayInv, NEW t \in Thread, call[t].stage # "idle"
  PROVE  /\ call[t] \in Call /\ CallInv(call[t], rows, started) /\ Shaped(call[t], started)
         /\ call[t].number \in 1..started /\ call[t].number \in 1..MaxJobs
         /\ started \in Nat /\ started <= MaxJobs
         /\ \A u \in Thread : u # t /\ call[u].stage # "idle" =>
              call[u].number # call[t].number
BY JobsAssumption DEF ReplayInv, TypeOK, CallInv, Shaped, NumbersDiffer

LEMMA StepKeeps ==
  ASSUME ReplayInv, NEW t \in Thread, call[t].stage # "idle", NEW c \in Call,
         c.number = call[t].number, UNCHANGED started,
         rows' \subseteq Memory, RowsSound(rows', started), CallInv(c, rows', started),
         DOMAIN call' = Thread, call' = [u \in Thread |-> call'[u]], call'[t] = c,
         \A u \in Thread \ {t} :
           SameBut(call[u], call'[u]) /\ call'[u] \in Call /\ CallInv(call'[u], rows', started)
  PROVE  ReplayInv'
<1>1. TypeOK'
  <2>1. \A u \in Thread : call'[u] \in Call
    OBVIOUS
  <2>2. call' \in [Thread -> Call]
    BY <2>1
  <2> QED
    BY <2>2 DEF ReplayInv, TypeOK
<1>2. \A u \in Thread \ {t} : call'[u].number = call[u].number /\ call'[u].stage = call[u].stage
  BY DEF SameBut
<1>3. NumbersDiffer'
  BY <1>2, Locals DEF ReplayInv, NumbersDiffer
<1>4. (\A u \in Thread : CallInv(call[u], rows, started))'
  OBVIOUS
<1> QED
  BY <1>1, <1>3, <1>4 DEF ReplayInv

LEMMA SameLocals ==
  ASSUME NEW v
  PROVE  SameBut(v, v)
BY DEF SameBut

LEMMA QuietStep ==
  ASSUME ReplayInv, NEW t \in Thread, call[t].stage # "idle", NEW c \in Call,
         c.number = call[t].number, Goes(t, c), UNCHANGED <<rows, started>>,
         CallInv(c, rows, started)
  PROVE  ReplayInv'
<1>1. call \in [Thread -> Call] /\ rows \subseteq Memory /\ RowsSound(rows, started)
  BY DEF ReplayInv, TypeOK
<1>2. call'[t] = c /\ call' = [u \in Thread |-> call'[u]] /\ DOMAIN call' = Thread
  BY <1>1 DEF Goes
<1>3. \A u \in Thread \ {t} : call'[u] = call[u]
  BY <1>1 DEF Goes
<1>4. \A u \in Thread \ {t} :
        SameBut(call[u], call'[u]) /\ call'[u] \in Call /\ CallInv(call'[u], rows', started)
  BY <1>1, <1>3, SameLocals DEF ReplayInv
<1> QED
  BY <1>1, <1>2, <1>4, StepKeeps

LEMMA EndStep ==
  ASSUME ReplayInv, NEW t \in Thread, call[t].stage # "idle", NEW c \in Call,
         c.number = call[t].number, Ends(t, c), UNCHANGED started,
         CallInv(c, {m \in rows : m.db # c.number}, started)
  PROVE  ReplayInv'
<1>1. call \in [Thread -> Call] /\ rows \subseteq Memory /\ RowsSound(rows, started)
  BY DEF ReplayInv, TypeOK
<1>2. call'[t] = c /\ call' = [u \in Thread |-> call'[u]] /\ DOMAIN call' = Thread
  BY <1>1 DEF Ends, Goes
<1>3. rows' = {m \in rows : m.db # c.number}
  BY DEF Ends
<1>4. \A u \in Thread \ {t} : call'[u] = call[u]
  BY <1>1 DEF Ends, Goes
<1>5. ASSUME NEW u \in Thread, u # t
      PROVE  SameBut(call[u], call'[u]) /\ call'[u] \in Call /\ CallInv(call'[u], rows', started)
  <2>1. PICK v, x, S : v = call[u] /\ x = call[t] /\ S = rows
    OBVIOUS
  <2>2. /\ CallInv(v, S, started) /\ Shaped(x, started) /\ started \in Nat
        /\ v.stage # "idle" => v.number # x.number
    BY <1>5, <2>1, Locals DEF ReplayInv
  <2>3. CallInv(v, {m \in S : m.db # x.number}, started)
    BY <2>1, <2>2, EndBesides
  <2> QED
    BY <1>1, <1>3, <1>4, <1>5, <2>1, <2>3, SameLocals
<1>6. rows' \subseteq Memory /\ RowsSound(rows', started)
  BY <1>1, <1>3 DEF RowsSound
<1> QED
  BY <1>1, <1>2, <1>3, <1>5, <1>6, StepKeeps

LEMMA RowTyped ==
  ASSUME NEW s \in Nat, s <= MaxJobs, NEW x \in Call, Shaped(x, s), x.stage # "idle",
         NEW n \in Nat
  PROVE  /\ RowOf(x, n) \in Memory /\ RowOf(x, n).job \in 1..s
         /\ RowOf(x, n).db # 0 => RowOf(x, n).db = RowOf(x, n).job
<1>1. x.job \in Job /\ x.number \in 1..s /\ x.at \in 1..Replays(x.job)
  BY DEF Shaped
<1>2. DbOf(x) \in 0..MaxJobs /\ x.number \in 1..MaxJobs
  BY <1>1, JobsAssumption DEF DbOf
<1>3. ScenarioOf(x).agent \in Agent
  BY <1>1 DEF ScenarioOf, Agent
<1>4. x.at \in Index
  BY <1>1 DEF Index
<1> QED
  BY <1>1, <1>2, <1>3, <1>4 DEF RowOf, Memory, DbOf

LEMMA MarkedRows ==
  ASSUME ReplayInv, NEW t \in Thread, call[t].stage # "idle", NEW u \in Thread, u # t, NEW c
  PROVE  /\ Touches(t, c, FALSE) => Marked(call[u], call[t], call'[u])
         /\ Touches(t, c, TRUE) =>
              /\ Marked(call[u], call[t], call'[u])
              /\ Active(call[u]) /\ SameRows(call[u], call[t]) => call'[u].cleared
<1>a. PICK v \in Call : v = call[u]
  BY CallFacts DEF ReplayInv
<1>b. PICK k \in 1..MaxJobs : k = call[t].number
  BY Locals
<1>c. PICK w : w = call'[u]
  OBVIOUS
<1>d. PICK x : x = call[t]
  OBVIOUS
<1>1. Replaying(u) = Active(v) /\ TypeOK
      /\ (DatabaseOf(u) # DatabaseOf(t) \/ AgentOf(u) # AgentOf(t) <=> ~SameRows(v, x))
  BY <1>a, <1>d, CallFacts DEF ReplayInv, SameRows
<1>2. CASE Active(v) /\ SameRows(v, x)
  <2>1. ASSUME Touches(t, c, FALSE) PROVE Marked(v, x, w)
    <3>1. w = [v EXCEPT !.foreign = @ \cup {k}, !.cleared = @ \/ FALSE]
      BY <1>a, <1>b, <1>c, <1>1, <1>2, <2>1 DEF Touches
    <3>2. w \in Call /\ SameBut(v, w) /\ w.foreign = v.foreign \cup {k}
      BY <3>1, TouchedRow
    <3> QED
      BY <1>b, <1>d, <1>2, <3>2 DEF Marked
  <2>2. ASSUME Touches(t, c, TRUE) PROVE Marked(v, x, w) /\ w.cleared
    <3>1. w = [v EXCEPT !.foreign = @ \cup {k}, !.cleared = @ \/ TRUE]
      BY <1>a, <1>b, <1>c, <1>1, <1>2, <2>2 DEF Touches
    <3>2. w \in Call /\ SameBut(v, w) /\ w.foreign = v.foreign \cup {k} /\ w.cleared
      BY <3>1, TouchedClear
    <3> QED
      BY <1>b, <1>d, <1>2, <3>2 DEF Marked
  <2> QED
    BY <1>a, <1>c, <1>d, <2>1, <2>2
<1>3. CASE ~(Active(v) /\ SameRows(v, x))
  <2>1. Touches(t, c, FALSE) \/ Touches(t, c, TRUE) => w = v
    BY <1>a, <1>c, <1>1, <1>3 DEF Touches
  <2>2. w = v => Marked(v, x, w)
    BY <1>3, SameLocals DEF Marked
  <2> QED
    BY <1>a, <1>c, <1>d, <1>3, <2>1, <2>2
<1> QED
  BY <1>2, <1>3

LEMMA RowStep ==
  ASSUME ReplayInv, NEW t \in Thread, call[t].stage # "idle", NEW c \in Call, NEW n \in Nat,
         c.number = call[t].number, Touches(t, c, FALSE), UNCHANGED started,
         rows' = rows \cup {Row(t, n)},
         CallInv(c, rows \cup {RowOf(call[t], n)}, started)
  PROVE  ReplayInv'
<1>1. /\ call \in [Thread -> Call] /\ rows \subseteq Memory /\ RowsSound(rows, started)
      /\ Row(t, n) = RowOf(call[t], n)
  BY CallFacts DEF ReplayInv, TypeOK
<1>2. call'[t] = c /\ call' = [u \in Thread |-> call'[u]] /\ DOMAIN call' = Thread
  BY DEF Touches
<1>3. ASSUME NEW u \in Thread, u # t
      PROVE  SameBut(call[u], call'[u]) /\ call'[u] \in Call /\ CallInv(call'[u], rows', started)
  <2>1. PICK v, x, w, S : v = call[u] /\ x = call[t] /\ w = call'[u] /\ S = rows
    OBVIOUS
  <2>2. /\ CallInv(v, S, started) /\ Shaped(x, started) /\ started \in Nat /\ started <= MaxJobs
        /\ v.stage # "idle" => v.number # x.number
        /\ x \in Call /\ v \in Call
    BY <1>1, <1>3, <2>1, Locals DEF ReplayInv
  <2>3. Marked(v, x, w)
    BY <1>3, <2>1, MarkedRows
  <2>4. w \in Call /\ SameBut(v, w) /\ CallInv(w, S \cup {RowOf(x, n)}, started)
    BY <2>1, <2>2, <2>3, RowBesides
  <2> QED
    BY <1>1, <2>1, <2>4
<1>4. rows' \subseteq Memory /\ RowsSound(rows', started)
  BY <1>1, Locals, RowTyped DEF RowsSound
<1> QED
  BY <1>1, <1>2, <1>3, <1>4, StepKeeps

LEMMA ClearStep ==
  ASSUME ReplayInv, NEW t \in Thread, call[t].stage # "idle", NEW c \in Call,
         c.number = call[t].number, Touches(t, c, TRUE), UNCHANGED started,
         rows' = rows \ Stored(t),
         CallInv(c, rows \ StoredOf(call[t], rows), started)
  PROVE  ReplayInv'
<1>1. /\ call \in [Thread -> Call] /\ rows \subseteq Memory /\ RowsSound(rows, started)
      /\ Stored(t) = StoredOf(call[t], rows)
  BY CallFacts DEF ReplayInv, TypeOK
<1>2. call'[t] = c /\ call' = [u \in Thread |-> call'[u]] /\ DOMAIN call' = Thread
  BY DEF Touches
<1>3. ASSUME NEW u \in Thread, u # t
      PROVE  SameBut(call[u], call'[u]) /\ call'[u] \in Call /\ CallInv(call'[u], rows', started)
  <2>1. PICK v, x, w, S : v = call[u] /\ x = call[t] /\ w = call'[u] /\ S = rows
    OBVIOUS
  <2>2. /\ CallInv(v, S, started) /\ Shaped(x, started) /\ started \in Nat /\ started <= MaxJobs
        /\ v.stage # "idle" => v.number # x.number
        /\ x \in Call /\ v \in Call
    BY <1>1, <1>3, <2>1, Locals DEF ReplayInv
  <2>3. Marked(v, x, w) /\ (Active(v) /\ SameRows(v, x) => w.cleared)
    BY <1>3, <2>1, MarkedRows
  <2>4. w \in Call /\ SameBut(v, w) /\ CallInv(w, S \ StoredOf(x, S), started)
    BY <2>1, <2>2, <2>3, ClearBesides
  <2> QED
    BY <1>1, <2>1, <2>4
<1>4. rows' \subseteq Memory /\ RowsSound(rows', started)
  BY <1>1 DEF RowsSound
<1> QED
  BY <1>1, <1>2, <1>3, <1>4, StepKeeps

-----------------------------------------------------------------------------
(* What a replay reads is its own, as far as it knows. *)
LEMMA ViewNow ==
  ASSUME NEW s \in Nat, NEW x \in Call, NEW R \in SUBSET Memory, Shaped(x, s),
         Grounded(x, R), Active(x), x.stage # "write"
  PROVE  ViewOK(x, x, StoredOf(x, R))
<1> DEFINE view == StoredOf(x, R)
<1>1. x.job \in Job /\ x.at \in 1..Replays(x.job) /\ ScenarioOf(x).events # NoEvents
      /\ x.stage # "idle"
  BY DEF Shaped, Active
<1>2. Own(x, x) = {RowOf(x, n) : n \in DOMAIN ScenarioOf(x).events}
  BY DEF Own, RowOf, DbOf, ScenarioOf
<1>3. ASSUME ~x.cleared PROVE Own(x, x) \subseteq view
  <2>1. \A n \in DOMAIN ScenarioOf(x).events : RowOf(x, n) \in R
    BY <1>3 DEF Grounded, Kept
  <2>2. \A n : RowOf(x, n).db = DbOf(x) /\ RowOf(x, n).agent = ScenarioOf(x).agent
    BY DEF RowOf
  <2> QED
    BY <1>2, <2>1, <2>2 DEF StoredOf
<1>4. ASSUME x.foreign = {}, Unrepeated(x.job, x.at), NEW m \in view, m.n > 0
      PROVE  m \in Own(x, x)
  <2>1. /\ m \in R /\ m \in Memory /\ m.db = DbOf(x) /\ m.agent = ScenarioOf(x).agent
    BY DEF StoredOf
  <2>2. m.job = x.number
    BY <1>4 DEF Grounded, Accounted
  <2>3. /\ m.at <= x.at /\ m.agent = ScenarioAt(x.job, m.at).agent
        /\ m.n \in DOMAIN ScenarioAt(x.job, m.at).events
    BY <1>1, <1>4, <2>1, <2>2 DEF Grounded, Planned
  <2>4. m.at \in 1..x.at
    <3>1. m.at \in Index
      BY <2>1 DEF Memory
    <3> QED
      BY <1>1, <2>3, <3>1, IndexNumbers, JobFacts
  <2>5. ScenarioAt(x.job, m.at).agent = ScenarioAt(x.job, x.at).agent
    BY <2>1, <2>3 DEF ScenarioOf
  <2>6. m.at = x.at
    BY <1>1, <1>4, <2>4, <2>5, AgentsDiffer
  <2>7. m = RowOf(x, m.n)
    BY <2>1, <2>2, <2>6 DEF Memory, RowOf
  <2> QED
    BY <1>2, <2>3, <2>6, <2>7 DEF ScenarioOf
<1> QED
  BY <1>3, <1>4 DEF ViewOK

(* A replay goes on with locals c, having read all it reads after the writing. *)
SameReplay(x, c) ==
  /\ c.job = x.job /\ c.number = x.number /\ c.at = x.at
  /\ c.foreign = x.foreign /\ c.cleared = x.cleared /\ c.results = x.results

LEMMA SameReplayFacts ==
  ASSUME NEW x, NEW c, SameReplay(x, c)
  PROVE  /\ DbOf(c) = DbOf(x) /\ ScenarioOf(c) = ScenarioOf(x)
         /\ \A n : RowOf(c, n) = RowOf(x, n)
         /\ \A R : StoredOf(c, R) = StoredOf(x, R)
         /\ \A view : ViewOK(c, c, view) <=> ViewOK(x, x, view)
         /\ \A r : ResultOK(c, r) <=> ResultOK(x, r)
<1>1. DbOf(c) = DbOf(x) /\ ScenarioOf(c) = ScenarioOf(x)
  BY DEF SameReplay, DbOf, ScenarioOf
<1>2. \A n : RowOf(c, n) = RowOf(x, n)
  BY <1>1 DEF RowOf, SameReplay
<1>3. \A R : StoredOf(c, R) = StoredOf(x, R)
  BY <1>1 DEF StoredOf
<1>4. \A r : Own(c, r) = Own(x, r)
  BY DEF Own, SameReplay
<1>5. Own(c, c) = Own(x, x)
  BY DEF Own, SameReplay
<1>6. \A view : ViewOK(c, c, view) <=> ViewOK(x, x, view)
  BY <1>5 DEF ViewOK, SameReplay
<1>7. \A r : ResultOK(c, r) <=> ResultOK(x, r)
  BY <1>4 DEF ViewOK, ResultOK, SameReplay
<1> QED
  BY <1>1, <1>2, <1>3, <1>6, <1>7

LEMMA GoesOn ==
  ASSUME NEW s \in Nat, NEW x \in Call, NEW c \in Call, NEW R \in SUBSET Memory,
         CallInv(x, R, s), Active(x), x.stage # "write", SameReplay(x, c),
         c.stage \in {"build", "post", "flat", "retrieve", "reply"},
         c.stage = "post" => c.posts > 0,
         \A view \in c.seen : view \in x.seen \/ view = StoredOf(x, R)
  PROVE  CallInv(c, R, s)
<1>1. /\ DbOf(c) = DbOf(x) /\ ScenarioOf(c) = ScenarioOf(x)
      /\ \A n : RowOf(c, n) = RowOf(x, n)
      /\ StoredOf(c, R) = StoredOf(x, R)
      /\ \A view : ViewOK(c, c, view) <=> ViewOK(x, x, view)
      /\ \A r : ResultOK(c, r) <=> ResultOK(x, r)
  BY SameReplayFacts
<1>2. /\ c.job = x.job /\ c.number = x.number /\ c.at = x.at
      /\ c.foreign = x.foreign /\ c.cleared = x.cleared /\ c.results = x.results
      /\ Active(c) /\ c.stage \notin {"write", "list", "clear", "begin", "idle", "done"}
      /\ x.stage \notin {"list", "clear", "begin", "idle", "done"}
  BY DEF SameReplay, Active
<1>3. Shaped(c, s)
  BY <1>1, <1>2 DEF CallInv, Shaped
<1>4. Reported(c)
  BY <1>2 DEF CallInv, Reported
<1>5. Measured(c)
  <2>1. ViewOK(x, x, StoredOf(x, R))
    BY ViewNow DEF CallInv
  <2> QED
    BY <1>1, <1>2, <2>1 DEF CallInv, Measured
<1>6. Grounded(c, R)
  BY <1>1, <1>2 DEF CallInv, Grounded, Kept, Accounted, Planned
<1> QED
  BY <1>3, <1>4, <1>5, <1>6 DEF CallInv

(* A summary row of its own. *)
LEMMA OwnSummary ==
  ASSUME NEW x, NEW R, NEW s, CallInv(x, R, s), x.stage \notin {"list", "clear"},
         x.at \in Int
  PROVE  CallInv(x, R \cup {RowOf(x, 0)}, s)
<1> DEFINE S == R \cup {RowOf(x, 0)}
<1>1. /\ RowOf(x, 0).job = x.number /\ RowOf(x, 0).at = x.at /\ RowOf(x, 0).n = 0
      /\ RowOf(x, 0).agent = ScenarioAt(x.job, x.at).agent
  BY DEF RowOf, ScenarioOf
<1>2. Kept(x, S)
  BY DEF CallInv, Grounded, Kept
<1>3. Accounted(x, S)
  BY <1>1 DEF CallInv, Grounded, Accounted, StoredOf
<1>4. Planned(x, S)
  BY <1>1 DEF CallInv, Grounded, Planned
<1> QED
  BY <1>2, <1>3, <1>4 DEF CallInv, Grounded

-----------------------------------------------------------------------------
(* Locals of a replay that begins or is over. *)
LEMMA NewCallFacts ==
  ASSUME NEW job \in Job, NEW k \in 0..MaxJobs, NEW stage \in Stage, NEW c,
         c = NewCall(job, k, stage)
  PROVE  /\ c \in Call /\ c.job = job /\ c.number = k /\ c.stage = stage /\ c.at = 1
         /\ c.seen = {} /\ c.results = <<>> /\ c.todo = <<>> /\ c.posts = 0
<1>1. 1 \in Index /\ <<>> \in Seq(Nat) /\ <<>> \in Seq(Result)
      /\ 0 \in 0..2 * MaxClusters + 1 /\ 0 \in 0..MaxRetries
  BY JobsAssumption DEF Index
<1> QED
  BY <1>1 DEF NewCall, Call

LEMMA Begun ==
  ASSUME NEW s \in Nat, NEW R, NEW c \in Call, c.job \in Job, c.number \in 1..s,
         c.at \in 1..Replays(c.job), c.stage \in {"list", "clear", "begin"}, c.seen = {},
         c.results = <<>>, c.stage = "begin" => c.at = 1,
         \A m \in R : m.job # c.number
  PROVE  CallInv(c, R, s)
<1>1. Shaped(c, s) /\ ~Active(c)
  BY DEF Shaped, Active
<1>2. Reported(c)
  BY DEF Reported
<1>3. Measured(c)
  BY <1>1 DEF Measured
<1>4. Grounded(c, R)
  BY <1>1 DEF Grounded, Kept, Accounted, Planned
<1> QED
  BY <1>1, <1>2, <1>3, <1>4 DEF CallInv

FailedLocals(x) ==
  [NewCall(x.job, x.number, "failed") EXCEPT !.at = x.at, !.results = x.results]

LEMMA Failed ==
  ASSUME NEW s \in Nat, NEW x \in Call, NEW R, NEW c, CallInv(x, R, s),
         x.stage = "begin" \/ Active(x), s <= MaxJobs,
         c = FailedLocals(x)
  PROVE  c \in Call /\ c.number = x.number /\ CallInv(c, {m \in R : m.db # c.number}, s)
<1>1. /\ x.job \in Job /\ x.number \in 1..s /\ x.at \in 1..Replays(x.job)
      /\ x.stage \notin {"idle", "list", "clear", "done"}
      /\ x.at \in Index /\ x.results \in Seq(Result) /\ x.number \in 0..MaxJobs
  BY DEF CallInv, Shaped, Active, Call
<1>2. PICK y : y = NewCall(x.job, x.number, "failed")
  OBVIOUS
<1>3. y \in Call /\ y.job = x.job /\ y.number = x.number /\ y.stage = "failed" /\ y.seen = {}
  BY <1>1, <1>2, NewCallFacts DEF Stage
<1>4. c = [y EXCEPT !.at = x.at, !.results = x.results]
  BY <1>2 DEF FailedLocals
<1>5. /\ c \in Call /\ c.job = x.job /\ c.number = x.number /\ c.stage = "failed"
      /\ c.seen = {} /\ c.at = x.at /\ c.results = x.results
  BY <1>1, <1>3, <1>4 DEF Call
<1>6. Shaped(c, s) /\ ~Active(c)
  BY <1>1, <1>5 DEF Shaped, Active
<1>7. Reported(c)
  BY <1>1, <1>5 DEF CallInv, Reported
<1>8. \A r : ResultOK(c, r) <=> ResultOK(x, r)
  <2>1. \A r : Own(c, r) = Own(x, r)
    BY <1>5 DEF Own
  <2> QED
    BY <1>5, <2>1 DEF ResultOK, ViewOK
<1>9. Measured(c)
  BY <1>5, <1>6, <1>8 DEF CallInv, Measured
<1>10. Grounded(c, {m \in R : m.db # c.number})
  BY <1>1, <1>5, <1>6 DEF CallInv, Grounded, Kept, Accounted, Planned
<1> QED
  BY <1>5, <1>6, <1>7, <1>9, <1>10 DEF CallInv

LEMMA AppendFacts ==
  ASSUME NEW S, NEW q \in Seq(S), NEW e \in S
  PROVE  /\ Append(q, e) \in Seq(S) /\ Len(Append(q, e)) = Len(q) + 1 /\ Len(q) \in Nat
         /\ DOMAIN Append(q, e) = 1..(Len(q) + 1) /\ DOMAIN q = 1..Len(q)
         /\ \A i \in DOMAIN q : Append(q, e)[i] = q[i]
         /\ Append(q, e)[Len(q) + 1] = e
         /\ \A i \in DOMAIN Append(q, e) : i \in DOMAIN q \/ i = Len(q) + 1
OBVIOUS

LEMMA Recorded ==
  ASSUME NEW s \in Nat, NEW x \in Call, NEW R \in SUBSET Memory, NEW S \in SUBSET R,
         NEW d \in Call,
         NEW r \in Result, CallInv(x, R, s), Active(x),
         r.at = x.at, r.status # "present", ResultOK(x, r),
         r.status = "skipped" => x.job.kind = "candidate" /\ r.cause = "refused",
         d.job = x.job, d.number = x.number, d.results = Append(x.results, r), d.seen = {},
         \/ d.stage = "begin" /\ d.at = x.at + 1 /\ x.at < Replays(x.job)
         \/ d.stage = "done" /\ d.at = x.at /\ ~(x.at < Replays(x.job))
  PROVE  CallInv(d, S, s)
<1>1. /\ x.job \in Job /\ x.number \in 1..s /\ x.at \in 1..Replays(x.job)
      /\ x.stage \notin {"idle", "list", "clear", "done"}
      /\ x.results \in Seq(Result) /\ Replays(x.job) \in Nat
  BY JobFacts DEF CallInv, Shaped, Active, Call
<1>2. Len(x.results) = x.at - 1
  BY <1>1 DEF CallInv, Reported
<1>3. /\ Len(d.results) = x.at /\ DOMAIN x.results = 1..(x.at - 1)
      /\ \A i \in DOMAIN x.results : d.results[i] = x.results[i]
      /\ d.results[x.at] = r
      /\ \A i \in DOMAIN d.results : i \in DOMAIN x.results \/ i = x.at
  <2>1. PICK q : q = x.results
    OBVIOUS
  <2>2. q \in Seq(Result) /\ d.results = Append(q, r) /\ Len(q) = x.at - 1
    BY <1>1, <1>2, <2>1
  <2>3. x.at \in Nat /\ Len(q) + 1 = x.at
    BY <1>1, <2>2
  <2> QED
    BY <2>1, <2>2, <2>3, AppendFacts
<1>4. Shaped(d, s) /\ ~Active(d)
  BY <1>1 DEF Shaped, Active
<1>5. Reported(d)
  <2>1. d.stage = "done" => Len(d.results) = Replays(d.job)
    BY <1>1, <1>3
  <2>2. d.stage # "done" => d.stage = "begin" /\ Len(d.results) = d.at - 1
    <3>1. x.at \in Nat /\ x.at = x.at + 1 - 1
      BY <1>1
    <3>2. d.stage # "done" => d.stage = "begin" /\ d.at = x.at + 1
      OBVIOUS
    <3> QED
      BY <1>3, <3>1, <3>2
  <2>3. ASSUME NEW i \in DOMAIN d.results
        PROVE  /\ d.results[i].at = i
               /\ d.results[i].status = "skipped" =>
                    d.job.kind = "candidate" /\ d.results[i].cause = "refused"
    BY <1>1, <1>3 DEF CallInv, Reported
  <2> QED
    BY <2>1, <2>2, <2>3 DEF Reported
<1>6. \A q : ResultOK(d, q) <=> ResultOK(x, q)
  <2>1. \A q : Own(d, q) = Own(x, q)
    BY DEF Own
  <2> QED
    BY <2>1 DEF ResultOK, ViewOK
<1>7. Measured(d)
  BY <1>3, <1>4, <1>6 DEF CallInv, Measured
<1>8. Grounded(d, S)
  <2>1. ASSUME NEW m \in S, m.job = d.number
        PROVE  /\ m.at <= x.at /\ m.agent = ScenarioAt(d.job, m.at).agent /\ m \in R
               /\ m.n > 0 => m.n \in DOMAIN ScenarioAt(d.job, m.at).events
    BY <1>1, <2>1 DEF CallInv, Grounded, Planned
  <2>2. \A m \in S : m.at \in Nat
    BY IndexNumbers DEF Memory
  <2>3. \A m \in S : m.job = d.number => m.at <= d.at
    BY <1>1, <2>1, <2>2
  <2> QED
    BY <1>1, <1>4, <2>1, <2>3 DEF Grounded, Kept, Accounted, Planned
<1> QED
  BY <1>4, <1>5, <1>7, <1>8 DEF CallInv

-----------------------------------------------------------------------------
(* The steps of a job. *)
LEMMA MoreStarted ==
  ASSUME NEW s \in Nat, NEW v, NEW R, CallInv(v, R, s)
  PROVE  CallInv(v, R, s + 1)
<1>1. Shaped(v, s + 1)
  BY DEF CallInv, Shaped
<1> QED
  BY <1>1 DEF CallInv

LEMMA StartKeeps ==
  ASSUME ReplayInv, NEW t \in Thread, Start(t)
  PROVE  ReplayInv'
<1>0. /\ started \in Nat /\ started + 1 \in 0..MaxJobs /\ MaxJobs \in Nat
      /\ call \in [Thread -> Call] /\ rows \subseteq Memory
      /\ started' = started + 1 /\ rows' = rows /\ RowsSound(rows, started)
  BY JobsAssumption DEF ReplayInv, TypeOK, Start
<1>a. PICK job \in Job, stage \in {"list", "begin"} :
        call' = [call EXCEPT ![t] = NewCall(job, started + 1, stage)]
  BY <1>0 DEF Start, Goes
<1>b. PICK k : k = started + 1
  OBVIOUS
<1>c. PICK c : c = NewCall(job, k, stage)
  OBVIOUS
<1>1. c = NewCall(job, started + 1, stage) /\ call' = [call EXCEPT ![t] = c]
  BY <1>a, <1>b, <1>c
<1>2. /\ c \in Call /\ c.job = job /\ c.number = started + 1 /\ c.stage = stage /\ c.at = 1
      /\ c.seen = {} /\ c.results = <<>>
  BY <1>0, <1>1, NewCallFacts DEF Stage
<1>3. \A m \in rows : m.job # started + 1
  BY <1>0 DEF RowsSound
<1>4. CallInv(c, rows, started + 1)
  BY <1>0, <1>2, <1>3, JobFacts, Begun
<1>5. TypeOK'
  BY <1>0, <1>1, <1>2 DEF TypeOK
<1>6. RowsSound(rows, started)'
  BY <1>0 DEF RowsSound
<1>7. \A u \in Thread : u # t => call'[u] = call[u]
  BY <1>0, <1>1
<1>8. call'[t] = c
  BY <1>0, <1>1
<1>9. \A u \in Thread : call[u].stage # "idle" => call[u].number \in 1..started
  BY DEF ReplayInv, CallInv, Shaped
<1>10. NumbersDiffer'
  <2>1. \A u \in Thread : u # t /\ call'[u].stage # "idle" => call'[u].number # call'[t].number
    BY <1>0, <1>2, <1>7, <1>8, <1>9
  <2> QED
    BY <1>7, <2>1 DEF ReplayInv, NumbersDiffer
<1>11. (\A u \in Thread : CallInv(call[u], rows, started))'
  <2>1. \A u \in Thread : CallInv(call'[u], rows, started + 1)
    BY <1>0, <1>4, <1>7, <1>8, MoreStarted DEF ReplayInv
  <2> QED
    BY <1>0, <2>1
<1> QED
  BY <1>5, <1>6, <1>10, <1>11 DEF ReplayInv

LEMMA AfterResetKeeps ==
  ASSUME NEW s \in Nat, NEW x \in Call, NEW R, NEW S \in SUBSET R, CallInv(x, R, s),
         s <= MaxJobs, x.stage \in {"list", "clear"}, NEW c, c = AfterReset(x)
  PROVE  c \in Call /\ c.number = x.number /\ CallInv(c, S, s)
<1>1. /\ x.job \in Job /\ x.number \in 1..s /\ x.at \in 1..Replays(x.job) /\ x.seen = {}
      /\ x.number \in 0..MaxJobs /\ x.results = <<>> /\ \A m \in S : m.job # x.number
  <2>1. x.job \in Job /\ x.number \in 1..s /\ x.at \in 1..Replays(x.job) /\ x.seen = {}
    BY DEF CallInv, Shaped
  <2>2. x.results = <<>>
    BY DEF CallInv, Reported
  <2>3. \A m \in R : m.job # x.number
    BY DEF CallInv, Grounded, Planned
  <2>4. MaxJobs \in Nat
    BY JobsAssumption
  <2>5. x.number \in 0..MaxJobs
    BY <2>1, <2>4
  <2> QED
    BY <2>1, <2>2, <2>3, <2>5
<1>2. CASE x.at < Len(x.job.plan)
  <2>1. x.at + 1 \in 1..Replays(x.job)
    BY <1>1, <1>2, JobFacts
  <2>2. PICK i \in Index : i = x.at + 1
    BY <1>1, <2>1 DEF Index
  <2>3. c = [x EXCEPT !.at = i, !.stage = "list"]
    BY <1>2, <2>2 DEF AfterReset
  <2>4. /\ c \in Call /\ c.job = x.job /\ c.number = x.number /\ c.at = i /\ c.stage = "list"
        /\ c.seen = x.seen /\ c.results = x.results
    <3>1. "list" \in Stage
      BY DEF Stage
    <3>2. c \in Call
      BY <2>3, <3>1 DEF Call
    <3> QED
      BY <2>3, <3>2 DEF Call
  <2> QED
    BY <1>1, <2>1, <2>2, <2>4, Begun
<1>3. CASE ~(x.at < Len(x.job.plan))
  <2>1. c = NewCall(x.job, x.number, "begin")
    BY <1>3 DEF AfterReset
  <2>2. /\ c \in Call /\ c.job = x.job /\ c.number = x.number /\ c.at = 1
        /\ c.stage = "begin" /\ c.seen = {} /\ c.results = <<>>
    BY <1>1, <2>1, NewCallFacts DEF Stage
  <2> QED
    BY <1>1, <2>2, JobFacts, Begun
<1> QED
  BY <1>2, <1>3

LEMMA ListKeeps ==
  ASSUME ReplayInv, NEW t \in Thread, List(t)
  PROVE  ReplayInv'
<1>0. PICK x, s, R : x = call[t] /\ s = started /\ R = rows
  OBVIOUS
<1>1. /\ x.stage = "list" /\ x \in Call /\ CallInv(x, R, s) /\ s \in Nat /\ s <= MaxJobs
      /\ call[t].stage # "idle" /\ R \in SUBSET Memory
      /\ Stored(t) = StoredOf(x, R) /\ JobOf(t) = x.job
  BY <1>0, Locals, CallFacts DEF List, At, ReplayInv, TypeOK, JobOf
<1>2. /\ x.job \in Job /\ x.number \in 1..s /\ x.at \in 1..Replays(x.job) /\ x.seen = {}
      /\ x.results = <<>> /\ \A m \in R : m.job # x.number
  BY <1>1 DEF CallInv, Shaped, Reported, Grounded, Planned
<1>3. CASE KeepsData(t)
  <2>1. PICK r, c : /\ r = [at |-> 1, status |-> "present", cause |-> "none",
                            seen |-> {StoredOf(x, R)}, foreign |-> {}, cleared |-> FALSE]
                    /\ c = [x EXCEPT !.stage = "done", !.results = <<r>>]
                    /\ Goes(t, c)
    BY <1>0, <1>1, <1>3 DEF List
  <2>2. r \in Result /\ r.at = 1 /\ r.status = "present"
    <3>1. 1 \in Index /\ {StoredOf(x, R)} \in SUBSET SUBSET Memory
      BY <1>1 DEF Index, StoredOf
    <3> QED
      BY <2>1, <3>1 DEF Result
  <2>3. <<r>> \in Seq(Result) /\ DOMAIN <<r>> = {1} /\ <<r>>[1] = r
    BY <2>2
  <2>4. /\ c \in Call /\ c.job = x.job /\ c.number = x.number /\ c.at = x.at
        /\ c.stage = "done" /\ c.seen = x.seen /\ c.results = <<r>>
    BY <1>1, <2>1, <2>3 DEF Call, Stage
  <2>5. Shaped(c, s) /\ ~Active(c)
    BY <1>2, <2>4 DEF Shaped, Active
  <2>6. Reported(c)
    BY <2>2, <2>3, <2>4 DEF Reported
  <2>7. Measured(c)
    BY <1>2, <2>2, <2>3, <2>4, <2>5 DEF Measured, ResultOK
  <2>8. Grounded(c, R)
    BY <1>2, <2>4, <2>5 DEF Grounded, Kept, Accounted, Planned
  <2>9. CallInv(c, R, s)
    BY <2>5, <2>6, <2>7, <2>8 DEF CallInv
  <2> QED
    BY <1>0, <1>1, <2>1, <2>4, <2>9, QuietStep DEF List
<1>4. CASE ~KeepsData(t) /\ JobOf(t).kind = "benchmark" /\ Stored(t) = {}
  <2>1. PICK c : c = AfterReset(x) /\ Goes(t, c)
    BY <1>0, <1>1, <1>4 DEF List
  <2>2. c \in Call /\ c.number = x.number /\ CallInv(c, R, s)
    BY <1>1, <2>1, AfterResetKeeps
  <2> QED
    BY <1>0, <1>1, <2>1, <2>2, QuietStep DEF List
<1>5. CASE ~KeepsData(t) /\ ~(JobOf(t).kind = "benchmark" /\ Stored(t) = {})
  <2>1. PICK c : c = [x EXCEPT !.stage = "clear"] /\ Goes(t, c)
    BY <1>0, <1>1, <1>5 DEF List
  <2>2. /\ c \in Call /\ c.job = x.job /\ c.number = x.number /\ c.at = x.at
        /\ c.stage = "clear" /\ c.seen = x.seen /\ c.results = x.results
    BY <1>1, <2>1 DEF Call, Stage
  <2>3. CallInv(c, R, s)
    BY <1>1, <1>2, <2>2, Begun
  <2> QED
    BY <1>0, <1>1, <2>1, <2>2, <2>3, QuietStep DEF List
<1> QED
  BY <1>3, <1>4, <1>5

LEMMA ClearKeeps ==
  ASSUME ReplayInv, NEW t \in Thread, Clear(t)
  PROVE  ReplayInv'
<1>0. PICK x, s, R : x = call[t] /\ s = started /\ R = rows
  OBVIOUS
<1>1. /\ x.stage = "clear" /\ x \in Call /\ CallInv(x, R, s) /\ s \in Nat /\ s <= MaxJobs
      /\ call[t].stage # "idle"
  BY <1>0, Locals DEF Clear, At
<1>2. PICK c : c = AfterReset(x) /\ Touches(t, c, TRUE)
  BY <1>0 DEF Clear
<1>3. R \ StoredOf(x, R) \in SUBSET R
  OBVIOUS
<1>4. c \in Call /\ c.number = x.number /\ CallInv(c, R \ StoredOf(x, R), s)
  BY <1>1, <1>2, <1>3, AfterResetKeeps
<1> QED
  BY <1>0, <1>1, <1>2, <1>4, ClearStep DEF Clear

LEMMA FailsKeeps ==
  ASSUME ReplayInv, NEW t \in Thread, call[t].stage = "begin" \/ Active(call[t]), Fails(t),
         UNCHANGED started
  PROVE  ReplayInv'
<1>0. PICK x, s, R : x = call[t] /\ s = started /\ R = rows
  OBVIOUS
<1>1. call[t].stage # "idle"
  BY DEF Active
<1>2. x \in Call /\ CallInv(x, R, s) /\ s \in Nat /\ s <= MaxJobs
      /\ (x.stage = "begin" \/ Active(x))
  BY <1>0, <1>1, Locals
<1>3. PICK c : c = FailedLocals(x) /\ Ends(t, c)
  BY <1>0 DEF Fails, JobOf, FailedLocals
<1>4. c \in Call /\ c.number = x.number /\ CallInv(c, {m \in R : m.db # c.number}, s)
  BY <1>2, <1>3, Failed
<1> QED
  BY <1>0, <1>1, <1>3, <1>4, EndStep

(* The result that the locals y of the replay come to. *)
LEMMA ResultFacts ==
  ASSUME NEW y \in Call, Measured(y), Active(y), NEW status \in {"done", "skipped"},
         NEW cause \in {"none", "refused", "error"}, NEW r,
         r = [at |-> y.at, status |-> status, cause |-> cause,
              seen |-> y.seen, foreign |-> y.foreign, cleared |-> y.cleared]
  PROVE  /\ r \in Result /\ r.at = y.at /\ r.status = status /\ r.cause = cause
         /\ ResultOK(y, r)
<1>1. r \in Result
  BY DEF Call, Result
<1>2. /\ r.at = y.at /\ r.status = status /\ r.cause = cause /\ r.seen = y.seen
      /\ r.foreign = y.foreign /\ r.cleared = y.cleared
  OBVIOUS
<1>3. Own(y, r) = Own(y, y)
  BY <1>2 DEF Own
<1>4. ResultOK(y, r)
  BY <1>2, <1>3 DEF ResultOK, ViewOK, Measured
<1> QED
  BY <1>1, <1>2, <1>4

LEMMA RecordsKeeps ==
  ASSUME ReplayInv, NEW t \in Thread, NEW y \in Call, CallInv(y, rows, started), Active(y),
         y.number = call[t].number, call[t].stage # "idle",
         NEW status \in {"done", "skipped"}, NEW cause \in {"none", "refused", "error"},
         status = "skipped" => y.job.kind = "candidate" /\ cause = "refused",
         Records(t, y, status, cause), UNCHANGED started
  PROVE  ReplayInv'
<1>0. PICK s, R : s = started /\ R = rows
  OBVIOUS
<1>1. s \in Nat /\ s <= MaxJobs /\ R \in SUBSET Memory /\ CallInv(y, R, s)
  BY <1>0, Locals DEF ReplayInv, TypeOK
<1>2. PICK r, z, i : /\ r = [at |-> y.at, status |-> status, cause |-> cause,
                             seen |-> y.seen, foreign |-> y.foreign, cleared |-> y.cleared]
                     /\ z = NewCall(y.job, y.number, "begin")
                     /\ i = y.at + 1
  OBVIOUS
<1>3. r \in Result /\ r.at = y.at /\ r.status = status /\ r.cause = cause /\ ResultOK(y, r)
  BY <1>1, <1>2, ResultFacts DEF CallInv
<1>4. /\ y.job \in Job /\ y.number \in 1..s /\ y.at \in 1..Replays(y.job)
      /\ y.number \in 0..MaxJobs /\ y.results \in Seq(Result) /\ y.at \in Index
  BY <1>1 DEF CallInv, Shaped, Active, Call
<1>5. z \in Call /\ z.job = y.job /\ z.number = y.number /\ z.stage = "begin" /\ z.seen = {}
  BY <1>2, <1>4, NewCallFacts DEF Stage
<1>6. PICK q : q = Append(y.results, r)
  OBVIOUS
<1>7. q \in Seq(Result)
  BY <1>3, <1>4, <1>6
<1>8. CASE y.at < Replays(y.job)
  <2>1. i \in Index
    <3>1. i \in 1..Replays(y.job)
      BY <1>2, <1>4, <1>8, JobFacts
    <3> QED
      BY <1>4, <3>1 DEF Index
  <2>2. PICK d : d = [z EXCEPT !.at = i, !.results = q] /\ Goes(t, d) /\ UNCHANGED rows
    BY <1>2, <1>6, <1>8 DEF Records
  <2>3. /\ d \in Call /\ d.job = y.job /\ d.number = y.number /\ d.stage = "begin"
        /\ d.at = i /\ d.results = q /\ d.seen = {}
    BY <1>5, <1>7, <2>1, <2>2 DEF Call
  <2>4. R \in SUBSET R
    OBVIOUS
  <2>5. CallInv(d, R, s)
    BY <1>1, <1>2, <1>3, <1>6, <1>8, <2>3, <2>4, Recorded
  <2> QED
    BY <1>0, <2>2, <2>3, <2>5, QuietStep
<1>9. CASE ~(y.at < Replays(y.job))
  <2>1. PICK d : /\ d = [[z EXCEPT !.at = i, !.results = q] EXCEPT !.stage = "done", !.at = y.at]
                 /\ Ends(t, d)
    BY <1>2, <1>6, <1>9 DEF Records
  <2>2. /\ d \in Call /\ d.job = y.job /\ d.number = y.number /\ d.stage = "done"
        /\ d.at = y.at /\ d.results = q /\ d.seen = {}
    BY <1>4, <1>5, <1>7, <2>1 DEF Call, Stage
  <2>3. {m \in R : m.db # d.number} \in SUBSET R
    OBVIOUS
  <2>4. CallInv(d, {m \in R : m.db # d.number}, s)
    BY <1>1, <1>2, <1>3, <1>6, <1>9, <2>2, <2>3, Recorded
  <2> QED
    BY <1>0, <2>1, <2>2, <2>4, EndStep
<1> QED
  BY <1>8, <1>9

LEMMA RaisesKeeps ==
  ASSUME ReplayInv, NEW t \in Thread, At(t, "post"), NEW cause \in ErrorText,
         Raises(t, cause), UNCHANGED started
  PROVE  ReplayInv'
<1>1. Active(call[t]) /\ call[t].stage # "idle"
  BY DEF At, Active
<1>2. CASE Skips(t, cause)
  <2>1. PICK y : y = call[t]
    OBVIOUS
  <2>2. y \in Call /\ CallInv(y, rows, started) /\ Active(y)
    BY <1>1, <2>1, Locals
  <2>3. Records(t, y, "skipped", cause) /\ y.job.kind = "candidate" /\ cause = "refused"
    BY <1>2, <2>1 DEF Raises, Skips, JobOf
  <2> QED
    BY <1>1, <2>1, <2>2, <2>3, RecordsKeeps
<1>3. CASE ~Skips(t, cause)
  BY <1>1, <1>3, FailsKeeps DEF Raises
<1> QED
  BY <1>2, <1>3

(* A step of a replay that leaves the rows alone. *)
LEMMA GoesOnKeeps ==
  ASSUME ReplayInv, NEW t \in Thread, Active(call[t]), call[t].stage # "write",
         NEW c \in Call, SameReplay(call[t], c),
         c.stage \in {"build", "post", "flat", "retrieve", "reply"},
         c.stage = "post" => c.posts > 0,
         \A view \in c.seen : view \in call[t].seen \/ view = StoredOf(call[t], rows),
         Goes(t, c), UNCHANGED <<rows, started>>
  PROVE  ReplayInv'
<1>0. PICK x, s, R : x = call[t] /\ s = started /\ R = rows
  OBVIOUS
<1>1. call[t].stage # "idle" /\ R \in SUBSET Memory
  BY <1>0 DEF Active, ReplayInv, TypeOK
<1>2. x \in Call /\ CallInv(x, R, s) /\ s \in Nat
  BY <1>0, <1>1, Locals
<1>3. CallInv(c, R, s) /\ c.number = x.number
  BY <1>0, <1>1, <1>2, GoesOn DEF SameReplay
<1> QED
  BY <1>0, <1>1, <1>3, QuietStep

LEMMA TransientKeeps ==
  ASSUME ReplayInv, NEW t \in Thread, Transient(t)
  PROVE  ReplayInv'
<1>1. Active(call[t]) /\ call[t].stage = "post" /\ UNCHANGED started
  BY DEF Transient, At, Active
<1>2. PICK x \in Call : x = call[t] /\ Shaped(x, started)
  BY <1>1, Locals
<1>3. CASE x.attempt < MaxRetries
  <2>1. PICK i : i = x.attempt + 1
    OBVIOUS
  <2>2. i \in 0..MaxRetries
    BY <1>3, <2>1, JobsAssumption DEF Call
  <2>3. PICK c : c = [x EXCEPT !.attempt = i] /\ Goes(t, c) /\ UNCHANGED rows
    BY <1>2, <1>3, <2>1 DEF Transient, TriesAgain
  <2>4. /\ c \in Call /\ SameReplay(x, c) /\ c.stage = "post" /\ c.posts = x.posts
        /\ c.seen = x.seen
    BY <1>1, <1>2, <2>2, <2>3 DEF Call, SameReplay
  <2>5. x.posts > 0
    BY <1>1, <1>2 DEF Shaped
  <2> QED
    BY <1>1, <1>2, <2>3, <2>4, <2>5, GoesOnKeeps
<1>4. CASE ~(x.attempt < MaxRetries)
  <2>1. PICK cause \in ErrorText : Raises(t, cause)
    BY <1>2, <1>4 DEF Transient, TriesAgain
  <2> QED
    BY <1>1, <2>1, RaisesKeeps DEF At
<1> QED
  BY <1>3, <1>4

LEMMA RejectedKeeps ==
  ASSUME ReplayInv, NEW t \in Thread, Rejected(t)
  PROVE  ReplayInv'
BY RaisesKeeps DEF Rejected

LEMMA BuildKeeps ==
  ASSUME ReplayInv, NEW t \in Thread, Build(t)
  PROVE  ReplayInv'
<1>1. Active(call[t]) /\ call[t].stage = "build" /\ call[t].stage # "idle"
  BY DEF Build, At, Active
<1>2. PICK x \in Call : x = call[t]
  BY <1>1, Locals
<1>3. PICK n \in 0..MaxClusters :
        Goes(t, [x EXCEPT !.posts = 2 * n,
               !.stage = IF n = 0 THEN AfterBuild(x.job.kind) ELSE "post"])
  <2>1. (0..IF Stored(t) = {} THEN 0 ELSE MaxClusters) \subseteq 0..MaxClusters
    BY JobsAssumption
  <2> QED
    BY <1>2, <2>1 DEF Build, JobOf
<1>4. PICK p, stage : p = 2 * n /\ stage = IF n = 0 THEN AfterBuild(x.job.kind) ELSE "post"
  OBVIOUS
<1>5. p \in 0..2 * MaxClusters + 1 /\ (n # 0 => p > 0)
  BY <1>4, JobsAssumption
<1>6. stage \in {"retrieve", "reply", "flat", "post"} /\ (stage = "post" => n # 0)
  BY <1>4 DEF AfterBuild
<1>7. PICK c : c = [x EXCEPT !.posts = p, !.stage = stage] /\ Goes(t, c)
  BY <1>3, <1>4
<1>8. /\ c \in Call /\ SameReplay(x, c) /\ c.stage = stage /\ c.posts = p /\ c.seen = x.seen
  BY <1>5, <1>6, <1>7 DEF Call, Stage, SameReplay
<1> QED
  BY <1>1, <1>2, <1>5, <1>6, <1>7, <1>8, GoesOnKeeps DEF Build

LEMMA FlatKeeps ==
  ASSUME ReplayInv, NEW t \in Thread, Flat(t)
  PROVE  ReplayInv'
<1>1. /\ Active(call[t]) /\ call[t].stage = "flat" /\ call[t].stage # "idle"
      /\ Stored(t) = StoredOf(call[t], rows) /\ rows \subseteq Memory
  BY CallFacts DEF Flat, At, Active, ReplayInv, TypeOK
<1>2. PICK x \in Call : x = call[t]
  BY <1>1, Locals
<1>3. PICK S : S = StoredOf(x, rows) /\ S \in SUBSET Memory
  BY <1>1 DEF StoredOf
<1>4. PICK c : c = [x EXCEPT !.seen = {S}, !.stage = "retrieve"] /\ Goes(t, c)
  BY <1>1, <1>2, <1>3 DEF Flat
<1>5. c \in Call /\ SameReplay(x, c) /\ c.stage = "retrieve" /\ c.seen = {S}
  BY <1>3, <1>4 DEF Call, Stage, SameReplay
<1> QED
  BY <1>1, <1>2, <1>3, <1>4, <1>5, GoesOnKeeps DEF Flat

LEMMA RetrieveKeeps ==
  ASSUME ReplayInv, NEW t \in Thread, Retrieve(t)
  PROVE  ReplayInv'
<1>1. /\ Active(call[t]) /\ call[t].stage = "retrieve" /\ call[t].stage # "idle"
      /\ Stored(t) = StoredOf(call[t], rows) /\ rows \subseteq Memory
  BY CallFacts DEF Retrieve, At, Active, ReplayInv, TypeOK
<1>2. PICK x \in Call : x = call[t]
  BY <1>1, Locals
<1>3. PICK S, seen : /\ S = StoredOf(x, rows) /\ S \in SUBSET Memory
                     /\ seen = x.seen \cup {S}
  BY <1>1 DEF StoredOf
<1>4. seen \in SUBSET SUBSET Memory /\ 1 \in 0..2 * MaxClusters + 1
  BY <1>3, JobsAssumption DEF Call
<1>5. CASE Goes(t, [x EXCEPT !.seen = seen, !.posts = 1, !.stage = "post"])
  <2>1. PICK c : c = [x EXCEPT !.seen = seen, !.posts = 1, !.stage = "post"] /\ Goes(t, c)
    BY <1>5
  <2>2. /\ c \in Call /\ SameReplay(x, c) /\ c.stage = "post" /\ c.posts = 1 /\ c.seen = seen
    BY <1>4, <2>1 DEF Call, Stage, SameReplay
  <2>3. /\ c.stage \in {"build", "post", "flat", "retrieve", "reply"} /\ c.posts > 0
        /\ \A view \in c.seen : view \in call[t].seen \/ view = StoredOf(call[t], rows)
        /\ SameReplay(call[t], c) /\ call[t].stage # "write" /\ UNCHANGED <<rows, started>>
    BY <1>1, <1>2, <1>3, <2>2 DEF Retrieve
  <2> QED
    BY <1>1, <2>1, <2>2, <2>3, GoesOnKeeps
<1>6. CASE Goes(t, [x EXCEPT !.seen = seen, !.stage = "reply"])
  <2>1. PICK c : c = [x EXCEPT !.seen = seen, !.stage = "reply"] /\ Goes(t, c)
    BY <1>6
  <2>2. c \in Call /\ SameReplay(x, c) /\ c.stage = "reply" /\ c.seen = seen
    BY <1>4, <2>1 DEF Call, Stage, SameReplay
  <2> QED
    BY <1>1, <1>2, <1>3, <2>1, <2>2, GoesOnKeeps DEF Retrieve
<1> QED
  BY <1>1, <1>2, <1>3, <1>5, <1>6 DEF Retrieve

LEMMA ReplyKeeps ==
  ASSUME ReplayInv, NEW t \in Thread, Reply(t)
  PROVE  ReplayInv'
<1>1. /\ Active(call[t]) /\ call[t].stage = "reply" /\ call[t].stage # "idle"
      /\ Stored(t) = StoredOf(call[t], rows) /\ rows \subseteq Memory
  BY CallFacts DEF Reply, At, Active, ReplayInv, TypeOK
<1>2. PICK x \in Call : x = call[t]
  BY <1>1, Locals
<1>3. PICK S, seen : /\ S = StoredOf(x, rows) /\ S \in SUBSET Memory
                     /\ seen = IF x.job.kind \in {"seed", "graph"} THEN {S} ELSE x.seen
  BY <1>1 DEF StoredOf
<1>4. seen \in SUBSET SUBSET Memory /\ \A view \in seen : view \in x.seen \/ view = S
  BY <1>3 DEF Call
<1>5. PICK y : y = [x EXCEPT !.seen = seen]
  OBVIOUS
<1>6. /\ y \in Call /\ SameReplay(x, y) /\ y.stage = "reply" /\ y.seen = seen
      /\ y.number = x.number /\ Active(y)
  BY <1>1, <1>2, <1>4, <1>5 DEF Call, SameReplay, Active
<1>7. Records(t, y, "done", "none") /\ UNCHANGED started
  BY <1>1, <1>2, <1>3, <1>5 DEF Reply, JobOf
<1>8. CallInv(y, rows, started)
  <2>1. PICK s, R : s = started /\ R = rows
    OBVIOUS
  <2>2. CallInv(x, R, s) /\ s \in Nat /\ R \in SUBSET Memory /\ Active(x) /\ x.stage # "write"
    BY <1>1, <1>2, <2>1, Locals
  <2>3. CallInv(y, R, s)
    BY <1>3, <1>4, <1>6, <2>1, <2>2, GoesOn
  <2> QED
    BY <2>1, <2>3
<1> QED
  BY <1>1, <1>2, <1>6, <1>7, <1>8, RecordsKeeps

LEMMA AnsweredKeeps ==
  ASSUME ReplayInv, NEW t \in Thread, Answered(t)
  PROVE  ReplayInv'
<1>1. /\ Active(call[t]) /\ call[t].stage = "post" /\ call[t].stage # "idle"
      /\ rows \subseteq Memory /\ UNCHANGED started
  BY DEF Answered, At, Active, ReplayInv, TypeOK
<1>2. PICK x \in Call : x = call[t] /\ Shaped(x, started)
  BY <1>1, Locals
<1>3. PICK p, stage, c :
        /\ p = x.posts - 1
        /\ stage = IF x.posts > 1 THEN "post"
                   ELSE IF Building(t) THEN AfterBuild(x.job.kind) ELSE "reply"
        /\ c = [x EXCEPT !.posts = p, !.attempt = 0, !.stage = stage]
  OBVIOUS
<1>4. /\ x.posts > 0 /\ p \in 0..2 * MaxClusters + 1 /\ 0 \in 0..MaxRetries
      /\ (x.posts > 1 => p > 0)
  <2>1. x.posts > 0
    BY <1>1, <1>2 DEF Shaped
  <2>2. x.posts \in 0..2 * MaxClusters + 1
    BY DEF Call
  <2>3. MaxClusters \in Nat /\ MaxRetries \in Nat
    BY JobsAssumption
  <2> QED
    BY <1>3, <2>1, <2>2, <2>3
<1>5. stage \in {"post", "retrieve", "reply", "flat"} /\ (stage = "post" => p > 0)
  BY <1>3, <1>4 DEF AfterBuild
<1>6. /\ c \in Call /\ SameReplay(x, c) /\ c.stage = stage /\ c.posts = p /\ c.seen = x.seen
  <2>1. stage \in Stage
    BY <1>5 DEF Stage
  <2>2. c = [x EXCEPT !.posts = p, !.attempt = 0, !.stage = stage]
    BY <1>3
  <2>3. p \in 0..2 * MaxClusters + 1 /\ 0 \in 0..MaxRetries
    BY <1>4
  <2> HIDE <1>3, <1>4, <1>5
  <2>4. c \in Call
    BY <2>1, <2>2, <2>3 DEF Call
  <2>5. SameReplay(x, c) /\ c.stage = stage /\ c.posts = p /\ c.seen = x.seen
    BY <2>2 DEF Call, SameReplay
  <2> QED
    BY <2>4, <2>5
<1>7. \/ rows' = rows \cup {Row(t, 0)} /\ Touches(t, c, FALSE)
      \/ Goes(t, c) /\ UNCHANGED rows
  BY <1>2, <1>3 DEF Answered, JobOf
<1>8. CASE Goes(t, c) /\ UNCHANGED rows
  BY <1>1, <1>2, <1>5, <1>6, <1>8, GoesOnKeeps
<1>9. CASE rows' = rows \cup {Row(t, 0)} /\ Touches(t, c, FALSE)
  <2>1. PICK s, R : s = started /\ R = rows
    OBVIOUS
  <2>2. CallInv(x, R, s) /\ s \in Nat /\ R \in SUBSET Memory /\ Active(x) /\ x.stage # "write"
    BY <1>1, <1>2, <2>1, Locals
  <2>3. CallInv(c, R, s)
    <3>1. /\ c.stage \in {"build", "post", "flat", "retrieve", "reply"}
          /\ c.stage = "post" => c.posts > 0
          /\ \A view \in c.seen : view \in x.seen \/ view = StoredOf(x, R)
      BY <1>5, <1>6
    <3> QED
      BY <1>6, <2>2, <3>1, GoesOn
  <2>4. c.at \in Int /\ c.stage \notin {"list", "clear"}
    BY <1>5, <1>6, IndexNumbers DEF Call
  <2>5. CallInv(c, R \cup {RowOf(c, 0)}, s)
    BY <2>3, <2>4, OwnSummary
  <2>6. RowOf(c, 0) = RowOf(x, 0) /\ c.number = x.number
    BY <1>6, SameReplayFacts DEF SameReplay
  <2> QED
    BY <1>1, <1>2, <1>6, <1>9, <2>1, <2>5, <2>6, RowStep
<1> QED
  BY <1>7, <1>8, <1>9

-----------------------------------------------------------------------------
(* What a replay writes: the numbers of its events, each at least once. *)
Within(q, B) == \A k \in DOMAIN q : q[k] \in B
Covers(q, B) == \A b \in B : \E k \in DOMAIN q : q[k] = b

LEMMA UptoFacts ==
  ASSUME NEW a \in Nat, NEW b \in Int
  PROVE  /\ Upto(a, b) \in Seq(Nat)
         /\ Len(Upto(a, b)) = (IF a < b THEN b - a ELSE 0)
         /\ DOMAIN Upto(a, b) = 1..Len(Upto(a, b))
         /\ \A k \in 1..b - a : Upto(a, b)[k] = a + k
         /\ Within(Upto(a, b), a + 1..b)
<1>1. PICK n \in Nat : n = (IF a < b THEN b - a ELSE 0) /\ 1..b - a = 1..n
  <2>1. CASE a < b
    <3>1. b - a \in Nat
      BY <2>1
    <3> QED
      BY <2>1, <3>1
  <2>2. CASE ~(a < b)
    <3>1. \A i \in 1..b - a : FALSE
      BY <2>2
    <3>2. 1..b - a = 1..0
      BY <3>1
    <3> QED
      BY <2>2, <3>2
  <2> QED
    BY <2>1, <2>2
<1>2. PICK q : q = Upto(a, b) /\ q = [i \in 1..n |-> a + i]
  BY <1>1 DEF Upto
<1>3. q \in Seq(Nat) /\ Len(q) = n /\ DOMAIN q = 1..n
  BY <1>2
<1>4. \A k \in 1..n : q[k] = a + k /\ a + k \in a + 1..b
  BY <1>1, <1>2
<1> QED
  BY <1>1, <1>2, <1>3, <1>4 DEF Within

LEMMA ConcatFacts ==
  ASSUME NEW B, NEW p \in Seq(Nat), NEW q \in Seq(Nat), Within(p, B), Within(q, B)
  PROVE  p \o q \in Seq(Nat) /\ Within(p \o q, B) /\ (Covers(q, B) => Covers(p \o q, B))
<1>1. /\ p \o q \in Seq(Nat) /\ Len(p \o q) = Len(p) + Len(q)
      /\ Len(p) \in Nat /\ Len(q) \in Nat
      /\ DOMAIN p = 1..Len(p) /\ DOMAIN q = 1..Len(q) /\ DOMAIN (p \o q) = 1..Len(p) + Len(q)
  OBVIOUS
<1>2. \A k \in 1..Len(p) + Len(q) : (p \o q)[k] = IF k <= Len(p) THEN p[k] ELSE q[k - Len(p)]
  BY <1>1
<1>3. ASSUME NEW m \in Nat, NEW n \in Nat, NEW k \in 1..m + n
      PROVE  k \in 1..m \/ (~(k <= m) /\ k - m \in 1..n)
  OBVIOUS
<1>4. Within(p \o q, B)
  BY <1>1, <1>2, <1>3 DEF Within
<1>5. ASSUME NEW m \in Nat, NEW n \in Nat, NEW k \in 1..n
      PROVE  m + k \in 1..m + n /\ ~(m + k <= m) /\ (m + k) - m = k
  OBVIOUS
<1>6. \A k \in 1..Len(q) : Len(p) + k \in 1..Len(p) + Len(q) /\ (p \o q)[Len(p) + k] = q[k]
  BY <1>1, <1>2, <1>5
<1>7. Covers(q, B) => Covers(p \o q, B)
  BY <1>1, <1>6 DEF Covers
<1> QED
  BY <1>1, <1>4, <1>7

LEMMA WritesFacts ==
  ASSUME NEW t \in Thread, NEW x, x = call[t], x.job \in Job, x.at \in 1..Replays(x.job),
         ScenarioOf(x).events # NoEvents
  PROVE  /\ Writes(t) \in Seq(Nat)
         /\ Within(Writes(t), DOMAIN ScenarioOf(x).events)
         /\ Covers(Writes(t), DOMAIN ScenarioOf(x).events)
<1>0. ScenarioOf(x) = ScenarioAt(JobOf(t), call[t].at) /\ x.job = JobOf(t)
  BY DEF ScenarioOf, JobOf
<1>1. PICK n \in Nat : n = Len(ScenarioOf(x).events) /\ DOMAIN ScenarioOf(x).events = 1..n
  BY EventsListed DEF ScenarioOf
<1>2. PICK all : all = Upto(0, n)
  OBVIOUS
<1>3. /\ all \in Seq(Nat) /\ Within(all, 1..n) /\ Covers(all, 1..n) /\ Len(all) = n
  <2>1. /\ all \in Seq(Nat) /\ Len(all) = (IF 0 < n THEN n - 0 ELSE 0)
        /\ DOMAIN all = 1..Len(all) /\ \A k \in 1..n - 0 : all[k] = 0 + k
    <3>1. 0 \in Nat /\ n \in Int
      OBVIOUS
    <3> QED
      BY <1>2, <3>1, UptoFacts, Zenon
  <2>2. Len(all) = n /\ DOMAIN all = 1..n /\ \A k \in 1..n : all[k] = k
    BY <2>1
  <2> QED
    BY <2>1, <2>2 DEF Within, Covers
<1>4. CASE x.job.kind # "graph"
  BY <1>0, <1>1, <1>2, <1>3, <1>4 DEF Writes
<1>5. CASE x.job.kind = "graph"
  <2>1. Len(x.job.plan) = 1 /\ Len(x.job.variants) = 0
    BY <1>5, JobsAssumption
  <2>2. x.at = 1 /\ 1 \in 1..Len(x.job.plan)
    BY <2>1 DEF Replays
  <2>3. ScenarioOf(x).summaries \in Nat
    BY <2>2, PlannedScenario DEF ScenarioOf, Scenario
  <2>a. PICK k \in Int : k = n - ScenarioOf(x).summaries /\ k <= n
    BY <2>3
  <2>b. PICK leaves : leaves = Upto(0, k)
    OBVIOUS
  <2>4. k = n - ScenarioOf(x).summaries /\ leaves = Upto(0, k) /\ k <= n
    BY <2>a, <2>b
  <2>5. leaves \in Seq(Nat) /\ Within(leaves, 1..n) /\ Len(leaves) \in Nat /\ Len(leaves) <= n
    <3>1. /\ leaves \in Seq(Nat) /\ Within(leaves, 0 + 1..k)
          /\ Len(leaves) = (IF 0 < k THEN k - 0 ELSE 0)
      <4>1. 0 \in Nat
        OBVIOUS
      <4> QED
        BY <2>4, <4>1, UptoFacts, Zenon
    <3>2. 0 + 1..k \subseteq 1..n
      BY <2>4
    <3> QED
      BY <2>4, <3>1, <3>2 DEF Within
  <2>c. PICK l \in Nat : l = Len(leaves)
    BY <2>5
  <2>d. PICK rest : rest = Upto(l, n)
    OBVIOUS
  <2>6. l = Len(leaves) /\ rest = Upto(l, n)
    BY <2>c, <2>d
  <2>7. rest \in Seq(Nat) /\ Within(rest, 1..n)
    <3>1. rest \in Seq(Nat) /\ Within(rest, l + 1..n)
      <4>1. n \in Int
        OBVIOUS
      <4> QED
        BY <2>6, <4>1, UptoFacts, Zenon
    <3>2. l + 1..n \subseteq 1..n
      BY <2>6
    <3> QED
      BY <3>1, <3>2 DEF Within
  <2>8. Writes(t) = leaves \o leaves \o rest \o all
    BY <1>0, <1>1, <1>2, <1>3, <1>5, <2>4, <2>6 DEF Writes
  <2>9. leaves \o leaves \in Seq(Nat) /\ Within(leaves \o leaves, 1..n)
    BY <2>5, ConcatFacts
  <2>10. leaves \o leaves \o rest \in Seq(Nat) /\ Within(leaves \o leaves \o rest, 1..n)
    BY <2>7, <2>9, ConcatFacts
  <2> QED
    BY <1>1, <1>3, <2>8, <2>10, ConcatFacts
<1> QED
  BY <1>4, <1>5

(* The locals after a row is written, and after the replay begins. *)
LEMMA WritingFacts ==
  ASSUME NEW t \in Thread, NEW x \in Call, x = call[t], NEW todo \in Seq(Nat), NEW c,
         c = Writing(t, todo)
  PROVE  /\ c \in Call /\ SameReplay(x, c) /\ c.todo = todo /\ c.seen = x.seen
         /\ c.stage \in {"write", "reply", "build"} /\ (c.stage = "write" <=> todo # <<>>)
<1>1. PICK stage : stage = IF todo # <<>> THEN "write"
                           ELSE IF x.job.kind = "graph" THEN "reply" ELSE "build"
  OBVIOUS
<1>2. c = [x EXCEPT !.todo = todo, !.stage = stage]
  BY <1>1 DEF Writing, JobOf
<1>3. stage \in {"write", "reply", "build"} /\ (stage = "write" <=> todo # <<>>)
  BY <1>1
<1>4. stage \in Stage
  BY <1>3 DEF Stage
<1>5. c \in Call
  BY <1>2, <1>4 DEF Call
<1>6. SameReplay(x, c) /\ c.todo = todo /\ c.seen = x.seen /\ c.stage = stage
  BY <1>2 DEF Call, SameReplay
<1> QED
  BY <1>3, <1>5, <1>6

LEMMA WritesOn ==
  ASSUME NEW s, NEW c \in Call, NEW R,
         c.job \in Job, c.number \in 1..s, c.at \in 1..Replays(c.job),
         ScenarioOf(c).events # NoEvents, Within(c.todo, DOMAIN ScenarioOf(c).events),
         c.stage \in {"write", "reply", "build"}, c.stage = "write" <=> c.todo # <<>>,
         Len(c.results) = c.at - 1, Measured(c), Grounded(c, R),
         \A i \in DOMAIN c.results :
           /\ c.results[i].at = i
           /\ c.results[i].status = "skipped" =>
                c.job.kind = "candidate" /\ c.results[i].cause = "refused"
  PROVE  CallInv(c, R, s)
<1>1. Shaped(c, s)
  BY DEF Shaped, Within
<1>2. Reported(c)
  BY DEF Reported
<1> QED
  BY <1>1, <1>2 DEF CallInv

LEMMA ResultsAlike ==
  ASSUME NEW x, NEW c, c.job = x.job, c.number = x.number
  PROVE  \A r : ResultOK(c, r) <=> ResultOK(x, r)
<1>1. \A r : Own(c, r) = Own(x, r)
  BY DEF Own
<1> QED
  BY <1>1 DEF ResultOK, ViewOK

LEMMA BeginKeeps ==
  ASSUME ReplayInv, NEW t \in Thread, Begin(t)
  PROVE  ReplayInv'
<1>0. PICK x, s, R : x = call[t] /\ s = started /\ R = rows
  OBVIOUS
<1>1. /\ x.stage = "begin" /\ call[t].stage # "idle" /\ UNCHANGED started
      /\ R \in SUBSET Memory /\ RowsSound(R, s) /\ Stored(t) = StoredOf(x, R)
      /\ ScenarioOf(x) = ScenarioAt(JobOf(t), call[t].at)
  BY <1>0, CallFacts DEF Begin, At, ReplayInv, TypeOK, ScenarioOf, JobOf
<1>2. x \in Call /\ CallInv(x, R, s) /\ s \in Nat /\ s <= MaxJobs
  BY <1>0, <1>1, Locals
<1>3. /\ x.job \in Job /\ x.number \in 1..s /\ x.at \in 1..Replays(x.job) /\ x.seen = {}
      /\ Len(x.results) = x.at - 1
  BY <1>1, <1>2 DEF CallInv, Shaped, Reported
<1>4. CASE ScenarioOf(x).events = NoEvents
  BY <1>0, <1>1, <1>4, FailsKeeps DEF Begin
<1>5. CASE ScenarioOf(x).events # NoEvents
  <2>1. PICK F, todo, z, c :
          /\ F = {m.job : m \in StoredOf(x, R)} \ {x.number}
          /\ todo = Writes(t) /\ z = Writing(t, todo)
          /\ c = [z EXCEPT !.foreign = F] /\ Goes(t, c) /\ UNCHANGED rows
    BY <1>0, <1>1, <1>5 DEF Begin
  <2>2. /\ todo \in Seq(Nat) /\ Within(todo, DOMAIN ScenarioOf(x).events)
        /\ Covers(todo, DOMAIN ScenarioOf(x).events)
    BY <1>0, <1>3, <1>5, <2>1, WritesFacts
  <2>3. /\ z \in Call /\ SameReplay(x, z) /\ z.todo = todo /\ z.seen = x.seen
        /\ z.stage \in {"write", "reply", "build"} /\ (z.stage = "write" <=> todo # <<>>)
    BY <1>0, <1>2, <2>1, <2>2, WritingFacts
  <2>4. F \in SUBSET (1..MaxJobs)
    BY <1>1, <2>1 DEF StoredOf, Memory
  <2>5. c \in Call /\ c.foreign = F
    BY <2>1, <2>3, <2>4 DEF Call
  <2>6. /\ c.job = x.job /\ c.number = x.number /\ c.at = x.at /\ c.cleared = x.cleared
        /\ c.results = x.results /\ c.todo = todo /\ c.seen = {} /\ c.stage = z.stage
    BY <1>3, <2>1, <2>3 DEF Call, SameReplay
  <2>7. /\ ScenarioOf(c) = ScenarioOf(x) /\ DbOf(c) = DbOf(x)
        /\ StoredOf(c, R) = StoredOf(x, R)
    BY <2>6 DEF ScenarioOf, DbOf, StoredOf
  <2>8. Measured(c)
    <3>1. c.job.kind = "candidate" => F = {}
      BY <1>1, <1>3, <2>1, <2>6 DEF StoredOf, RowsSound, DbOf
    <3>2. \A r : ResultOK(c, r) <=> ResultOK(x, r)
      BY <2>6, ResultsAlike
    <3> QED
      BY <1>2, <2>5, <2>6, <3>1, <3>2 DEF CallInv, Measured
  <2>9. Kept(c, R)
    <3>1. ASSUME NEW n \in DOMAIN ScenarioOf(c).events
          PROVE  c.stage = "write" /\ \E k \in DOMAIN c.todo : c.todo[k] = n
      <4>1. PICK k \in DOMAIN todo : todo[k] = n
        BY <2>2, <2>7 DEF Covers
      <4>2. todo # <<>>
        BY <4>1
      <4> QED
        BY <2>3, <2>6, <4>1, <4>2
    <3> QED
      BY <3>1 DEF Kept
  <2>10. Accounted(c, R)
    BY <2>1, <2>5, <2>6, <2>7 DEF Accounted
  <2>11. Planned(c, R)
    BY <1>1, <1>2, <2>3, <2>6 DEF CallInv, Grounded, Planned
  <2>12. CallInv(c, R, s)
    <3>1. \A i \in DOMAIN c.results :
            /\ c.results[i].at = i
            /\ c.results[i].status = "skipped" =>
                 c.job.kind = "candidate" /\ c.results[i].cause = "refused"
      BY <1>2, <2>6 DEF CallInv, Reported
    <3>2. /\ c.job \in Job /\ c.number \in 1..s /\ c.at \in 1..Replays(c.job)
          /\ ScenarioOf(c).events # NoEvents /\ Within(c.todo, DOMAIN ScenarioOf(c).events)
          /\ c.stage \in {"write", "reply", "build"} /\ (c.stage = "write" <=> c.todo # <<>>)
          /\ Len(c.results) = c.at - 1
      BY <1>3, <1>5, <2>2, <2>3, <2>6, <2>7
    <3> QED
      BY <2>5, <2>8, <2>9, <2>10, <2>11, <3>1, <3>2, WritesOn DEF Grounded
  <2> QED
    BY <1>0, <1>1, <2>1, <2>5, <2>6, <2>12, QuietStep
<1> QED
  BY <1>4, <1>5

LEMMA TailFacts ==
  ASSUME NEW q \in Seq(Nat), q # <<>>
  PROVE  /\ Head(q) = q[1] /\ 1 \in DOMAIN q /\ Head(q) \in Nat /\ Tail(q) \in Seq(Nat)
         /\ \A i \in DOMAIN Tail(q) : i + 1 \in DOMAIN q /\ Tail(q)[i] = q[i + 1]
         /\ \A i \in DOMAIN q : i = 1 \/ (i - 1 \in DOMAIN Tail(q) /\ Tail(q)[i - 1] = q[i])
<1>1. /\ Len(q) \in Nat /\ Len(q) > 0 /\ DOMAIN q = 1..Len(q)
      /\ Tail(q) \in Seq(Nat) /\ Len(Tail(q)) = Len(q) - 1 /\ DOMAIN Tail(q) = 1..Len(q) - 1
      /\ Head(q) = q[1]
  OBVIOUS
<1>2. \A i \in 1..Len(q) - 1 : Tail(q)[i] = q[i + 1]
  BY <1>1
<1>3. ASSUME NEW n \in Nat, n > 0
      PROVE  /\ 1 \in 1..n /\ \A i \in 1..n - 1 : i + 1 \in 1..n
             /\ \A i \in 1..n : i = 1 \/ (i - 1 \in 1..n - 1 /\ (i - 1) + 1 = i)
  BY <1>3
<1>4. q[1] \in Nat
  BY <1>1, <1>3
<1>5. /\ 1 \in 1..Len(q) /\ \A i \in 1..Len(q) - 1 : i + 1 \in 1..Len(q)
      /\ \A i \in 1..Len(q) : i = 1 \/ (i - 1 \in 1..Len(q) - 1 /\ (i - 1) + 1 = i)
  BY <1>1, <1>3
<1> QED
  BY <1>1, <1>2, <1>4, <1>5

LEMMA WriteKeeps ==
  ASSUME ReplayInv, NEW t \in Thread, Write(t)
  PROVE  ReplayInv'
<1>0. PICK x, s, R : x = call[t] /\ s = started /\ R = rows
  OBVIOUS
<1>1. x.stage = "write" /\ call[t].stage # "idle" /\ Active(x) /\ R \in SUBSET Memory
  BY <1>0 DEF Write, At, Active, ReplayInv, TypeOK
<1>2. x \in Call /\ CallInv(x, R, s) /\ s \in Nat /\ s <= MaxJobs
  BY <1>0, <1>1, Locals
<1>3. /\ x.job \in Job /\ x.number \in 1..s /\ x.at \in 1..Replays(x.job) /\ x.at \in Nat
      /\ Len(x.results) = x.at - 1 /\ ScenarioOf(x).events # NoEvents
      /\ x.todo \in Seq(Nat) /\ x.todo # <<>> /\ Within(x.todo, DOMAIN ScenarioOf(x).events)
  BY <1>1, <1>2 DEF CallInv, Shaped, Reported, Within, Call
<1>4. PICK q, n, rest, c : /\ q = x.todo /\ n = Head(q) /\ rest = Tail(q)
                           /\ c = Writing(t, rest)
  OBVIOUS
<1>5. rows' = rows \cup {Row(t, n)} /\ Touches(t, c, FALSE) /\ UNCHANGED started
  BY <1>0, <1>4 DEF Write
<1>6. /\ n = q[1] /\ 1 \in DOMAIN q /\ n \in Nat /\ rest \in Seq(Nat)
      /\ \A i \in DOMAIN rest : i + 1 \in DOMAIN q /\ rest[i] = q[i + 1]
      /\ \A i \in DOMAIN q : i = 1 \/ (i - 1 \in DOMAIN rest /\ rest[i - 1] = q[i])
  <2>1. q \in Seq(Nat) /\ q # <<>>
    BY <1>3, <1>4
  <2>2. /\ Head(q) = q[1] /\ 1 \in DOMAIN q /\ Head(q) \in Nat /\ Tail(q) \in Seq(Nat)
        /\ \A i \in DOMAIN Tail(q) : i + 1 \in DOMAIN q /\ Tail(q)[i] = q[i + 1]
        /\ \A i \in DOMAIN q : i = 1 \/ (i - 1 \in DOMAIN Tail(q) /\ Tail(q)[i - 1] = q[i])
    BY <2>1, TailFacts
  <2> QED
    BY <1>4, <2>2
<1>7. /\ c \in Call /\ SameReplay(x, c) /\ c.todo = rest /\ c.seen = x.seen
      /\ c.stage \in {"write", "reply", "build"} /\ (c.stage = "write" <=> rest # <<>>)
  <2>1. x \in Call /\ x = call[t] /\ rest \in Seq(Nat) /\ c = Writing(t, rest)
    BY <1>0, <1>2, <1>4, <1>6
  <2> QED
    BY <2>1, WritingFacts
<1>8. PICK S, m : S = R \cup {m} /\ m = RowOf(x, n)
  OBVIOUS
<1>9. /\ DbOf(c) = DbOf(x) /\ ScenarioOf(c) = ScenarioOf(x)
      /\ \A k : RowOf(c, k) = RowOf(x, k)
      /\ \A view : ViewOK(c, c, view) <=> ViewOK(x, x, view)
      /\ \A r : ResultOK(c, r) <=> ResultOK(x, r)
  BY <1>7, SameReplayFacts
<1>10. /\ c.job = x.job /\ c.number = x.number /\ c.at = x.at
       /\ c.foreign = x.foreign /\ c.cleared = x.cleared /\ c.results = x.results
  BY <1>7 DEF SameReplay
<1>11. Measured(c)
  BY <1>1, <1>2, <1>7, <1>9, <1>10 DEF CallInv, Measured
<1>12. Kept(c, S)
  <2>1. ASSUME ~x.cleared, NEW e \in DOMAIN ScenarioOf(x).events
        PROVE  RowOf(x, e) \in S \/ (c.stage = "write" /\ \E k \in DOMAIN rest : rest[k] = e)
    <3>1. RowOf(x, e) \in R \/ \E k \in DOMAIN q : q[k] = e
      BY <1>1, <1>2, <1>4, <2>1 DEF CallInv, Grounded, Kept
    <3>2. ASSUME NEW k \in DOMAIN q, q[k] = e, k # 1
          PROVE  c.stage = "write" /\ \E l \in DOMAIN rest : rest[l] = e
      <4>1. k - 1 \in DOMAIN rest /\ rest[k - 1] = e
        BY <1>6, <3>2
      <4>2. rest # <<>>
        BY <4>1
      <4> QED
        BY <1>7, <4>1, <4>2
    <3>3. ASSUME q[1] = e PROVE RowOf(x, e) \in S
      BY <1>6, <1>8, <3>3
    <3> QED
      BY <1>8, <3>1, <3>2, <3>3
  <2> QED
    BY <1>7, <1>9, <1>10, <2>1 DEF Kept
<1>13. Accounted(c, S)
  <2>1. m.job = x.number
    BY <1>8 DEF RowOf
  <2>2. \A e \in StoredOf(x, R) : e.job \in x.foreign \cup {x.number}
    BY <1>1, <1>2 DEF CallInv, Grounded, Accounted
  <2> QED
    BY <1>8, <1>9, <1>10, <2>1, <2>2 DEF Accounted, StoredOf
<1>14. Planned(c, S)
  <2>1. /\ m.at = x.at /\ m.n = n /\ m.agent = ScenarioAt(x.job, m.at).agent
        /\ n \in DOMAIN ScenarioAt(x.job, m.at).events
    BY <1>3, <1>4, <1>6, <1>8 DEF RowOf, ScenarioOf, Within
  <2> QED
    BY <1>1, <1>2, <1>3, <1>7, <1>8, <1>10, <2>1 DEF CallInv, Grounded, Planned
<1>15. CallInv(c, S, s)
  <2>1. \A i \in DOMAIN c.results :
          /\ c.results[i].at = i
          /\ c.results[i].status = "skipped" =>
               c.job.kind = "candidate" /\ c.results[i].cause = "refused"
    BY <1>2, <1>10 DEF CallInv, Reported
  <2>2. Within(c.todo, DOMAIN ScenarioOf(c).events)
    <3>1. \A i \in DOMAIN q : q[i] \in DOMAIN ScenarioOf(x).events
      BY <1>3, <1>4 DEF Within
    <3>2. \A i \in DOMAIN rest : rest[i] \in DOMAIN ScenarioOf(x).events
      BY <1>6, <3>1
    <3> QED
      BY <1>7, <1>9, <3>2 DEF Within
  <2>3. /\ c.job \in Job /\ c.number \in 1..s /\ c.at \in 1..Replays(c.job)
        /\ ScenarioOf(c).events # NoEvents /\ (c.stage = "write" <=> c.todo # <<>>)
        /\ Len(c.results) = c.at - 1
    BY <1>3, <1>7, <1>9, <1>10
  <2> QED
    BY <1>7, <1>11, <1>12, <1>13, <1>14, <2>1, <2>2, <2>3, WritesOn DEF Grounded
<1> QED
  BY <1>0, <1>1, <1>5, <1>6, <1>7, <1>8, <1>10, <1>15, RowStep

-----------------------------------------------------------------------------
LEMMA ReplayInvInit == Init => ReplayInv
<1> SUFFICES ASSUME Init PROVE ReplayInv
  OBVIOUS
<1>1. PICK c : c = [job |-> NoJob, number |-> 0, stage |-> "idle", at |-> 1, todo |-> <<>>,
                    posts |-> 0, attempt |-> 0, seen |-> {}, foreign |-> {}, cleared |-> FALSE,
                    results |-> <<>>]
  OBVIOUS
<1>2. c \in Call
  <2>1. 1 \in Index /\ <<>> \in Seq(Nat) /\ <<>> \in Seq(Result)
        /\ 0 \in 0..2 * MaxClusters + 1 /\ 0 \in 0..MaxRetries /\ 0 \in 0..MaxJobs
    BY JobsAssumption DEF Index
  <2> QED
    BY <1>1, <2>1 DEF Call, Stage
<1>3. rows = {} /\ started = 0 /\ \A t \in Thread : call[t] = c
  BY <1>1 DEF Init, NewCall
<1>4. TypeOK
  BY <1>1, <1>2, <1>3, JobsAssumption DEF Init, NewCall, TypeOK
<1>5. CallInv(c, {}, 0)
  <2>1. c.stage = "idle" /\ c.results = <<>> /\ c.seen = {} /\ ~Active(c)
    BY <1>1 DEF Active
  <2> QED
    BY <2>1 DEF CallInv, Shaped, Reported, Measured, Grounded, Kept, Accounted, Planned
<1>6. NumbersDiffer
  BY <1>1, <1>3 DEF NumbersDiffer
<1> QED
  BY <1>3, <1>4, <1>5, <1>6 DEF ReplayInv, RowsSound

LEMMA ReplayInvStep == ReplayInv /\ [Next]_vars => ReplayInv'
<1> SUFFICES ASSUME ReplayInv, [Next]_vars PROVE ReplayInv'
  OBVIOUS
<1>1. CASE UNCHANGED vars
  BY <1>1 DEF vars, ReplayInv, TypeOK, NumbersDiffer
<1>2. ASSUME NEW t \in Thread, Start(t) \/ Work(t) PROVE ReplayInv'
  BY <1>2, StartKeeps, ListKeeps, ClearKeeps, BeginKeeps, WriteKeeps, BuildKeeps,
     AnsweredKeeps, TransientKeeps, RejectedKeeps, FlatKeeps, RetrieveKeeps, ReplyKeeps
     DEF Work
<1> QED
  BY <1>1, <1>2 DEF Next

LEMMA ReplayInvariant == Spec => []ReplayInv
BY ReplayInvInit, ReplayInvStep, PTL DEF Spec

(* The locals of a job stay in their types: what is retried never exceeds the  *)
(* retries of the client, nor are there more model calls left than two per   *)
(* cluster and the answer.                                                  *)
THEOREM TypeCorrect == Spec => []TypeOK
BY ReplayInvariant, PTL DEF ReplayInv

(* A finished replay was measured on its own scenario: its result has seen all  *)
(* the events it wrote unless another job deleted them, and no others unless *)
(* another job touched the same agent.                                       *)
THEOREM MeasuredOnItsOwn == Spec => []OwnEventsOnly
<1>1. ReplayInv => OwnEventsOnly
  BY DEF ReplayInv, CallInv, Measured, ResultOK, ViewOK, OwnEventsOnly
<1> QED
  BY <1>1, ReplayInvariant, PTL

(* The report of a finished job leaves no scenario out, however the model calls *)
(* fare and whatever other jobs do.                                          *)
THEOREM NothingLeftOut == Spec => []ReportComplete
<1>1. ASSUME ReplayInv PROVE ReportComplete
  <2>1. ASSUME NEW t \in Thread
        PROVE  /\ call[t].stage = "done" =>
                    \/ \E i \in DOMAIN call[t].results : call[t].results[i].status = "present"
                    \/ Len(call[t].results) = Replays(call[t].job)
               /\ call[t].stage = "failed" => Len(call[t].results) = call[t].at - 1
               /\ \A i \in DOMAIN call[t].results :
                    /\ call[t].results[i].at = i
                    /\ call[t].results[i].status = "skipped" =>
                         call[t].job.kind = "candidate" /\ call[t].results[i].cause = "refused"
    BY <1>1, <2>1 DEF ReplayInv, CallInv, Reported
  <2> QED
    BY <2>1 DEF ReportComplete, At
<1> QED
  BY <1>1, ReplayInvariant, PTL

=============================================================================

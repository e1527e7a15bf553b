--------------------------- MODULE ScenarioReplay ---------------------------
(***************************************************************************)
(* What replays scenarios: the eval endpoints and run_selected (runner.py),  *)
(* counterfactual replay (counterfactual.py), a candidate of the frontier    *)
(* sweep (_evaluate_candidate, frontier.py), the benchmark seeding (seed.py)  *)
(* and the demo seeding (main.py).  Jobs overlap.  A replay observes the      *)
(* events of a scenario one by one, builds the summaries, which calls the    *)
(* model, and retrieves.  All jobs share the configured database; a          *)
(* candidate has a temporary one.                                            *)
(*                                                                          *)
(* What a build and a retrieval do is SummaryTree and BranchSelection.  Here  *)
(* a build is its model calls, two per cluster, and one kind of summary row; *)
(* a retrieval is the rows it reads.  Traces, eval records and the refresh at  *)
(* the end of run_scenario_instance, which only flags a summary, are left out. *)
(***************************************************************************)
EXTENDS Integers, SequencesExt

CONSTANTS
  Thread,      \* request threads and processes that run jobs
  Job,         \* the jobs that may be asked for
  NoJob, NoEvents,
  MaxJobs,     \* bound: jobs started
  MaxClusters, \* bound: clusters of a build
  MaxRetries   \* model_max_retries

Kind == {"candidate", "eval", "benchmark", "counterfactual", "seed", "graph"}

(* An agent_id is a list: that of a variant extends the one of its scenario.    *)
(* Of the events of the demo graph the last `summaries` are summaries.        *)
Event == [text : STRING, day : Int, weight : Int]
Scenario == [agent : Seq(STRING), events : Seq(Event), summaries : Nat]
Operation == [op : {"replace_event_text", "remove_event", "insert_event_after_day",
                    "change_importance"},
              match : STRING, text : STRING, day : Int, weight : Int]
VariantRequest == [id : STRING, operations : Seq(Operation)]

(* _agent_id and scenario_with_perturbation give every scenario of the catalogue *)
(* an agent of its own; only a counterfactual request has variants.          *)
ASSUME JobsAssumption ==
  /\ NoJob \notin Job /\ {MaxJobs, MaxClusters, MaxRetries} \subseteq Nat
  /\ \A job \in Job :
       /\ job.kind \in Kind /\ {job.force, job.answer} \subseteq BOOLEAN
       /\ job.plan \in Seq(Scenario) /\ Len(job.plan) > 0
       /\ job.variants \in Seq(VariantRequest)
       /\ job.kind \in {"counterfactual", "seed", "graph"} => Len(job.plan) = 1
       /\ job.kind # "counterfactual" => Len(job.variants) = 0
       /\ \A i, j \in DOMAIN job.plan :
            job.plan[i].agent = job.plan[j].agent => job.plan[i] = job.plan[j]

-----------------------------------------------------------------------------
(* Counterfactual scenarios. *)

Matches(events, text) == {i \in DOMAIN events : events[i].text = text}
Matched(events, text) == CHOOSE i \in DOMAIN events : events[i].text = text

(* sorted(..., key=day_offset) is stable. *)
InsertByDay(events, e) ==
  LET earlier == {i \in DOMAIN events : events[i].day <= e.day}
  IN InsertAt(events, Cardinality(earlier) + 1, e)
SortedByDay(events) == FoldLeft(InsertByDay, <<>>, events)

ApplyOperation(events, op) ==
  IF events = NoEvents THEN NoEvents
  ELSE IF op.op = "insert_event_after_day"
  THEN SortedByDay(Append(events, [text |-> op.text, day |-> op.day + 1, weight |-> op.weight]))
  ELSE IF Cardinality(Matches(events, op.match)) # 1 THEN NoEvents
  ELSE LET i == Matched(events, op.match)
       IN CASE op.op = "replace_event_text" -> [events EXCEPT ![i].text = op.text]
            [] op.op = "remove_event" -> RemoveAt(events, i)
            [] op.op = "change_importance" -> [events EXCEPT ![i].weight = op.weight]

ApplyOperations(events, operations) == FoldLeft(ApplyOperation, events, operations)

(* Slip: a variant is replayed for the agent of its scenario. *)
SlipVariantKeepsAgent(scenario, variant) ==
  [scenario EXCEPT !.events = ApplyOperations(@, variant.operations)]

Variant(scenario, variant) ==
  [scenario EXCEPT !.events = ApplyOperations(@, variant.operations),
                   !.agent = Append(@, variant.id)]

Replays(job) == Len(job.plan) + Len(job.variants)
Scenarios ==
  [job \in Job |-> [i \in 1..Replays(job) |->
     IF i <= Len(job.plan) THEN job.plan[i]
     ELSE Variant(job.plan[1], job.variants[i - Len(job.plan)])]]
ScenarioAt(job, i) == Scenarios[job][i]

(* An operation makes a list of events of a list of events, or raises. *)
ASSUME EventsAssumption ==
  \A job \in Job : \A i \in 1..Replays(job) :
    ScenarioAt(job, i).events \in Seq(Event) \cup {NoEvents}

-----------------------------------------------------------------------------
VARIABLES
  rows,    \* memory_nodes of all databases: leaves, and summaries with n = 0
  started, \* jobs started so far
  call     \* locals of each thread

vars == <<rows, started, call>>

Index == {1} \cup UNION {1..Replays(job) : job \in Job}
Agent == UNION {{ScenarioAt(job, i).agent : i \in 1..Replays(job)} : job \in Job}
Memory == [db : 0..MaxJobs, agent : Agent, job : 1..MaxJobs, at : Index, n : Nat]

Stage == {"idle", "list", "clear", "begin", "write", "build", "post", "flat",
          "retrieve", "reply", "done", "failed"}

(* A result is one EvalRunResult, snapshot or seed answer, or a skipped        *)
(* scenario with what the error of its last call said.  `foreign`, the jobs        *)
(* whose rows of that agent were there or that touched them during the       *)
(* replay, and `cleared`, whether one deleted them, are for the properties.  *)
Result == [at : Index, status : {"done", "present", "skipped"}, cause : {"none", "refused", "error"},
           seen : SUBSET SUBSET Memory, foreign : SUBSET (1..MaxJobs), cleared : BOOLEAN]

(* `todo` is the events still to be written, `posts` the model calls left and  *)
(* `attempt` the failed attempts of the current one; `seen` is what the       *)
(* replay has read.                                                         *)
Call == [job : Job \cup {NoJob}, number : 0..MaxJobs, stage : Stage, at : Index,
         todo : Seq(Nat), posts : 0..2 * MaxClusters + 1, attempt : 0..MaxRetries,
         seen : SUBSET SUBSET Memory, foreign : SUBSET (1..MaxJobs),
         cleared : BOOLEAN, results : Seq(Result)]

NewCall(job, number, stage) ==
  [job |-> job, number |-> number, stage |-> stage, at |-> 1, todo |-> <<>>,
   posts |-> 0, attempt |-> 0, seen |-> {}, foreign |-> {}, cleared |-> FALSE,
   results |-> <<>>]

Init ==
  /\ rows = {}
  /\ started = 0
  /\ call = [t \in Thread |-> NewCall(NoJob, 0, "idle")]

-----------------------------------------------------------------------------
Free(t) == call[t].stage \in {"idle", "done", "failed"}
At(t, stage) == call[t].stage = stage
Replaying(t) == ~Free(t) /\ call[t].stage \notin {"list", "clear", "begin"}
JobOf(t) == call[t].job

(* _evaluate_candidate points PROJECT_DATABASE_URL at a file of its own. *)
DatabaseOf(t) == IF JobOf(t).kind = "candidate" THEN call[t].number ELSE 0
AgentOf(t) == ScenarioAt(JobOf(t), call[t].at).agent
Stored(t) == {m \in rows : m.db = DatabaseOf(t) /\ m.agent = AgentOf(t)}

Row(t, n) == [db |-> DatabaseOf(t), agent |-> AgentOf(t),
              job |-> call[t].number, at |-> call[t].at, n |-> n]

(* Thread t goes on with c; who is busy with the same agent is not alone with  *)
(* its rows any more when t touches them.                                   *)
Goes(t, c) == call' = [call EXCEPT ![t] = c]
Touches(t, c, clears) ==
  call' = [u \in Thread |->
    IF u = t THEN c
    ELSE IF ~Replaying(u) \/ DatabaseOf(u) # DatabaseOf(t) \/ AgentOf(u) # AgentOf(t)
    THEN call[u]
    ELSE [call[u] EXCEPT !.foreign = @ \cup {call[t].number},
                         !.cleared = @ \/ clears]]

(* A job ends; TemporaryDirectory takes the database of a candidate away. *)
Ends(t, c) ==
  /\ Goes(t, c)
  /\ rows' = {m \in rows : m.db # call[t].number}

Start(t) ==
  /\ Free(t) /\ started < MaxJobs
  /\ started' = started + 1
  /\ \E job \in Job :
       Goes(t, NewCall(job, started', IF job.force \/ job.kind \in {"seed", "graph"}
                                      THEN "list" ELSE "begin"))
  /\ UNCHANGED rows

(* reset_benchmark_agents goes over all agents before the first replay; the    *)
(* demo seeding resets its one agent.                                        *)
AfterReset(c) ==
  IF c.at < Len(c.job.plan) THEN [c EXCEPT !.at = @ + 1, !.stage = "list"]
  ELSE NewCall(c.job, c.number, "begin")

(* seed_complex_demo leaves an agent with data alone unless forced. *)
KeepsData(t) == JobOf(t).kind # "benchmark" /\ ~JobOf(t).force /\ Stored(t) # {}

List(t) ==
  /\ At(t, "list")
  /\ IF KeepsData(t)
     THEN Goes(t, [call[t] EXCEPT !.stage = "done",
            !.results = <<[at |-> 1, status |-> "present", cause |-> "none",
                           seen |-> {Stored(t)}, foreign |-> {}, cleared |-> FALSE]>>])
     ELSE IF JobOf(t).kind = "benchmark" /\ Stored(t) = {}
     THEN Goes(t, AfterReset(call[t]))
     ELSE Goes(t, [call[t] EXCEPT !.stage = "clear"])
  /\ UNCHANGED <<rows, started>>

Clear(t) ==
  /\ At(t, "clear")
  /\ rows' = rows \ Stored(t)
  /\ Touches(t, AfterReset(call[t]), TRUE)
  /\ UNCHANGED started

(* The nodes of the demo graph are upserted in passes: the leaves twice, the   *)
(* second time with their support_ids, the summaries, and all of them with   *)
(* their parent_ids.  A replay observes each event once.                     *)
Upto(a, b) == [i \in 1..b - a |-> a + i]
Writes(t) ==
  LET scenario == ScenarioAt(JobOf(t), call[t].at)
      all == Upto(0, Len(scenario.events))
      leaves == Upto(0, Len(all) - scenario.summaries)
  IN IF JobOf(t).kind = "graph"
     THEN leaves \o leaves \o Upto(Len(leaves), Len(all)) \o all
     ELSE all

Writing(t, todo) ==
  [call[t] EXCEPT !.todo = todo,
     !.stage = IF todo # <<>> THEN "write"
               ELSE IF JobOf(t).kind = "graph" THEN "reply" ELSE "build"]

(* A job ends by an exception. *)
Fails(t) == Ends(t, [NewCall(JobOf(t), call[t].number, "failed") EXCEPT
                       !.at = call[t].at, !.results = call[t].results])

(* A replay begins; apply_counterfactual_variant raises ValueError when an     *)
(* operation matches no event, or several.                                   *)
Begin(t) ==
  /\ At(t, "begin")
  /\ IF ScenarioAt(JobOf(t), call[t].at).events = NoEvents THEN Fails(t)
     ELSE /\ Goes(t, [Writing(t, Writes(t)) EXCEPT
                        !.foreign = {m.job : m \in Stored(t)} \ {call[t].number}])
          /\ UNCHANGED rows
  /\ UNCHANGED started

Write(t) ==
  /\ At(t, "write")
  /\ rows' = rows \cup {Row(t, Head(call[t].todo))}
  /\ Touches(t, Writing(t, Tail(call[t].todo)), FALSE)
  /\ UNCHANGED started

-----------------------------------------------------------------------------
(* Model calls. *)

AfterBuild(kind) == CASE kind = "counterfactual" -> "retrieve"
                      [] kind = "seed" -> "reply"
                      [] OTHER -> "flat"

(* _cluster_nodes makes some clusters of the leaves, if there are any. *)
Build(t) ==
  /\ At(t, "build")
  /\ \E clusters \in 0..IF Stored(t) = {} THEN 0 ELSE MaxClusters :
       Goes(t, [call[t] EXCEPT !.posts = 2 * clusters,
              !.stage = IF clusters = 0 THEN AfterBuild(JobOf(t).kind) ELSE "post"])
  /\ UNCHANGED <<rows, started>>

(* The posts before the retrieval belong to the build: summarizer, verifier,   *)
(* and a row unless the verifier saw a contradiction.                        *)
Building(t) == call[t].seen = {}
StoresSummary(t) == Building(t) /\ call[t].posts % 2 = 1

Answered(t) ==
  LET c == [call[t] EXCEPT !.posts = @ - 1, !.attempt = 0,
              !.stage = IF call[t].posts > 1 THEN "post"
                        ELSE IF Building(t) THEN AfterBuild(JobOf(t).kind) ELSE "reply"]
  IN /\ At(t, "post")
     /\ \/ /\ StoresSummary(t)
           /\ rows' = rows \cup {Row(t, 0)}
           /\ Touches(t, c, FALSE)
        \/ Goes(t, c) /\ UNCHANGED rows
     /\ UNCHANGED started

(* The replay of one scenario is over: the next one, or the report. *)
Records(t, c, status, cause) ==
  LET d == [NewCall(c.job, c.number, "begin") EXCEPT !.at = c.at + 1,
              !.results = Append(c.results,
                 [at |-> c.at, status |-> status, cause |-> cause,
                  seen |-> c.seen, foreign |-> c.foreign, cleared |-> c.cleared])]
  IN IF c.at < Replays(c.job) THEN Goes(t, d) /\ UNCHANGED rows
     ELSE Ends(t, [d EXCEPT !.stage = "done", !.at = c.at])

(* Slip: _slice_report skips a scenario whatever the call raised. *)
SlipSkips(t, cause) == JobOf(t).kind = "candidate"

(* Whether the text of an error, which quotes what the provider answered, says  *)
(* that the prompt is invalid or violates the usage policy.                  *)
ErrorText == {"refused", "error"}

(* _slice_report skips a scenario whose error says so; any other exception of   *)
(* a call ends the job.                                                      *)
Skips(t, cause) == JobOf(t).kind = "candidate" /\ cause = "refused"

Raises(t, cause) ==
  IF Skips(t, cause) THEN Records(t, call[t], "skipped", cause)
  ELSE Fails(t)

(* Slip: when the attempts of a call run out, it starts over. *)
SlipTriesAfresh(t) ==
  /\ Goes(t, [call[t] EXCEPT !.attempt = IF @ < MaxRetries THEN @ + 1 ELSE 0])
  /\ UNCHANGED rows

(* Slip: one retry too many. *)
SlipTriesOnceMore(t) ==
  IF call[t].attempt <= MaxRetries
  THEN Goes(t, [call[t] EXCEPT !.attempt = @ + 1]) /\ UNCHANGED rows
  ELSE Raises(t, "error")

(* The error after the last attempt quotes the last answer. *)
TriesAgain(t) ==
  IF call[t].attempt < MaxRetries
  THEN Goes(t, [call[t] EXCEPT !.attempt = @ + 1]) /\ UNCHANGED rows
  ELSE \E cause \in ErrorText : Raises(t, cause)

(* A timeout, a transport error or one of the statuses 408, 409, 429, 5xx. *)
Transient(t) == At(t, "post") /\ TriesAgain(t) /\ UNCHANGED started

(* A status that is not retried, or a reply without JSON. *)
Rejected(t) ==
  /\ At(t, "post")
  /\ \E cause \in ErrorText : Raises(t, cause)
  /\ UNCHANGED started

-----------------------------------------------------------------------------
Flat(t) ==
  /\ At(t, "flat")
  /\ Goes(t, [call[t] EXCEPT !.seen = {Stored(t)}, !.stage = "retrieve"])
  /\ UNCHANGED <<rows, started>>

(* The evals retrieve with an answer, a counterfactual replay on request.  The  *)
(* answerer calls the model if something was retrieved.                      *)
Answers(job) == job.kind # "counterfactual" \/ job.answer
Retrieve(t) ==
  /\ At(t, "retrieve")
  /\ \/ /\ Answers(JobOf(t)) /\ Stored(t) # {}
        /\ Goes(t, [call[t] EXCEPT !.seen = @ \cup {Stored(t)}, !.posts = 1, !.stage = "post"])
     \/ Goes(t, [call[t] EXCEPT !.seen = @ \cup {Stored(t)}, !.stage = "reply"])
  /\ UNCHANGED <<rows, started>>

(* The result of a replay.  The seedings reply with the number of nodes, which  *)
(* _seed_benchmark_demo_scenario counts and the demo graph takes as given.   *)
Reply(t) ==
  /\ At(t, "reply")
  /\ Records(t, [call[t] EXCEPT !.seen = IF JobOf(t).kind \in {"seed", "graph"}
                                         THEN {Stored(t)} ELSE @], "done", "none")
  /\ UNCHANGED started

Work(t) ==
  \/ List(t) \/ Clear(t) \/ Begin(t) \/ Write(t)
  \/ Build(t) \/ Answered(t) \/ Transient(t) \/ Rejected(t)
  \/ Flat(t) \/ Retrieve(t) \/ Reply(t)

Next == \E t \in Thread : Start(t) \/ Work(t)

Spec == Init /\ [][Next]_vars

(* A thread goes on, and httpx gives up on a silent provider after a timeout. *)
FairSpec == Spec /\ \A t \in Thread : WF_vars(Work(t))

-----------------------------------------------------------------------------
TypeOK ==
  /\ rows \subseteq Memory
  /\ started \in 0..MaxJobs
  /\ call \in [Thread -> Call]

(* The memories a replay is measured on are its own: it sees every event of    *)
(* its scenario unless another job deleted the agent meanwhile, and nothing  *)
(* else if no other job touched that agent and its own job replays no        *)
(* scenario twice.  A candidate of the sweep is never disturbed.             *)
Own(c, r) ==
  LET scenario == ScenarioAt(c.job, r.at)
  IN {[db |-> IF c.job.kind = "candidate" THEN c.number ELSE 0, agent |-> scenario.agent,
       job |-> c.number, at |-> r.at, n |-> n] : n \in DOMAIN scenario.events}
Unrepeated(job, i) ==
  /\ \A j \in DOMAIN job.plan : i # j /\ i \in DOMAIN job.plan => job.plan[j] # job.plan[i]
  /\ \A j \in DOMAIN job.variants :
       i # j + Len(job.plan) /\ i > Len(job.plan) =>
         job.variants[j].id # job.variants[i - Len(job.plan)].id
OwnEventsOnly ==
  \A t \in Thread : \A i \in DOMAIN call[t].results :
    LET c == call[t]
        r == c.results[i]
    IN r.status = "done" =>
         /\ c.job.kind = "candidate" => r.foreign = {}
         /\ \A view \in r.seen :
              /\ ~r.cleared => Own(c, r) \subseteq view
              /\ r.foreign = {} /\ Unrepeated(c.job, r.at) =>
                   {m \in view : m.n > 0} \subseteq Own(c, r)

(* The report of a finished job has a result for every scenario it was asked   *)
(* to replay, in order, and a sweep candidate, nothing else, may have        *)
(* skipped those whose error says that the provider refused the prompt, be   *)
(* it at once or after the last retry.  A failed job has replayed all        *)
(* scenarios before the one it failed at.                                    *)
ReportComplete ==
  \A t \in Thread :
    LET c == call[t]
        kept == \E i \in DOMAIN c.results : c.results[i].status = "present"
    IN /\ At(t, "done") => kept \/ Len(c.results) = Replays(c.job)
       /\ At(t, "failed") => Len(c.results) = c.at - 1
       /\ \A i \in DOMAIN c.results :
            /\ c.results[i].at = i
            /\ c.results[i].status = "skipped" =>
                 c.job.kind = "candidate" /\ c.results[i].cause = "refused"

(* Every job ends, however the provider behaves: the attempts of a call run    *)
(* out.                                                                      *)
JobsEnd == \A t \in Thread : ~Free(t) ~> Free(t)
=============================================================================

-------------------------- MODULE RetrievalPipeline --------------------------
(***************************************************************************)
(* Queries served at the same time by one HierarchicalRetriever             *)
(* (retrieval/hierarchical.py) behind MemoryService.retrieve (services.py).  *)
(*                                                                          *)
(* get_memory_service makes one service per process and the handlers run in  *)
(* a thread pool, so all requests share the retriever and its two attributes *)
(* _pipeline_cached_result and _pipeline_cached_request, written by the      *)
(* branch ranking phase and read and cleared by the last phase.  A step here  *)
(* is the work of a phase up to and including one access to an attribute.    *)
(*                                                                          *)
(* What a phase selects depends on the request alone (module BranchSelection *)
(* is about how), so a result is named by the request it was computed for.   *)
(***************************************************************************)
CONSTANTS
  Thread,    \* threads of the pool
  Request,   \* agent, query, query time, mode, token budget and branch limit
  Balanced,  \* the requests whose mode is BALANCED
  Key,       \* Key[r]: r without its mode, which the cached request lacks
  None       \* Python's None

ASSUME RequestsAssumption ==
  /\ Balanced \subseteq Request
  /\ None \notin Request
  /\ \A r \in Request : Key[r] # None

VARIABLES
  cachedResult,   \* _pipeline_cached_result
  cachedRequest,  \* _pipeline_cached_request
  call            \* each thread's call of MemoryService.retrieve

vars == <<cachedResult, cachedRequest, call>>
cache == <<cachedResult, cachedRequest>>

Phase == {"idle", "route", "leafFirst", "rank", "cacheRequest", "checkRequest",
          "checkResult", "takeResult", "clearRequest", "clearResult",
          "answer"}

(* The phases between ranking and the last look at the cached result. *)
Window == {"cacheRequest", "checkRequest", "checkResult", "takeResult"}

(* `joined` records the results other threads cached while this call was in   *)
(* that window; no guard reads it.                                           *)
Call == [phase : Phase, request : Request \cup {None}, result : Request \cup {None},
         joined : SUBSET Request]
Idle == [phase |-> "idle", request |-> None, result |-> None, joined |-> {}]
Received(r) == [phase |-> "route", request |-> r, result |-> None, joined |-> {}]

Init ==
  /\ cachedResult = None
  /\ cachedRequest = None
  /\ call = [t \in Thread |-> Idle]

(* The call goes on to a phase; it has settled on its own selection. *)
GoOn(t, phase) == call' = [call EXCEPT ![t].phase = phase]
Settle(t) ==
  /\ call' = [call EXCEPT ![t].phase = "answer", ![t].result = call[t].request,
                           ![t].joined = {}]
  /\ UNCHANGED cache

Receive(t) ==
  \E r \in Request :
    /\ call[t].phase = "idle"
    /\ call' = [call EXCEPT ![t] = Received(r)]
    /\ UNCHANGED cache

(* Phase 1: route_query, with the exit to flat retrieval. *)
Route(t) ==
  /\ call[t].phase = "route"
  /\ \/ call[t].request \in Balanced /\ Settle(t)
     \/ GoOn(t, "leafFirst") /\ UNCHANGED cache

(* Phase 2: attempt_leaf_first handles the request or leaves it to phase 3. *)
AttemptLeafFirst(t) ==
  /\ call[t].phase = "leafFirst"
  /\ \/ call[t].request \in Balanced /\ Settle(t)
     \/ GoOn(t, "rank") /\ UNCHANGED cache

(* Slip: a result that is there already is kept. *)
SlipRankOnlyFillsEmpty(t) ==
  /\ call[t].phase = "rank"
  /\ cachedResult' = IF cachedResult = None THEN call[t].request ELSE cachedResult
  /\ call' = [call EXCEPT ![t].phase = "cacheRequest", ![t].joined = {}]
  /\ UNCHANGED cachedRequest

(* Phase 3: rank_summaries_and_branches runs the whole selection and stores  *)
(* first the result, then the request.                                       *)
Rank(t) ==
  /\ call[t].phase = "rank"
  /\ cachedResult' = call[t].request
  /\ call' = [u \in Thread |->
       IF u = t THEN [call[t] EXCEPT !.phase = "cacheRequest", !.joined = {}]
       ELSE IF call[u].phase \in Window
            THEN [call[u] EXCEPT !.joined = @ \cup {call[t].request}]
            ELSE call[u]]
  /\ UNCHANGED cachedRequest

CacheRequest(t) ==
  /\ call[t].phase = "cacheRequest"
  /\ cachedRequest' = Key[call[t].request]
  /\ GoOn(t, "checkRequest")
  /\ UNCHANGED cachedResult

(* Slip: a request that lost its cache entry is ranked again. *)
SlipCheckRequestRetries(t) ==
  /\ call[t].phase = "checkRequest"
  /\ GoOn(t, IF cachedRequest = Key[call[t].request] THEN "checkResult" ELSE "rank")
  /\ UNCHANGED cache

(* Phase 4 passes the selection through.  Phase 5, build_trace_and_diagnostics: *)
(* if the cached request is not this one, or the cached result is gone, the  *)
(* call sorts its own selection or falls back to flat retrieval.             *)
CheckRequest(t) ==
  /\ call[t].phase = "checkRequest"
  /\ IF cachedRequest = Key[call[t].request]
     THEN GoOn(t, "checkResult") /\ UNCHANGED cache
     ELSE Settle(t)

CheckResult(t) ==
  /\ call[t].phase = "checkResult"
  /\ IF cachedResult # None
     THEN GoOn(t, "takeResult") /\ UNCHANGED cache
     ELSE Settle(t)

TakeResult(t) ==
  /\ call[t].phase = "takeResult"
  /\ call' = [call EXCEPT ![t].phase = "clearRequest", ![t].result = cachedResult]
  /\ UNCHANGED cache

ClearRequest(t) ==
  /\ call[t].phase = "clearRequest"
  /\ cachedRequest' = None
  /\ GoOn(t, "clearResult")
  /\ UNCHANGED cachedResult

(* Slip: the result is left to be overwritten by the next request. *)
SlipClearResultNot(t) ==
  /\ call[t].phase = "clearResult"
  /\ call' = [call EXCEPT ![t].phase = "answer"]
  /\ UNCHANGED cache

(* Slip: what was taken is passed on without being unpacked. *)
SlipClearResultPassesNone(t) ==
  /\ call[t].phase = "clearResult"
  /\ cachedResult' = None
  /\ call' = [call EXCEPT ![t].phase = "answer"]
  /\ UNCHANGED cachedRequest

(* The result is cleared and returned.  If another call had cleared it before *)
(* this one took it, there is no tuple to unpack and the request fails.      *)
ClearResult(t) ==
  /\ call[t].phase = "clearResult"
  /\ cachedResult' = None
  /\ call' = [call EXCEPT ![t] = IF call[t].result = None THEN Idle
                                 ELSE [@ EXCEPT !.phase = "answer"]]
  /\ UNCHANGED cachedRequest

(* The context is packed, the answer generated and verified if asked for, and  *)
(* the retrieval trace written: the agent, query and mode of the request     *)
(* beside the entries of the result.  No query reads the trace tables, so    *)
(* the rows are not kept.  The response is returned.                         *)
Answer(t) ==
  /\ call[t].phase = "answer"
  /\ call' = [call EXCEPT ![t] = Idle]
  /\ UNCHANGED cache

(* A transaction or a model call raises and the request ends with an error.  *)
(* Between ranking and the end of phase 5 only attributes are touched.       *)
Fail(t) ==
  /\ call[t].phase \in {"route", "leafFirst", "rank", "answer"}
  /\ call' = [call EXCEPT ![t] = Idle]
  /\ UNCHANGED cache

Step(t) ==
  \/ Route(t) \/ AttemptLeafFirst(t) \/ Rank(t) \/ CacheRequest(t) \/ CheckRequest(t)
  \/ CheckResult(t) \/ TakeResult(t) \/ ClearRequest(t) \/ ClearResult(t)
  \/ Answer(t)

Next == \E t \in Thread : Receive(t) \/ Step(t) \/ Fail(t)

Spec == Init /\ [][Next]_vars

(* A thread that serves a request keeps running. *)
FairSpec == Spec /\ \A t \in Thread : WF_vars(Step(t))

-----------------------------------------------------------------------------
(* Types, and: exactly an idle thread has no request, and whoever gets to     *)
(* answer has a result to pack (a call that took None has failed).           *)
TypeOK ==
  /\ cachedResult \in Request \cup {None}
  /\ call \in [Thread -> Call]
  /\ cachedRequest \in {Key[r] : r \in Request} \cup {None}
  /\ \A t \in Thread :
       /\ call[t].request = None <=> call[t].phase = "idle"
       /\ call[t].phase = "answer" => call[t].result # None

(* The trace about to be written for a request is the trace of that request: *)
(* its entries are what was selected for its own agent, query and mode.      *)
TracesHonest ==
  \A t \in Thread : call[t].phase = "answer" => call[t].result = call[t].request

(* What is in the cache while a call is between ranking and its last look at *)
(* it, and what the call returns, is its own result, nothing, or the result  *)
(* of a request that was ranked at the same time: never a leftover of a      *)
(* request that was over when this one was ranked.                           *)
OnlyOverlapMixes ==
  \A t \in Thread :
    /\ call[t].phase \in Window =>
         cachedResult \in {None, call[t].request} \cup call[t].joined
    /\ call[t].result \in {None, call[t].request} \cup call[t].joined

(* The cache is a hand-over between two phases of one call, not a store: when *)
(* no call is in progress no result is left in it, however they overlapped.  *)
CacheDrains ==
  (\A t \in Thread : call[t].phase = "idle") => cachedResult = None

(* Every request ends, with a response or an error. *)
EveryRequestEnds ==
  \A t \in Thread : call[t].phase # "idle" ~> call[t].phase = "idle"

=============================================================================

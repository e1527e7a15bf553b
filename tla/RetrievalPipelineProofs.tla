----------------------- MODULE RetrievalPipelineProofs -----------------------
(***************************************************************************)
(* What the hand-over between the ranking phase and the last phase of         *)
(* hierarchical.py guarantees for any number of threads and requests, and     *)
(* what it guarantees only when one request is served at a time.             *)
(***************************************************************************)
EXTENDS RetrievalPipeline, TLAPS

(* A call has a result only from the step that takes one on. *)
NoEarlyResult ==
  \A t \in Thread :
    call[t].phase \in {"route", "leafFirst", "rank"} \cup Window => call[t].result = None

(* A cached result has a call that will clear it: one that is still to cache  *)
(* its request, one whose request is the cached one, or one that has checked. *)
Drainer(t) ==
  \/ call[t].phase \in {"cacheRequest", "checkResult", "takeResult",
                        "clearRequest", "clearResult"}
  \/ call[t].phase = "checkRequest" /\ cachedRequest = Key[call[t].request]
SomeoneDrains == cachedResult # None => \E t \in Thread : Drainer(t)

-----------------------------------------------------------------------------
(* Every step keeps every attribute and call in its type, a request with      *)
(* every busy thread and a result with every thread that answers.            *)
THEOREM TypeCorrect == Spec => []TypeOK
<1>1. Init => TypeOK
  BY RequestsAssumption DEF Init, TypeOK, Call, Idle, Phase
<1>2. TypeOK /\ [Next]_vars => TypeOK'
  <2> SUFFICES ASSUME TypeOK, [Next]_vars PROVE TypeOK'
    OBVIOUS
  <2> USE RequestsAssumption DEF TypeOK, cache
  <2>1. ASSUME NEW t \in Thread, Receive(t) PROVE TypeOK'
    BY <2>1 DEF Receive, Received, Call, Phase
  <2>2. ASSUME NEW t \in Thread, Route(t) PROVE TypeOK'
    BY <2>2 DEF Route, Settle, GoOn, Call, Phase
  <2>3. ASSUME NEW t \in Thread, AttemptLeafFirst(t) PROVE TypeOK'
    BY <2>3 DEF AttemptLeafFirst, Settle, GoOn, Call, Phase
  <2>4. ASSUME NEW t \in Thread, Rank(t) PROVE TypeOK'
    <3>1. call[t].request \in Request
      BY <2>4 DEF Rank, Call
    <3>2. ASSUME NEW u \in Thread PROVE call'[u] \in Call
      <4>1. call[u] \in Call /\ call[t] \in Call
        OBVIOUS
      <4>2. CASE u = t
        <5>1. call'[u] = [call[t] EXCEPT !.phase = "cacheRequest", !.joined = {}]
          BY <2>4, <4>2 DEF Rank
        <5> HIDE DEF TypeOK
        <5> QED
          BY <4>1, <5>1 DEF Call, Phase
      <4>3. CASE u # t /\ call[u].phase \in Window
        <5>1. call'[u] = [call[u] EXCEPT !.joined = @ \cup {call[t].request}]
          BY <2>4, <4>3 DEF Rank
        <5> HIDE DEF TypeOK
        <5> QED
          BY <3>1, <4>1, <5>1 DEF Call
      <4>4. CASE u # t /\ call[u].phase \notin Window
        BY <2>4, <4>1, <4>4 DEF Rank
      <4> QED
        BY <4>2, <4>3, <4>4
    <3>3. \A u \in Thread :
            /\ call'[u].request = call[u].request
            /\ call'[u].result = call[u].result
            /\ u # t => call'[u].phase = call[u].phase
      BY <2>4 DEF Rank, Call
    <3>4. call'[t].phase = "cacheRequest"
      BY <2>4 DEF Rank, Call
    <3>5. call' \in [Thread -> Call]
      BY <2>4, <3>2 DEF Rank
    <3> QED
      BY <2>4, <3>1, <3>3, <3>4, <3>5 DEF Rank
  <2>5. ASSUME NEW t \in Thread, CacheRequest(t) PROVE TypeOK'
    BY <2>5 DEF CacheRequest, GoOn, Call, Phase
  <2>6. ASSUME NEW t \in Thread, CheckRequest(t) PROVE TypeOK'
    BY <2>6 DEF CheckRequest, Settle, GoOn, Call, Phase
  <2>7. ASSUME NEW t \in Thread, CheckResult(t) PROVE TypeOK'
    BY <2>7 DEF CheckResult, Settle, GoOn, Call, Phase
  <2>8. ASSUME NEW t \in Thread, TakeResult(t) PROVE TypeOK'
    <3> DEFINE after == [call[t] EXCEPT !.phase = "clearRequest", !.result = cachedResult]
    <3>1. call \in [Thread -> Call] /\ cachedResult \in Request \cup {None}
      OBVIOUS
    <3>2. call' = [call EXCEPT ![t] = after] /\ UNCHANGED cache
      BY <2>8 DEF TakeResult
    <3>3. /\ after \in Call
          /\ after.request = call[t].request
          /\ after.phase = "clearRequest" /\ call[t].phase = "takeResult"
      <4> HIDE DEF TypeOK
      <4> QED
        BY <2>8, <3>1 DEF TakeResult, Call, Phase
    <3> HIDE DEF after
    <3> QED
      BY <3>1, <3>2, <3>3
  <2>9. ASSUME NEW t \in Thread, ClearRequest(t) PROVE TypeOK'
    BY <2>9 DEF ClearRequest, GoOn, Call, Phase
  <2>10. ASSUME NEW t \in Thread, ClearResult(t) PROVE TypeOK'
    BY <2>10 DEF ClearResult, Idle, Call, Phase
  <2>11. ASSUME NEW t \in Thread, Answer(t) PROVE TypeOK'
    BY <2>11 DEF Answer, Idle, Call, Phase
  <2>12. ASSUME NEW t \in Thread, Fail(t) PROVE TypeOK'
    BY <2>12 DEF Fail, Idle, Call, Phase
  <2>13. CASE UNCHANGED vars
    BY <2>13 DEF vars
  <2> QED
    BY <2>1, <2>2, <2>3, <2>4, <2>5, <2>6, <2>7, <2>8, <2>9, <2>10, <2>11, <2>12, <2>13
    DEF Next, Step
<1> QED
  BY <1>1, <1>2, PTL DEF Spec

(* However many requests overlap, what a call finds in the cache, and what it *)
(* returns, is its own result or that of a request ranked at the same time.   *)
THEOREM NoLeftovers == Spec => []OnlyOverlapMixes
<1> DEFINE Inv == NoEarlyResult /\ OnlyOverlapMixes
<1>1. Init => Inv
  BY DEF Init, NoEarlyResult, OnlyOverlapMixes, Idle, Window
<1>2. TypeOK /\ Inv /\ [Next]_vars => Inv'
  <2> SUFFICES ASSUME TypeOK, Inv, [Next]_vars PROVE Inv'
    OBVIOUS
  <2>0. \A t \in Thread : call[t] \in Call
    BY DEF TypeOK
  <2> USE <2>0 DEF NoEarlyResult, OnlyOverlapMixes, Window, cache
  <2> call \in [Thread -> Call]
    BY DEF TypeOK
  <2>1. ASSUME NEW t \in Thread, Receive(t) PROVE Inv'
    BY <2>1 DEF Receive, Received, Call
  <2>2. ASSUME NEW t \in Thread, Route(t) PROVE Inv'
    BY <2>2 DEF Route, Settle, GoOn, Call
  <2>3. ASSUME NEW t \in Thread, AttemptLeafFirst(t) PROVE Inv'
    BY <2>3 DEF AttemptLeafFirst, Settle, GoOn, Call
  <2>4. ASSUME NEW t \in Thread, Rank(t) PROVE Inv'
    BY <2>4 DEF Rank, Call
  <2>5. ASSUME NEW t \in Thread, CacheRequest(t) PROVE Inv'
    BY <2>5 DEF CacheRequest, GoOn, Call
  <2>6. ASSUME NEW t \in Thread, CheckRequest(t) PROVE Inv'
    BY <2>6 DEF CheckRequest, Settle, GoOn, Call
  <2>7. ASSUME NEW t \in Thread, CheckResult(t) PROVE Inv'
    BY <2>7 DEF CheckResult, Settle, GoOn, Call
  <2>8. ASSUME NEW t \in Thread, TakeResult(t) PROVE Inv'
    BY <2>8 DEF TakeResult, Call
  <2>9. ASSUME NEW t \in Thread, ClearRequest(t) PROVE Inv'
    BY <2>9 DEF ClearRequest, GoOn, Call
  <2>10. ASSUME NEW t \in Thread, ClearResult(t) PROVE Inv'
    BY <2>10 DEF ClearResult, Idle, Call
  <2>11. ASSUME NEW t \in Thread, Answer(t) PROVE Inv'
    BY <2>11 DEF Answer, Idle, Call
  <2>12. ASSUME NEW t \in Thread, Fail(t) PROVE Inv'
    BY <2>12 DEF Fail, Idle, Call
  <2>13. CASE UNCHANGED vars
    BY <2>13 DEF vars
  <2> QED
    BY <2>1, <2>2, <2>3, <2>4, <2>5, <2>6, <2>7, <2>8, <2>9, <2>10, <2>11, <2>12, <2>13
    DEF Next, Step
<1>3. Inv => OnlyOverlapMixes
  OBVIOUS
<1> QED
  BY <1>1, <1>2, <1>3, TypeCorrect, PTL DEF Spec

(* The cache is empty whenever no request is in progress, whatever overlapped *)
(* before: the call that wrote the cached request last clears the result.     *)
THEOREM CacheAlwaysDrains == Spec => []CacheDrains
<1>1. Init => SomeoneDrains
  BY DEF Init, SomeoneDrains
<1>2. TypeOK /\ SomeoneDrains /\ [Next]_vars => SomeoneDrains'
  <2> SUFFICES ASSUME TypeOK, SomeoneDrains, [Next]_vars PROVE SomeoneDrains'
    OBVIOUS
  <2>0. call \in [Thread -> Call]
    BY DEF TypeOK
  <2> USE <2>0 DEF SomeoneDrains, Drainer, cache
  <2>1. ASSUME NEW t \in Thread, Receive(t) PROVE SomeoneDrains'
    BY <2>1 DEF Receive, Received, Call
  <2>2. ASSUME NEW t \in Thread, Route(t) PROVE SomeoneDrains'
    BY <2>2 DEF Route, Settle, GoOn, Call
  <2>3. ASSUME NEW t \in Thread, AttemptLeafFirst(t) PROVE SomeoneDrains'
    BY <2>3 DEF AttemptLeafFirst, Settle, GoOn, Call
  <2>4. ASSUME NEW t \in Thread, Rank(t) PROVE SomeoneDrains'
    BY <2>4 DEF Rank, Call
  <2>5. ASSUME NEW t \in Thread, CacheRequest(t) PROVE SomeoneDrains'
    BY <2>5 DEF CacheRequest, GoOn, Call
  <2>6. ASSUME NEW t \in Thread, CheckRequest(t) PROVE SomeoneDrains'
    BY <2>6 DEF CheckRequest, Settle, GoOn, Call
  <2>7. ASSUME NEW t \in Thread, CheckResult(t) PROVE SomeoneDrains'
    BY <2>7 DEF CheckResult, Settle, GoOn, Call
  <2>8. ASSUME NEW t \in Thread, TakeResult(t) PROVE SomeoneDrains'
    BY <2>8 DEF TakeResult, Call
  <2>9. ASSUME NEW t \in Thread, ClearRequest(t) PROVE SomeoneDrains'
    BY <2>9 DEF ClearRequest, GoOn, Call
  <2>10. ASSUME NEW t \in Thread, ClearResult(t) PROVE SomeoneDrains'
    BY <2>10 DEF ClearResult, Call
  <2>11. ASSUME NEW t \in Thread, Answer(t) PROVE SomeoneDrains'
    BY <2>11 DEF Answer, Idle, Call
  <2>12. ASSUME NEW t \in Thread, Fail(t) PROVE SomeoneDrains'
    BY <2>12 DEF Fail, Idle, Call
  <2>13. CASE UNCHANGED vars
    BY <2>13 DEF vars
  <2> QED
    BY <2>1, <2>2, <2>3, <2>4, <2>5, <2>6, <2>7, <2>8, <2>9, <2>10, <2>11, <2>12, <2>13
    DEF Next, Step
<1>3. SomeoneDrains => CacheDrains
  BY DEF SomeoneDrains, Drainer, CacheDrains
<1> QED
  BY <1>1, <1>2, <1>3, TypeCorrect, PTL DEF Spec

(* With one thread nothing joins a call, so every trace is that of its own    *)
(* request: what TracesHonest lacks is only mutual exclusion.                *)
THEOREM AloneTracesHonest ==
  ASSUME \A t, u \in Thread : t = u
  PROVE  Spec => []TracesHonest
<1> DEFINE Alone == \A t \in Thread : call[t].joined = {}
<1>1. ASSUME Init PROVE Alone
  <2> SUFFICES ASSUME NEW t \in Thread PROVE call[t].joined = {}
    OBVIOUS
  <2>1. call[t] = Idle
    BY <1>1 DEF Init
  <2> QED
    BY <2>1 DEF Idle
<1>2. TypeOK /\ Alone /\ [Next]_vars => Alone'
  <2> SUFFICES ASSUME TypeOK, Alone, [Next]_vars PROVE Alone'
    OBVIOUS
  <2>0. call \in [Thread -> Call]
    BY DEF TypeOK
  <2>1. CASE UNCHANGED vars
    BY <2>1 DEF vars
  <2>2. ASSUME NEW t \in Thread, Receive(t) \/ Step(t) \/ Fail(t) PROVE Alone'
    <3>1. ASSUME Receive(t) PROVE Alone'
      BY <2>0, <3>1 DEF Receive, Received, Call
    <3>2. ASSUME Rank(t) PROVE Alone'
      BY <2>0, <3>2 DEF Rank, Call
    <3>3. ASSUME Route(t) \/ AttemptLeafFirst(t) \/ CheckRequest(t) \/ CheckResult(t)
          PROVE  Alone'
      BY <2>0, <3>3 DEF Route, AttemptLeafFirst, CheckRequest, CheckResult, Settle, GoOn, Call
    <3>4. ASSUME CacheRequest(t) \/ TakeResult(t) \/ ClearRequest(t) PROVE Alone'
      BY <2>0, <3>4 DEF CacheRequest, TakeResult, ClearRequest, GoOn, Call
    <3>5. ASSUME ClearResult(t) \/ Answer(t) \/ Fail(t) PROVE Alone'
      BY <2>0, <3>5 DEF ClearResult, Answer, Fail, Idle, Call
    <3> QED
      BY <2>2, <3>1, <3>2, <3>3, <3>4, <3>5 DEF Step
  <2> QED
    BY <2>1, <2>2 DEF Next
<1>3. TypeOK /\ OnlyOverlapMixes /\ Alone => TracesHonest
  BY DEF TypeOK, OnlyOverlapMixes, TracesHonest
<1> QED
  BY <1>1, <1>2, <1>3, TypeCorrect, NoLeftovers, PTL DEF Spec

=============================================================================

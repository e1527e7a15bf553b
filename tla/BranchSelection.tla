-------------------------- MODULE BranchSelection --------------------------
(***************************************************************************)
(* One call of MemoryService.retrieve or retrieve_flat: what                 *)
(* HierarchicalRetriever (retrieval/hierarchical.py) and FlatRetriever       *)
(* select, and what ContextPacker (services.py) packs of it, while other     *)
(* calls change the agent's memories and count their own accesses to them.   *)
(*                                                                          *)
(* The phases of the pipeline route the query and probe the leaves, then      *)
(* _retrieve_legacy routes and probes again and goes on to the branches.     *)
(* A step is the work up to and including one access to the store; what is   *)
(* selected is marked before the work goes on (`marking`, `seen`).  What     *)
(* several calls share is module RetrievalPipeline.                          *)
(***************************************************************************)
EXTENDS CandidateScoring

CONSTANTS
  Request,    \* [query, mode, budget, limit]; mode "flat" is retrieve_flat
  FirstNodes, \* the nodes stored at first
  Contended,  \* bound: nodes that other calls mark or write back meanwhile
  MaxChanges  \* bound: changes of the store during the call

ASSUME RequestsAssumption ==
  /\ FirstNodes \subseteq Node /\ Contended \subseteq Node /\ MaxChanges \in Nat
  /\ Request # {}
  /\ \A r \in Request : /\ r.mode \in {"balanced", "drill_down", "summary_only", "flat"}
                        /\ r.budget \in Nat /\ r.limit \in Nat /\ r.query.tokens \in Nat

VARIABLES
  stored, stale, accesses,  \* the rows; access_count by node
  written, changes,         \* nodes ever written; changes so far
  highest,      \* the highest count a row ever had: what a call may have read
  others,       \* accesses counted by other calls (history)
  deleted,      \* nodes that were deleted (history)
  outdated,     \* nodes whose count was written from an older one (history)
  request, stage,
  legacy,       \* inside _retrieve_legacy
  entities,     \* query_entities, with their aliases
  leaves,       \* the leaves as ranked when they were listed
  summaries,    \* ranked_summaries
  branch,       \* the index of the summary whose branch is considered
  unread,       \* child_ids that are still to be read
  children,     \* the children that were there
  queue,        \* children_to_add, flat candidates or nodes to pack
  spent,        \* branch_consumed
  consumed,     \* tokens of the selection so far
  picked,       \* the selection: nodes and their scores
  trace,        \* trace_entries: nodes and selected_as
  marking,      \* what is selected and still to be marked
  seen,         \* the count that mark_accessed has read, of Head(marking)
  packed, used  \* the nodes in the context and its tokens

store == <<stored, stale, accesses, written, changes, highest, others, deleted, outdated>>
probe == <<legacy, entities, leaves>>
descent == <<summaries, branch, unread, children, spent>>
marks == <<marking, seen>>
selection == <<consumed, picked, trace, marking, seen>>
context == <<packed, used>>
vars == <<store, request, stage, probe, descent, queue, selection, context>>

Stage == {"idle", "route", "probe", "list", "branch", "read", "add", "summary",
          "supplement", "finish", "flatList", "flat", "pack", "done", "failed"}
SelectedAs == {"query_router_flat", "supporting_leaf", "summary",
               "flat_fallback", "flat_memory"}

AnyRequest == CHOOSE r \in Request : TRUE
NotRead == -1

Init ==
  /\ stored = FirstNodes /\ stale = {} /\ written = FirstNodes /\ changes = 0
  /\ deleted = {} /\ outdated = {}
  /\ accesses = [n \in Node |-> 0] /\ highest = accesses /\ others = accesses
  /\ request = AnyRequest /\ stage = "idle"
  /\ legacy = FALSE /\ entities = {} /\ leaves = <<>>
  /\ summaries = <<>> /\ branch = 1 /\ unread = <<>> /\ children = {} /\ spent = 0
  /\ queue = <<>> /\ consumed = 0 /\ picked = <<>> /\ trace = <<>>
  /\ marking = <<>> /\ seen = NotRead
  /\ packed = <<>> /\ used = 0

q == request.query
balanced == request.mode = "balanced"
route == Decide(q, request.mode, request.limit)
plan == Plan(q, entities)
PickedNodes == {picked[i].node : i \in DOMAIN picked}
PickedLeaves == PickedNodes \cap Leaf
Live(S) == (S \cap stored) \ stale

(* Slip: its tokens are not counted. *)
SlipPickUncounted(n, score, as) ==
  /\ picked' = Append(picked, [node |-> n, score |-> score])
  /\ trace' = Append(trace, [node |-> n, as |-> as])
  /\ marking' = <<n>>
  /\ UNCHANGED <<consumed, seen, store>>

(* A node is selected and traced, and will be marked.                        *)
Pick(n, score, as) ==
  /\ picked' = Append(picked, [node |-> n, score |-> score])
  /\ trace' = Append(trace, [node |-> n, as |-> as])
  /\ consumed' = consumed + Tokens(n)
  /\ marking' = <<n>>
  /\ UNCHANGED <<seen, store>>

-----------------------------------------------------------------------------
(* The store during the call *)

(* delete_agent_data removes the rows it selected before; it may spare one     *)
(* that was created since the call began.                                    *)
Recent == (Node \ FirstNodes) \cup deleted

Forget ==
  /\ changes < MaxChanges /\ changes' = changes + 1
  /\ \E spared \in SUBSET (stored \cap Recent) :
       /\ stored' = spared /\ stale' = stale \cap spared
       /\ accesses' = [n \in Node |-> IF n \in spared THEN accesses[n] ELSE 0]
       /\ deleted' = deleted \cup (stored \ spared)
  /\ UNCHANGED <<written, highest, others, outdated, request, stage, probe, descent, queue,
                 selection, context>>

(* upsert_node of a new node. *)
Write(n) ==
  /\ n \in Node \ written /\ changes < MaxChanges /\ changes' = changes + 1
  /\ stored' = stored \cup {n} /\ written' = written \cup {n}
  /\ UNCHANGED <<stale, accesses, highest, others, deleted, outdated, request, stage, probe,
                 descent, queue, selection, context>>

MarkStale(s) ==
  /\ s \in (stored \cap Summary) \ stale
  /\ changes < MaxChanges /\ changes' = changes + 1
  /\ stale' = stale \cup {s}
  /\ UNCHANGED <<stored, accesses, written, highest, others, deleted, outdated, request, stage,
                 probe, descent, queue, selection, context>>

(* The count of n is written by somebody who read count k some time ago.      *)
Outdates(n, k) == outdated' = IF k = accesses[n] THEN outdated ELSE outdated \cup {n}

(* Another retrieval's mark_accessed, which reads the count and writes it     *)
(* back in two statements, with no lock.                                     *)
OtherMarks(n) ==
  /\ n \in Contended \cap stored
  /\ changes < MaxChanges /\ changes' = changes + 1
  /\ \E k \in 0..highest[n] :
       /\ accesses' = [accesses EXCEPT ![n] = k + 1]
       /\ highest' = [highest EXCEPT ![n] = AtLeast(@, k + 1)]
       /\ Outdates(n, k)
  /\ others' = [others EXCEPT ![n] = @ + 1]
  /\ UNCHANGED <<stored, stale, written, deleted, request, stage, probe, descent, queue,
                 selection, context>>

(* upsert_node of a copy that was read before: a build backfills the parent   *)
(* link of a leaf, verify_job writes the verdict of any node.  The copy has  *)
(* the access_count and the stale_flag of then, and may bring back a row     *)
(* that is gone.  A copy that changes nothing is left out.                   *)
WriteBack(n) ==
  /\ n \in Contended \cap written
  /\ changes < MaxChanges /\ changes' = changes + 1
  /\ \E k \in 0..highest[n] :
       /\ accesses' = [accesses EXCEPT ![n] = k]
       /\ Outdates(n, k)
  /\ stored' = stored \cup {n}
  /\ stale' \in {stale \ {n}, stale \cup ({n} \cap Summary)}
  /\ <<stored', stale', accesses'>> # <<stored, stale, accesses>>
  /\ UNCHANGED <<written, highest, others, deleted, request, stage, probe, descent, queue,
                 selection, context>>

-----------------------------------------------------------------------------
(* mark_accessed: one transaction per node, which does nothing when the row   *)
(* is gone, and fails the call when it goes before the count is written.     *)
MarkReads ==
  /\ marking # <<>> /\ seen = NotRead /\ Head(marking) \in stored
  /\ seen' = accesses[Head(marking)]
  /\ UNCHANGED <<store, request, stage, probe, descent, queue, consumed, picked, trace, marking,
                 context>>

MarkMissesRow ==
  /\ marking # <<>> /\ seen = NotRead /\ Head(marking) \notin stored
  /\ marking' = Tail(marking)
  /\ UNCHANGED <<store, request, stage, probe, descent, queue, consumed, picked, trace, seen,
                 context>>

(* Slip: the access of a node is counted again. *)
SlipMarkAgain ==
  /\ seen # NotRead /\ Head(marking) \in stored
  /\ accesses' = [accesses EXCEPT ![Head(marking)] = seen + 1]
  /\ highest' = [highest EXCEPT ![Head(marking)] = AtLeast(@, seen + 1)]
  /\ Outdates(Head(marking), seen)
  /\ seen' = NotRead
  /\ UNCHANGED <<stored, stale, written, changes, others, deleted, request, stage, probe,
                 descent, queue, consumed, picked, trace, marking, context>>

MarkWrites ==
  /\ seen # NotRead /\ Head(marking) \in stored
  /\ accesses' = [accesses EXCEPT ![Head(marking)] = seen + 1]
  /\ highest' = [highest EXCEPT ![Head(marking)] = AtLeast(@, seen + 1)]
  /\ Outdates(Head(marking), seen)
  /\ marking' = Tail(marking) /\ seen' = NotRead
  /\ UNCHANGED <<stored, stale, written, changes, others, deleted, request, stage, probe,
                 descent, queue, consumed, picked, trace, context>>

MarkFails ==
  /\ seen # NotRead /\ Head(marking) \notin stored
  /\ seen' = NotRead
  /\ stage' = "failed"
  /\ UNCHANGED <<store, request, probe, descent, queue, consumed, picked, trace, marking,
                 context>>

-----------------------------------------------------------------------------
(* Routing and probing *)

Receive(r) ==
  /\ stage = "idle"
  /\ request' = r
  /\ used' = r.query.tokens
  /\ stage' = IF r.mode = "flat" THEN "flatList" ELSE "route"
  /\ UNCHANGED <<store, probe, descent, queue, selection, packed>>

(* route_query, and the head of _retrieve_legacy. *)
RouteQuery ==
  /\ stage = "route"
  /\ entities' = WithAliases(q.entities, Live(Leaf))
  /\ stage' = IF route.strategy = "flat_top1" THEN "flatList" ELSE "probe"
  /\ UNCHANGED <<store, request, legacy, leaves, descent, queue, selection, context>>

(* The leaf-first answers: the best leaf, which is not held against the       *)
(* budget, and in a revision answer another one that fits beside it.         *)
LeafFirst(ranked) ==
  IF ~balanced THEN <<>>
  ELSE IF RevisionFirst(q, route) /\ ~NeedsExpansion(q, ranked, entities)
  THEN <<ranked[1]>> \o Enrichment(route, ranked, entities, request.budget)
  ELSE IF ConfidentLeaf(q, ranked, entities) THEN <<ranked[1]>> ELSE <<>>

(* Of such an answer, which is of two leaves at most. *)
TokensOf(first) ==
  LET tokens(i) == IF i \in DOMAIN first THEN Tokens(first[i]) ELSE 0
  IN tokens(1) + tokens(2)

(* attempt_leaf_first; then _retrieve_legacy does the same with what the      *)
(* store holds by then.                                                      *)
Probe ==
  /\ stage = "probe"
  /\ \E ranked \in Ranked(Live(Leaf), [n \in Leaf |-> LeafScore(n, entities)], Listed) :
       \E first \in {LeafFirst(ranked)} :
         /\ leaves' = ranked
         /\ stage' = IF first # <<>> THEN "pack" ELSE IF legacy THEN "list" ELSE "route"
         /\ legacy' = (first = <<>>)
         /\ picked' = [i \in DOMAIN first |->
                         [node |-> first[i], score |-> LeafScore(first[i], entities)]]
         /\ trace' = [i \in DOMAIN first |->
                        [node |-> first[i], as |-> "query_router_flat"]]
         /\ consumed' = TokensOf(first)
         /\ queue' = first /\ marking' = first
  /\ UNCHANGED <<store, request, entities, descent, seen, context>>

-----------------------------------------------------------------------------
(* Branches *)

low == LowConfidence(leaves, entities)
resolver == PersonStrategy(q, leaves, entities)
crossBranch == Reaches(q, "temporal", Threshold.hierarchy_expand_min)
revisionExpands == balanced /\ RevisionFirst(q, route) /\ NeedsExpansion(q, leaves, entities)

(* adaptive_branch_limit. *)
BranchLimit ==
  LET widened == \/ low \/ Pressure(q, leaves, entities) \/ crossBranch
                 \/ revisionExpands \/ MultiLeaf(plan)
      wanted == IF widened THEN AtLeast(route.branches, ExpansionTarget)
                ELSE AtLeast(1, route.branches)
  IN IF balanced THEN AtMost(wanted, request.limit) ELSE request.limit

ListSummaries ==
  /\ stage = "list"
  /\ \E ranked \in Ranked(Live(Summary), [s \in Summary |-> SummaryScore(s)], Listed) :
       summaries' = SubSeq(ranked, 1, AtMost(BranchLimit, Len(ranked)))
  /\ stage' = "branch"
  /\ UNCHANGED <<store, request, probe, branch, unread, children, spent, queue,
                 selection, context>>

Remaining == request.budget - consumed
NextBranch == branch' = branch + 1 /\ stage' = "branch"

OpenBranch ==
  /\ stage = "branch"
  /\ IF branch > Len(summaries) \/ Remaining <= 0
     THEN stage' = "supplement" /\ UNCHANGED <<unread, children, spent>>
     ELSE /\ stage' = "read" /\ spent' = 0
          /\ unread' = ChildIds[summaries[branch]] /\ children' = {}
  /\ UNCHANGED <<store, request, probe, summaries, branch, queue, selection, context>>

(* get_node: a child may be stale or gone.                                   *)
ReadChild ==
  /\ stage = "read" /\ unread # <<>>
  /\ unread' = Tail(unread)
  /\ children' = children \cup ({Head(unread)} \cap stored)
  /\ UNCHANGED <<store, request, stage, probe, summaries, branch, spent, queue,
                 selection, context>>

(* branch_allowance, of what was left when the branch was opened.            *)
Allowance ==
  LET left == Remaining + spent
      share == request.budget \div AtLeast(Len(summaries), 1)
  IN AtMost(left, AtLeast(AtLeast(1, share), left \div (Len(summaries) - branch + 1)))

Score100(n) == 100 * ChildScore(n, entities)

(* Whether the branch is descended into; best is its best child that fits.    *)
Descends(s, best) ==
  \/ request.mode = "drill_down"
  \/ /\ balanced
     /\ \/ \E cue \in {"composition", "conflict", "negation", "ambiguity"} : Active(q, cue)
        \/ low \/ crossBranch \/ revisionExpands \/ MultiLeaf(plan)
        \/ q.detailed /\ Of[s].relevance < 72
        \/ Score100(best) >= 95 * SummaryScore(s)
        \/ Active(q, "temporal") /\ Score100(best) >= 92 * SummaryScore(s)

(* children_to_add; with one child to select, _anchor_children_to_entities    *)
(* replaces the best one by the best one about the names.                    *)
ChildrenToAdd(ranked) ==
  LET wide == \/ Active(q, "composition") \/ Coverage(q) >= Threshold.coverage_min
              \/ MultiLeaf(plan)
      anchors == (plan.entityThread \/ resolver) /\ ~Active(q, "ambiguity")
      about == {i \in DOMAIN ranked : Aligned(ranked[i], entities)}
  IN IF request.mode = "drill_down" THEN SubSeq(ranked, 1, AtMost(2, Len(ranked)))
     ELSE IF wide /\ anchors /\ about # {} THEN <<ranked[Min(about)]>>
     ELSE <<ranked[1]>>

ChildPosition(n) == CHOOSE i \in DOMAIN ChildIds[summaries[branch]] :
                      ChildIds[summaries[branch]][i] = n

Descend ==
  /\ stage = "read" /\ unread = <<>>
  /\ \E ranked \in Ranked(children, [n \in children |-> ChildScore(n, entities)],
                          [n \in children |-> ChildPosition(n)]) :
       LET fitting == {i \in DOMAIN ranked : Tokens(ranked[i]) <= Allowance}
       IN IF fitting # {} /\ Descends(summaries[branch], ranked[Min(fitting)])
          THEN stage' = "add" /\ queue' = ChildrenToAdd(ranked)
          ELSE stage' = "summary" /\ UNCHANGED queue
  /\ UNCHANGED <<store, request, probe, descent, selection, context>>

(* Slip: the second child is held against the whole allowance. *)
SlipChildFitsAlone(n) == n \notin PickedNodes /\ Tokens(n) <= Allowance

(* Slip: a leaf that another branch has selected is selected again. *)
SlipChildFitsAgain(n) == Tokens(n) <= Allowance - spent

ChildFits(n) == n \notin PickedNodes /\ Tokens(n) <= Allowance - spent

AddChild ==
  /\ stage = "add" /\ queue # <<>> /\ ChildFits(Head(queue))
  /\ Pick(Head(queue), ChildScore(Head(queue), entities), "supporting_leaf")
  /\ spent' = spent + Tokens(Head(queue))
  /\ queue' = Tail(queue)
  /\ UNCHANGED <<request, stage, probe, summaries, branch, unread, children, context>>

SkipChild ==
  /\ stage = "add" /\ queue # <<>> /\ ~ChildFits(Head(queue))
  /\ queue' = Tail(queue)
  /\ UNCHANGED <<store, request, stage, probe, descent, selection, context>>

ChildrenAdded ==
  /\ stage = "add" /\ queue = <<>>
  /\ IF spent > 0 THEN NextBranch ELSE stage' = "summary" /\ UNCHANGED branch
  /\ UNCHANGED <<store, request, probe, summaries, unread, children, spent, queue,
                 selection, context>>

TakeSummary ==
  /\ stage = "summary"
  /\ LET s == summaries[branch]
     IN IF Tokens(s) <= Allowance /\ s \notin PickedNodes
        THEN Pick(s, SummaryScore(s), "summary")
        ELSE UNCHANGED <<store, selection>>
  /\ NextBranch
  /\ UNCHANGED <<request, probe, summaries, unread, children, spent, queue, context>>

-----------------------------------------------------------------------------
(* Supplemental leaves *)

(* should_expand_coverage. *)
Supplements ==
  \/ /\ balanced
     /\ \/ route.expansion \/ MultiLeaf(plan) \/ plan.required # {} \/ plan.communication > 0
        \/ resolver \/ Active(q, "ambiguity") \/ plan.entityThread
  \/ request.mode = "drill_down" /\ MultiLeaf(plan)

Covered == UNION {Keys(q, n) : n \in PickedLeaves}
MissingRequired == plan.required \ Covered
CommunicationGap == Cardinality(CommunicationFacets \cap Covered) < plan.communication
AlignedPicked == {n \in PickedLeaves : Aligned(n, entities)}
ThreadAnchored == entities # {} /\ AlignedPicked # {}
KeepsThread == (plan.entityThread \/ resolver) /\ entities # {}

(* _missing_commitment_polarity, _needs_negation_polarity_balance. *)
LacksNegative == PickedLeaves # {} /\ \A n \in PickedLeaves : ~Of[n].negative
LacksAffirmative == PickedLeaves # {} /\ \A n \in PickedLeaves : ~Of[n].affirmative
OneSided == ~q.negated /\ LacksNegative # LacksAffirmative

(* _needs_entity_disambiguation_support. *)
NamesUnsettled ==
  /\ entities # {} /\ (Active(q, "ambiguity") \/ low)
  /\ \/ Cardinality(AlignedPicked) <= 1
     \/ \E n \in PickedLeaves : Conflicting(n, entities)

Lacking ==
  \/ MissingRequired # {} \/ CommunicationGap
  \/ KeepsThread /\ ~ThreadAnchored
  \/ Active(q, "negation") /\ OneSided
  \/ NamesUnsettled \/ low

Needed ==
  {need \in {"required", "communication", "polarity", "disambiguation", "confidence"} :
     CASE need = "required" -> MissingRequired # {}
       [] need = "communication" -> CommunicationGap
       [] need = "polarity" -> Active(q, "negation") /\ OneSided
       [] need = "disambiguation" -> NamesUnsettled
       [] need = "confidence" -> low}

(* _shares_thread_with_aligned_leaf. *)
SharesThread(n) ==
  /\ entities # {}
  /\ \/ Aligned(n, entities)
     \/ \E m \in AlignedPicked : \/ Parents(m) \cap Parents(n) # {}
                                 \/ Names(m) \cap Names(n) # {}

NewKeys(n) == Keys(q, n) \ Covered
RequiredHits(n) == Keys(q, n) \cap MissingRequired

(* What a leaf would add besides keys. *)
Signals(n) ==
  {sign \in {"communication", "polarity", "disambiguation", "aligned"} :
     CASE sign = "communication" ->
            CommunicationGap /\ NewKeys(n) \cap CommunicationFacets # {}
       [] sign = "polarity" ->
            OneSided /\ (\/ LacksAffirmative /\ Of[n].affirmative
                         \/ LacksNegative /\ Of[n].negative)
       [] sign = "disambiguation" -> NamesUnsettled /\ SharesThread(n)
       [] sign = "aligned" -> Aligned(n, entities)}

Bonuses(n) == UtilityBonus(Cardinality(NewKeys(n)), Cardinality(RequiredHits(n)), Signals(n))

(* A leaf about other names supports a thread that has its anchor.           *)
SupportsThread(n) ==
  LET required == RequiredHits(n) # {} \/ Signals(n) \ {"aligned"} # {}
  IN /\ ThreadAnchored /\ ~Negated(n, entities)
     /\ ~Conflicting(n, entities) \/ required
     /\ SharesThread(n) \/ required

Eligible(n) ==
  /\ n \notin PickedNodes
  /\ consumed + Tokens(n) <= request.budget
  /\ resolver => Aligned(n, entities)
  /\ KeepsThread /\ ~Aligned(n, entities) => SupportsThread(n)
  /\ PickedLeaves = {} \/ NewKeys(n) # {} \/ Signals(n) \ {"aligned"} # {}
  /\ PickedLeaves = {} \/ Bonuses(n) >= UtilityGate(q, Needed)

Utility(n) == LeafScore(n, entities) + 30 * Bonuses(n)

(* The leaf of the highest utility, of the first of them in `leaves`.        *)
BestEligible ==
  LET found == {i \in DOMAIN leaves : Eligible(leaves[i])}
      best == {i \in found : \A j \in found : Utility(leaves[j]) <= Utility(leaves[i])}
  IN {leaves[i] : i \in {k \in best : \A j \in best : k <= j}}

LeavesWanted == TargetLeaves(Cardinality(PickedLeaves), plan, Lacking)

(* One turn of the loop of _retrieve_legacy; the leaves are those of the       *)
(* probe.                                                                    *)
Supplement ==
  /\ stage = "supplement"
  /\ \E best \in {IF Supplements /\ Cardinality(PickedLeaves) < LeavesWanted
                  THEN BestEligible ELSE {}} :
       IF best = {} THEN stage' = "finish" /\ UNCHANGED <<store, selection>>
       ELSE /\ \E n \in best : Pick(n, LeafScore(n, entities), "supporting_leaf")
            /\ UNCHANGED stage
  /\ UNCHANGED <<request, probe, descent, queue, context>>

(* The selection is sorted, or, when there is none, flat retrieval is used.   *)
Finish ==
  /\ stage = "finish"
  /\ IF picked = <<>> THEN stage' = "flatList" /\ UNCHANGED <<picked, queue>>
     ELSE /\ stage' = "pack"
          /\ \E order \in Ranked(DOMAIN picked, [i \in DOMAIN picked |-> picked[i].score],
                                [i \in DOMAIN picked |-> i]) :
               /\ picked' = [i \in DOMAIN picked |-> picked[order[i]]]
               /\ queue' = [i \in DOMAIN picked |-> picked[order[i]].node]
  /\ UNCHANGED <<store, request, probe, descent, consumed, trace, marks, context>>

-----------------------------------------------------------------------------
(* Flat retrieval: a route, the fallback, and the service of its own *)

FlatSelectedAs ==
  CASE request.mode = "flat" -> "flat_memory"
    [] request.mode # "flat" /\ legacy -> "flat_fallback"
    [] request.mode # "flat" /\ ~legacy -> "query_router_flat"

FlatLimit ==
  CASE FlatSelectedAs = "flat_memory" -> request.limit
    [] FlatSelectedAs = "query_router_flat" -> 1
    [] FlatSelectedAs = "flat_fallback" -> IF q.detailed THEN AtMost(request.limit, 2) ELSE 1

ListFlat ==
  /\ stage = "flatList"
  /\ queue' \in Ranked(Live(Leaf), [n \in Leaf |-> FlatScore(n)], Listed)
  /\ stage' = "flat"
  /\ UNCHANGED <<store, request, probe, descent, selection, context>>

FlatFits(n) == consumed + Tokens(n) <= request.budget

TakeFlat ==
  /\ stage = "flat" /\ queue # <<>> /\ Len(picked) < FlatLimit /\ FlatFits(Head(queue))
  /\ Pick(Head(queue), FlatScore(Head(queue)), FlatSelectedAs)
  /\ queue' = Tail(queue)
  /\ UNCHANGED <<request, stage, probe, descent, context>>

(* Slip: the first leaf that does not fit ends the loop. *)
SlipSkipFlatBreaks ==
  /\ stage = "flat" /\ queue # <<>> /\ Len(picked) < FlatLimit /\ ~FlatFits(Head(queue))
  /\ queue' = <<>>
  /\ UNCHANGED <<store, request, stage, probe, descent, selection, context>>

(* Slip: the loop does not move on. *)
SlipSkipFlatStays ==
  /\ stage = "flat" /\ queue # <<>> /\ Len(picked) < FlatLimit /\ ~FlatFits(Head(queue))
  /\ UNCHANGED vars

SkipFlat ==
  /\ stage = "flat" /\ queue # <<>> /\ Len(picked) < FlatLimit /\ ~FlatFits(Head(queue))
  /\ queue' = Tail(queue)
  /\ UNCHANGED <<store, request, stage, probe, descent, selection, context>>

FlatEnds ==
  /\ stage = "flat" /\ (queue = <<>> \/ Len(picked) >= FlatLimit)
  /\ stage' = "pack"
  /\ queue' = [i \in DOMAIN picked |-> picked[i].node]
  /\ UNCHANGED <<store, request, probe, descent, selection, context>>

-----------------------------------------------------------------------------
(* Packing *)

(* ContextPacker.pack starts with the tokens of the query; a snippet is the    *)
(* text with the level and the type in front.                                *)
SnippetTokens(n) == Tokens(n) + 1
Overlaps(n) == \E i \in DOMAIN packed : n = packed[i] \/ {n, packed[i]} \in Similar
FitsContext(n) == used + SnippetTokens(n) <= request.budget

(* Slip: the first node that does not fit ends the packing. *)
SlipPackNodeStops ==
  /\ stage = "pack" /\ queue # <<>>
  /\ LET n == Head(queue)
     IN IF ~Overlaps(n) /\ FitsContext(n)
        THEN packed' = Append(packed, n) /\ used' = used + SnippetTokens(n) /\ queue' = Tail(queue)
        ELSE UNCHANGED context /\ queue' = IF Overlaps(n) THEN Tail(queue) ELSE <<>>
  /\ UNCHANGED <<store, request, stage, probe, descent, selection>>

PackNode ==
  /\ stage = "pack" /\ queue # <<>>
  /\ queue' = Tail(queue)
  /\ LET n == Head(queue)
     IN IF ~Overlaps(n) /\ FitsContext(n)
        THEN packed' = Append(packed, n) /\ used' = used + SnippetTokens(n)
        ELSE UNCHANGED context
  /\ UNCHANGED <<store, request, stage, probe, descent, selection>>

Answer ==
  /\ stage = "pack" /\ queue = <<>>
  /\ stage' = "done"
  /\ UNCHANGED <<store, request, probe, descent, queue, selection, context>>

Marks == MarkReads \/ MarkMissesRow \/ MarkWrites \/ MarkFails

Selects ==
  \/ RouteQuery \/ Probe \/ ListSummaries \/ OpenBranch \/ ReadChild \/ Descend
  \/ AddChild \/ SkipChild \/ ChildrenAdded \/ TakeSummary \/ Supplement \/ Finish
  \/ ListFlat \/ TakeFlat \/ SkipFlat \/ FlatEnds \/ PackNode \/ Answer

(* An access that fails ends the call. *)
Work == stage # "failed" /\ (Marks \/ (marking = <<>> /\ Selects))

Next ==
  \/ Work \/ Forget
  \/ \E n \in Node : Write(n) \/ OtherMarks(n) \/ WriteBack(n)
  \/ \E s \in Summary : MarkStale(s)
  \/ \E r \in Request : Receive(r)

Spec == Init /\ [][Next]_vars

(* The handler of a request goes on; the store need not change.              *)
FairSpec == Spec /\ WF_vars(Work)

-----------------------------------------------------------------------------
(* Properties *)

Traced == {trace[i].node : i \in DOMAIN trace}

(* Types.  What is selected is a node with an integer score; a branch is one   *)
(* of ranked_summaries or comes after the last; nothing is spent in a        *)
(* branch that is not part of what is consumed.                              *)
TypeOK ==
  /\ stored \subseteq written /\ written \subseteq Node
  /\ stale \subseteq stored \cap Summary
  /\ accesses \in [Node -> Nat] /\ highest \in [Node -> Nat] /\ others \in [Node -> Nat]
  /\ changes \in 0..MaxChanges /\ deleted \subseteq Node /\ outdated \subseteq Node
  /\ request \in Request /\ stage \in Stage /\ legacy \in BOOLEAN
  /\ leaves \in Seq(Leaf) /\ summaries \in Seq(Summary)
  /\ branch \in 1..Len(summaries) + 1
  /\ unread \in Seq(Leaf) /\ children \subseteq Leaf
  /\ queue \in Seq(Node)
  /\ consumed \in Nat /\ spent \in 0..consumed
  /\ picked \in Seq([node : Node, score : Int])
  /\ trace \in Seq([node : Node, as : SelectedAs])
  /\ marking \in Seq(Node) /\ seen \in Nat \cup {NotRead}
  /\ packed \in Seq(Node) /\ used \in Nat

(* The allowances of the branches, the supplemental leaves and flat retrieval  *)
(* together keep within token_budget.  Only the leaf-first exits answer with *)
(* a leaf whose tokens nobody compares to it, and then with that leaf alone. *)
BudgetKept ==
  \/ consumed <= request.budget
  \/ Len(picked) = 1 /\ trace[1].as = "query_router_flat"

(* The sum of a sequence of numbers.                                         *)
Total(s) ==
  LET upTo[i \in 0..Len(s)] == IF i = 0 THEN 0 ELSE upTo[i - 1] + s[i]
  IN upTo[Len(s)]

(* When _retrieve_legacy returns, its `consumed`, its trace and its selection   *)
(* are about the same nodes, and no node is selected twice, though branches  *)
(* share leaves and supplemental leaves come from a listing of all of them.  *)
BookkeepingAgrees == stage \in {"pack", "done"} =>
  /\ Traced = PickedNodes
  /\ Len(trace) = Len(picked) /\ Cardinality(PickedNodes) = Len(picked)
  /\ consumed = Total([i \in DOMAIN trace |-> Tokens(trace[i].node)])

(* The accesses to n that were counted: those of other calls, and one of this   *)
(* call when it has selected n and is done with marking it.                  *)
Made(n) == others[n] + IF n \in Traced \ Range(marking) THEN 1 ELSE 0

(* A call counts one access to each node it selected and none to any other,    *)
(* though it probes the leaves twice and may fall back to flat retrieval: an *)
(* access_count is never higher than the accesses made.  It is lower only    *)
(* when the row was deleted under way or the count was last written, by this *)
(* call, another, a build or a verify_job, from one that was no longer the   *)
(* row's: nothing else loses an access.                                      *)
AccessOnceEach ==
  \A n \in stored :
    /\ accesses[n] <= Made(n)
    /\ n \notin deleted \cup outdated => accesses[n] = Made(n)

(* An empty selection means that no leaf that was there all the time fits the  *)
(* budget, however the branches were shared out (or branch_limit is 0).      *)
NothingFitsIfEmpty == stage = "done" /\ picked = <<>> =>
  \/ FlatLimit = 0
  \/ \A n \in (FirstNodes \cap stored \cap Leaf) \ deleted : Tokens(n) > request.budget

(* The context is within the budget, unless the query alone exceeds it; no two *)
(* of its nodes overlap; and it leaves out only what overlaps something in   *)
(* it or no longer fits.                                                     *)
ContextPacked == stage = "done" =>
  /\ used <= AtLeast(request.budget, q.tokens)
  /\ used = q.tokens + Total([i \in DOMAIN packed |-> SnippetTokens(packed[i])])
  /\ \A i, j \in DOMAIN packed : i < j =>
       packed[i] # packed[j] /\ {packed[i], packed[j]} \notin Similar
  /\ \A n \in PickedNodes : Overlaps(n) \/ ~FitsContext(n)

(* Every call comes to an answer, unless a row is deleted while it is marked:  *)
(* the loops over branches, children, supplemental leaves and flat           *)
(* candidates all end.                                                       *)
EveryCallEnds == stage # "idle" ~> stage \in {"done", "failed"}
=============================================================================

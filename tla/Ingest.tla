------------------------------- MODULE Ingest -------------------------------
(***************************************************************************)
(* The ways a leaf of one agent comes into the store: POST                   *)
(* /v1/memories/ingest calls write_l0 (storage.py) for one record, and       *)
(* /v1/memories/ingest/batch calls ingest_batch (services.py) for several,   *)
(* which may build the summaries afterwards.  The handlers run in a thread   *)
(* pool, so calls overlap.                                                  *)
(*                                                                          *)
(* A record whose event id is known is not stored again.  Whether it is      *)
(* known is asked in one transaction (twice for a batch) and the leaf        *)
(* written in another.  The text of a record is left out.                   *)
(***************************************************************************)
EXTENDS Naturals, Sequences

CONSTANTS
  Caller,   \* threads that serve an ingest request
  Node,     \* node ids: the finite pool uuid4 draws from (a bound)
  NoLeaf,   \* no row with this id
  Event,    \* event ids
  NoEvent,  \* a record without event id
  Record,   \* the records that requests contain
  Batch     \* the record lists of batch requests

(* What the store keeps of a leaf; `raced` records the leaves that other       *)
(* calls stored between its check and its write.                             *)
Leaf == [record : Record, raced : SUBSET Node]

ASSUME RecordsAssumption ==
  /\ Record \subseteq [event : Event \cup {NoEvent}, time : Nat, allow : BOOLEAN]
  /\ Batch \subseteq Seq(Record)
  /\ NoEvent \notin Event
  /\ NoLeaf \notin Leaf

VARIABLES
  leaves,      \* level L0 of memory_nodes
  summarized,  \* leaves that were in the store when a build listed them
  call         \* locals of each caller

vars == <<leaves, summarized, call>>

Stage == {"idle", "next", "check", "write", "build", "respond"}

(* `records` and `sorted` are the request; `written`, the ids of the leaves   *)
(* this call stored, and `raced` are recorded for the properties.            *)
Call == [stage : Stage, batch : BOOLEAN, sorted : BOOLEAN, build : BOOLEAN,
         records : Seq(Record), todo : Seq(Record), ingested : Seq(Node),
         duplicates : Seq(Record), written : SUBSET Node, raced : SUBSET Node]

NewCall(stage, batch, sorted, build, records, todo) ==
  [stage |-> stage, batch |-> batch, sorted |-> sorted, build |-> build,
   records |-> records, todo |-> todo, ingested |-> <<>>,
   duplicates |-> <<>>, written |-> {}, raced |-> {}]
Idle == NewCall("idle", FALSE, FALSE, FALSE, <<>>, <<>>)

Stored(n) == leaves[n] # NoLeaf

Init ==
  /\ leaves = [n \in Node |-> NoLeaf]
  /\ summarized = {}
  /\ call = [c \in Caller |-> Idle]

-----------------------------------------------------------------------------
Deduped(r) == r.event # NoEvent /\ ~r.allow

(* Slip: the event id is not compared. *)
SlipKnownAny(event) == \E n \in Node : Stored(n)

(* find_existing_l0_by_event_id: whether there is a leaf of the event, and    *)
(* the one that is returned, the earliest.                                   *)
Known(event) == \E n \in Node : Stored(n) /\ leaves[n].record.event = event

ExistingL0(event) ==
  LET found == {n \in Node : Stored(n) /\ leaves[n].record.event = event}
  IN  {n \in found : \A m \in found : leaves[n].record.time <= leaves[m].record.time}

(* Slip: the flag is ignored and the records stay as they came. *)
SlipArrangedAsGiven(records, sorted, todo) == todo = records

(* The records as they came or, sorted by timestamp, records of the same time  *)
(* as they came.                                                             *)
Arranged(records, sorted, todo) ==
  IF ~sorted THEN todo = records
  ELSE \E p \in [DOMAIN records -> DOMAIN records] :
         /\ \A i \in DOMAIN records : \E j \in DOMAIN records : p[j] = i
         /\ todo = [i \in DOMAIN records |-> records[p[i]]]
         /\ \A i, j \in DOMAIN records : i < j =>
              \/ records[p[i]].time < records[p[j]].time
              \/ records[p[i]].time = records[p[j]].time /\ p[i] < p[j]

Orders(records) == {[i \in DOMAIN records |-> records[p[i]]] :
                     p \in [DOMAIN records -> DOMAIN records]}

ReceiveBatch(c) ==
  \E records \in Batch, sorted, build \in BOOLEAN : \E todo \in Orders(records) :
    /\ call[c].stage = "idle"
    /\ Arranged(records, sorted, todo)
    /\ call' = [call EXCEPT ![c] = NewCall("next", TRUE, sorted, build, records, todo)]
    /\ UNCHANGED <<leaves, summarized>>

(* ingest_memory, the endpoint for one record, goes straight to write_l0. *)
ReceiveOne(c) ==
  \E r \in Record :
    /\ call[c].stage = "idle"
    /\ call' = [call EXCEPT ![c] = NewCall("check", FALSE, FALSE, FALSE, <<r>>, <<r>>)]
    /\ UNCHANGED <<leaves, summarized>>

(* The loop of ingest_batch: a known event is noted as a duplicate. *)
FindDuplicate(c) ==
  LET r == Head(call[c].todo)
  IN  /\ call[c].stage = "next"
      /\ call[c].todo # <<>>
      /\ call' = [call EXCEPT ![c] =
           IF Deduped(r) /\ Known(r.event)
           THEN [call[c] EXCEPT !.duplicates = Append(call[c].duplicates, r),
                                !.todo = Tail(call[c].todo)]
           ELSE [call[c] EXCEPT !.stage = "check"]]
      /\ UNCHANGED <<leaves, summarized>>

(* Slip: the loop goes on without asking whether a record is left. *)
SlipAfterWriteGoesOn(batch) == IF batch THEN "check" ELSE "respond"

(* A batch goes on with its next record; a single request is answered. *)
AfterWrite(batch) == IF batch THEN "next" ELSE "respond"

(* Slip: write_l0 does not look again. *)
SlipCheckNothing(c) ==
  /\ call[c].stage = "check"
  /\ call' = [call EXCEPT ![c].stage = "write"]
  /\ UNCHANGED <<leaves, summarized>>

(* write_l0 looks for the event itself, and returns the leaf there is. *)
CheckBeforeWrite(c) ==
  LET r == Head(call[c].todo)
  IN  /\ call[c].stage = "check"
      /\ IF Deduped(r) /\ Known(r.event)
         THEN \E n \in ExistingL0(r.event) :
                call' = [call EXCEPT ![c].stage = AfterWrite(call[c].batch),
                                     ![c].ingested = Append(@, n), ![c].todo = Tail(@)]
         ELSE call' = [call EXCEPT ![c].stage = "write"]
      /\ UNCHANGED <<leaves, summarized>>

(* upsert_node stores the leaf under a fresh id. *)
WriteLeaf(c) ==
  \E n \in Node :
    /\ call[c].stage = "write"
    /\ ~Stored(n)
    /\ leaves' = [leaves EXCEPT
         ![n] = [record |-> Head(call[c].todo), raced |-> call[c].raced]]
    /\ call' = [d \in Caller |->
         IF d = c
         THEN [call[c] EXCEPT !.stage = AfterWrite(call[c].batch),
                              !.ingested = Append(@, n), !.todo = Tail(@),
                              !.written = @ \cup {n}, !.raced = {}]
         ELSE IF call[d].stage = "write" THEN [call[d] EXCEPT !.raced = @ \cup {n}]
         ELSE call[d]]
    /\ UNCHANGED summarized

(* Slip: no build when a record was a duplicate. *)
SlipLoopEndsBuildsIfAllNew(c) ==
  /\ call[c].stage = "next"
  /\ call[c].todo = <<>>
  /\ call' = [call EXCEPT ![c].stage =
       IF call[c].build /\ call[c].duplicates = <<>> /\ call[c].ingested # <<>>
       THEN "build" ELSE "respond"]
  /\ UNCHANGED <<leaves, summarized>>

(* After the loop the summaries are built, if asked for and anything is new. *)
LoopEnds(c) ==
  /\ call[c].stage = "next"
  /\ call[c].todo = <<>>
  /\ call' = [call EXCEPT ![c].stage =
       IF call[c].build /\ call[c].ingested # <<>> THEN "build" ELSE "respond"]
  /\ UNCHANGED <<leaves, summarized>>

(* build_summaries lists the leaves there are (module SummaryTree). *)
BuildSummaries(c) ==
  /\ call[c].stage = "build"
  /\ summarized' = {n \in Node : Stored(n)}
  /\ call' = [call EXCEPT ![c].stage = "respond"]
  /\ UNCHANGED leaves

Respond(c) ==
  /\ call[c].stage = "respond"
  /\ call' = [call EXCEPT ![c] = Idle]
  /\ UNCHANGED <<leaves, summarized>>

(* A transaction or the build raises, or the process stops; the leaves        *)
(* written so far stay.                                                      *)
Fail(c) ==
  /\ call[c].stage \notin {"idle", "respond"}
  /\ call' = [call EXCEPT ![c] = Idle]
  /\ UNCHANGED <<leaves, summarized>>

Receive(c) == ReceiveBatch(c) \/ ReceiveOne(c)

Step(c) ==
  \/ FindDuplicate(c) \/ CheckBeforeWrite(c) \/ WriteLeaf(c)
  \/ LoopEnds(c) \/ BuildSummaries(c) \/ Respond(c)

Next == \E c \in Caller : Receive(c) \/ Step(c) \/ Fail(c)

Spec == Init /\ [][Next]_vars

-----------------------------------------------------------------------------
(* Types, and: whoever is about to check or to write has a record. *)
TypeOK ==
  /\ leaves \in [Node -> Leaf \cup {NoLeaf}]
  /\ summarized \subseteq {n \in Node : Stored(n)}
  /\ call \in [Caller -> Call]
  /\ \A c \in Caller : call[c].stage \in {"check", "write"} => call[c].todo # <<>>

(* Importing an event twice leaves one leaf: two leaves of one event both     *)
(* written under deduplication never exist.                                  *)
OneLeafPerEvent ==
  \A m, n \in Node :
    (/\ m # n /\ Stored(m) /\ Stored(n)
     /\ Deduped(leaves[m].record) /\ Deduped(leaves[n].record))
    => leaves[m].record.event # leaves[n].record.event

(* Failing that, a second leaf of an event takes two calls that overlap: the  *)
(* other leaf was stored between this call's check and its write.  A request  *)
(* sent again, after an answer or after a failure, never makes one.          *)
DuplicatesOnlyFromRace ==
  \A m, n \in Node :
    (/\ m # n /\ Stored(m) /\ Stored(n)
     /\ Deduped(leaves[m].record) /\ Deduped(leaves[n].record)
     /\ leaves[m].record.event = leaves[n].record.event)
    => m \in leaves[n].raced \/ n \in leaves[m].raced

(* No event is lost: when a request is answered each of its events has a leaf, *)
(* whoever wrote it.                                                         *)
EventsCovered ==
  \A c \in Caller : call[c].stage = "respond" =>
    \A i \in DOMAIN call[c].records :
      LET e == call[c].records[i].event
      IN  e # NoEvent => \E n \in Node : Stored(n) /\ leaves[n].record.event = e

(* A sorted batch that repeats an event keeps the earliest record: none is    *)
(* dropped for a later one that the same call stored, unless that one allowed *)
(* duplicates and would have been stored anyway.                             *)
EarliestKept ==
  \A c \in Caller : call[c].sorted =>
    \A i \in DOMAIN call[c].duplicates, n \in call[c].written :
      (/\ Deduped(leaves[n].record)
       /\ leaves[n].record.event = call[c].duplicates[i].event)
      => leaves[n].record.time <= call[c].duplicates[i].time

(* A batch that asked for summaries returns no leaf that no build has seen,   *)
(* also when some of its records were duplicates.                            *)
BuildCovers ==
  \A c \in Caller : call[c].stage = "respond" /\ call[c].build =>
    \A i \in DOMAIN call[c].ingested : call[c].ingested[i] \in summarized

=============================================================================

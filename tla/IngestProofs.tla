---------------------------- MODULE IngestProofs ----------------------------
(***************************************************************************)
(* What deduplication by event id guarantees for any number of callers,      *)
(* records and batches, and what it guarantees without concurrency.          *)
(***************************************************************************)
EXTENDS Ingest, TLAPS

(* A call about to write a deduplicated record has counted every leaf of the  *)
(* event as a racer: when it checked there was none.                         *)
RacersKnown ==
  \A c \in Caller : \A n \in Node :
    (/\ call[c].stage = "write" /\ Deduped(Head(call[c].todo))
     /\ Stored(n) /\ leaves[n].record.event = Head(call[c].todo).event)
    => n \in call[c].raced

(* Every event of call x is stored or still to do, and a call that is past    *)
(* its last record has nothing left to do.                                   *)
Accounted(x) ==
  /\ \A i \in DOMAIN x.records :
       \/ x.records[i].event = NoEvent \/ Known(x.records[i].event)
       \/ \E j \in DOMAIN x.todo : x.todo[j].event = x.records[i].event
  /\ x.stage \in {"build", "respond"} => x.todo = <<>>
  /\ x.stage \in {"check", "write"} /\ ~x.batch => Tail(x.todo) = <<>>
  /\ x.stage = "next" => x.batch

-----------------------------------------------------------------------------
LEMMA NewCallTyped ==
  ASSUME NEW stage \in Stage, NEW batch \in BOOLEAN, NEW sorted \in BOOLEAN,
         NEW build \in BOOLEAN, NEW records \in Seq(Record), NEW todo \in Seq(Record)
  PROVE  NewCall(stage, batch, sorted, build, records, todo) \in Call
BY DEF NewCall, Call

LEMMA IdleTyped == Idle \in Call /\ Idle.stage = "idle"
<1>1. "idle" \in Stage /\ FALSE \in BOOLEAN /\ <<>> \in Seq(Record)
  BY DEF Stage
<1>2. Idle \in Call
  <2> HIDE DEF Call, NewCall, Stage
  <2> QED
    BY <1>1, NewCallTyped DEF Idle
<1> QED
  BY <1>2 DEF Idle, NewCall

(* The first record of a call is taken off its list. *)
LEMMA RecordTaken ==
  ASSUME NEW x \in Call, x.todo # <<>>
  PROVE  /\ Head(x.todo) \in Record /\ Tail(x.todo) \in Seq(Record)
         /\ Append(x.duplicates, Head(x.todo)) \in Seq(Record)
         /\ \A n \in Node : Append(x.ingested, n) \in Seq(Node)
<1>1. x.todo \in Seq(Record) /\ x.duplicates \in Seq(Record) /\ x.ingested \in Seq(Node)
  BY DEF Call
<1>2. Head(x.todo) \in Record /\ Tail(x.todo) \in Seq(Record)
  BY <1>1
<1> QED
  BY <1>1, <1>2

(* A call that waits to store its record while another stores one. *)
LEMMA RacedCall ==
  ASSUME NEW x \in Call, NEW n \in Node
  PROVE  LET y == [x EXCEPT !.raced = @ \cup {n}]
         IN  y \in Call /\ y.todo = x.todo
BY DEF Call

(* Sorting a list of records gives a list of records. *)
LEMMA OrdersTyped ==
  ASSUME NEW records \in Batch, NEW todo \in Orders(records)
  PROVE  todo \in Seq(Record) /\ records \in Seq(Record)
<1>1. records \in Seq(Record)
  BY RecordsAssumption
<1>2. PICK p \in [DOMAIN records -> DOMAIN records] :
        todo = [i \in DOMAIN records |-> records[p[i]]]
  BY DEF Orders
<1>3. DOMAIN records = 1 .. Len(records) /\ \A i \in DOMAIN records : records[i] \in Record
  BY <1>1
<1>4. todo \in [1 .. Len(records) -> Record]
  BY <1>2, <1>3
<1>5. Len(records) \in Nat
  BY <1>1
<1> QED
  BY <1>1, <1>4, <1>5

(* A step that only replaces the locals of one call by well-formed ones. *)
LEMMA StepTyped ==
  ASSUME TypeOK, NEW c \in Caller, NEW x \in Call, call' = [call EXCEPT ![c] = x],
         UNCHANGED <<leaves, summarized>>,
         x.stage \in {"check", "write"} => x.todo # <<>>
  PROVE  TypeOK'
BY DEF TypeOK, Stored

(* Every step keeps the leaves and each call well-formed, and a call that is  *)
(* about to check or to write has a record to do it for.                     *)
THEOREM TypeCorrect == Spec => []TypeOK
<1>1. Init => TypeOK
  BY IdleTyped DEF Init, TypeOK, Stored
<1>2. TypeOK /\ [Next]_vars => TypeOK'
  <2> SUFFICES ASSUME TypeOK, [Next]_vars PROVE TypeOK'
    OBVIOUS
  <2>1. CASE UNCHANGED vars
    BY <2>1 DEF vars, TypeOK, Stored
  <2>2. ASSUME NEW c \in Caller, Receive(c) \/ Step(c) \/ Fail(c) PROVE TypeOK'
    <3>0. call[c] \in Call /\ call \in [Caller -> Call]
      BY DEF TypeOK
    <3>t. /\ call[c].todo \in Seq(Record) /\ call[c].ingested \in Seq(Node)
          /\ call[c].duplicates \in Seq(Record) /\ call[c].batch \in BOOLEAN
          /\ call[c].raced \subseteq Node /\ call[c].written \subseteq Node
      BY <3>0 DEF Call
    <3>a. AfterWrite(call[c].batch) \in {"next", "respond"}
      BY DEF AfterWrite
    <3>1. CASE ReceiveBatch(c)
      <4>0. PICK records \in Batch, sorted \in BOOLEAN, build \in BOOLEAN :
              \E todo \in Orders(records) :
                /\ call' = [call EXCEPT ![c] =
                             NewCall("next", TRUE, sorted, build, records, todo)]
                /\ UNCHANGED <<leaves, summarized>>
        BY <3>1 DEF ReceiveBatch
      <4>1. PICK todo \in Orders(records) :
              /\ call' = [call EXCEPT ![c] =
                           NewCall("next", TRUE, sorted, build, records, todo)]
              /\ UNCHANGED <<leaves, summarized>>
        BY <4>0
      <4> DEFINE x == NewCall("next", TRUE, sorted, build, records, todo)
      <4>2. x \in Call /\ x.stage = "next"
        BY NewCallTyped, OrdersTyped DEF Stage, NewCall
      <4> HIDE DEF x
      <4> QED
        BY <4>1, <4>2, StepTyped DEF x
    <3>2. CASE ReceiveOne(c)
      <4>1. PICK r \in Record :
              /\ call' = [call EXCEPT ![c] =
                           NewCall("check", FALSE, FALSE, FALSE, <<r>>, <<r>>)]
              /\ UNCHANGED <<leaves, summarized>>
        BY <3>2 DEF ReceiveOne
      <4> DEFINE x == NewCall("check", FALSE, FALSE, FALSE, <<r>>, <<r>>)
      <4>a. <<r>> \in Seq(Record) /\ <<r>> # <<>> /\ "check" \in Stage
        BY DEF Stage
      <4>b. x \in Call
        BY <4>a, NewCallTyped
      <4>2. x \in Call /\ x.todo # <<>>
        BY <4>a, <4>b DEF NewCall
      <4> HIDE DEF x
      <4> QED
        BY <4>1, <4>2, StepTyped DEF x
    <3>3. CASE FindDuplicate(c)
      <4>1. CASE Deduped(Head(call[c].todo)) /\ Known(Head(call[c].todo).event)
        <5> DEFINE x == [call[c] EXCEPT !.duplicates = Append(call[c].duplicates, Head(call[c].todo)),
                                        !.todo = Tail(call[c].todo)]
        <5>n. call[c].todo # <<>> /\ call[c].stage = "next"
          BY <3>3 DEF FindDuplicate
        <5>r. /\ Tail(call[c].todo) \in Seq(Record)
              /\ Append(call[c].duplicates, Head(call[c].todo)) \in Seq(Record)
          BY <3>0, <5>n, RecordTaken
        <5>1. x \in Call /\ x.stage = "next"
          BY <3>0, <5>n, <5>r DEF Call
        <5>2. call' = [call EXCEPT ![c] = x] /\ UNCHANGED <<leaves, summarized>>
          BY <3>3, <4>1 DEF FindDuplicate
        <5> HIDE DEF x
        <5> QED
          BY <5>1, <5>2, StepTyped
      <4>2. CASE ~(Deduped(Head(call[c].todo)) /\ Known(Head(call[c].todo).event))
        <5> DEFINE x == [call[c] EXCEPT !.stage = "check"]
        <5>1. x \in Call /\ x.todo # <<>>
          BY <3>0, <3>3 DEF FindDuplicate, Call, Stage
        <5>2. call' = [call EXCEPT ![c] = x] /\ UNCHANGED <<leaves, summarized>>
          BY <3>3, <4>2 DEF FindDuplicate
        <5> HIDE DEF x
        <5> QED
          BY <5>1, <5>2, StepTyped
      <4> QED
        BY <4>1, <4>2
    <3>4. CASE CheckBeforeWrite(c)
      <4>1. CASE Deduped(Head(call[c].todo)) /\ Known(Head(call[c].todo).event)
        <5>0. PICK n \in Node :
                call' = [call EXCEPT ![c].stage = AfterWrite(call[c].batch),
                                     ![c].ingested = Append(@, n), ![c].todo = Tail(@)]
          BY <3>4, <4>1 DEF CheckBeforeWrite, ExistingL0
        <5> DEFINE x == [call[c] EXCEPT !.stage = AfterWrite(call[c].batch),
                                        !.ingested = Append(@, n), !.todo = Tail(@)]
        <5>n. call[c].todo # <<>>
          BY <3>4 DEF CheckBeforeWrite, TypeOK
        <5>r. Tail(call[c].todo) \in Seq(Record) /\ Append(call[c].ingested, n) \in Seq(Node)
          BY <3>0, <5>n, RecordTaken
        <5>1. x \in Call /\ x.stage \in {"next", "respond"}
          BY <3>0, <3>a, <5>r DEF Call, Stage
        <5>2. call' = [call EXCEPT ![c] = x] /\ UNCHANGED <<leaves, summarized>>
          BY <3>0, <3>4, <5>0 DEF CheckBeforeWrite
        <5> HIDE DEF x
        <5> QED
          BY <5>1, <5>2, StepTyped
      <4>2. CASE ~(Deduped(Head(call[c].todo)) /\ Known(Head(call[c].todo).event))
        <5> DEFINE x == [call[c] EXCEPT !.stage = "write"]
        <5>1. x \in Call /\ x.todo # <<>>
          BY <3>0, <3>4 DEF CheckBeforeWrite, TypeOK, Call, Stage
        <5>2. call' = [call EXCEPT ![c] = x] /\ UNCHANGED <<leaves, summarized>>
          BY <3>4, <4>2 DEF CheckBeforeWrite
        <5> HIDE DEF x
        <5> QED
          BY <5>1, <5>2, StepTyped
      <4> QED
        BY <4>1, <4>2
    <3>5. CASE WriteLeaf(c)
      <4>1. PICK n \in Node :
              /\ ~Stored(n)
              /\ leaves' = [leaves EXCEPT
                   ![n] = [record |-> Head(call[c].todo), raced |-> call[c].raced]]
              /\ call' = [d \in Caller |->
                   IF d = c
                   THEN [call[c] EXCEPT !.stage = AfterWrite(call[c].batch),
                                        !.ingested = Append(@, n), !.todo = Tail(@),
                                        !.written = @ \cup {n}, !.raced = {}]
                   ELSE IF call[d].stage = "write" THEN [call[d] EXCEPT !.raced = @ \cup {n}]
                   ELSE call[d]]
        BY <3>5 DEF WriteLeaf
      <4>2. call[c].todo # <<>> /\ UNCHANGED summarized
        BY <3>5 DEF WriteLeaf, TypeOK
      <4> DEFINE leaf == [record |-> Head(call[c].todo), raced |-> call[c].raced]
      <4>3. leaf \in Leaf
        BY <3>t, <4>2 DEF Leaf
      <4>4. leaves' \in [Node -> Leaf \cup {NoLeaf}]
        BY <4>1, <4>3 DEF TypeOK
      <4>5. leaf # NoLeaf
        BY <4>3, RecordsAssumption
      <4>6. summarized' \subseteq {m \in Node : Stored(m)'}
        BY <4>1, <4>2, <4>5 DEF TypeOK, Stored
      <4>7. ASSUME NEW d \in Caller
            PROVE  call'[d] \in Call /\ (call'[d].stage \in {"check", "write"} =>
                                           call'[d].todo # <<>>)
        <5>0. call[d] \in Call
          BY DEF TypeOK
        <5>1. CASE d = c
          <6>1. PICK x, after, todo, ingested, written :
                  /\ x = call[c] /\ after = AfterWrite(x.batch) /\ todo = Tail(x.todo)
                  /\ ingested = Append(x.ingested, n) /\ written = x.written \cup {n}
            OBVIOUS
          <6>2. PICK y : y = call'[d]
            OBVIOUS
          <6>3. y = [x EXCEPT !.stage = after, !.ingested = ingested, !.todo = todo,
                              !.written = written, !.raced = {}]
            BY <4>1, <5>1, <6>1, <6>2
          <6>4. todo \in Seq(Record) /\ ingested \in Seq(Node)
            BY <3>0, <4>2, <6>1, RecordTaken
          <6>5. written \in SUBSET Node /\ after \in {"next", "respond"} /\ x \in Call
            BY <3>t, <3>a, <3>0, <6>1
          <6>6. after \in Stage
            BY <6>5 DEF Stage
          <6>7. y \in Call /\ y.stage = after
            BY <6>3, <6>4, <6>5, <6>6 DEF Call
          <6> QED
            BY <6>2, <6>5, <6>7
        <5>2. CASE d # c /\ call[d].stage = "write"
          <6>1. call'[d] = [call[d] EXCEPT !.raced = @ \cup {n}]
            BY <4>1, <5>2
          <6>2. call[d].todo # <<>>
            BY <5>2 DEF TypeOK
          <6> QED
            BY <5>0, <6>1, <6>2, RacedCall
        <5>3. CASE d # c /\ call[d].stage # "write"
          <6>1. call'[d] = call[d]
            BY <4>1, <5>3
          <6> QED
            BY <5>0, <6>1 DEF TypeOK
        <5> QED
          BY <5>1, <5>2, <5>3
      <4>8. call' \in [Caller -> Call]
        BY <4>1, <4>7
      <4> QED
        BY <4>4, <4>6, <4>7, <4>8 DEF TypeOK
    <3>6. CASE LoopEnds(c)
      <4> DEFINE next == IF call[c].build /\ call[c].ingested # <<>> THEN "build" ELSE "respond"
                 x == [call[c] EXCEPT !.stage = next]
      <4>1. next \in {"build", "respond"}
        OBVIOUS
      <4> HIDE DEF next
      <4>2. x \in Call /\ x.stage \notin {"check", "write"}
        BY <3>0, <4>1 DEF Call, Stage
      <4>3. call' = [call EXCEPT ![c] = x] /\ UNCHANGED <<leaves, summarized>>
        BY <3>6 DEF LoopEnds, next
      <4> HIDE DEF x
      <4> QED
        BY <4>2, <4>3, StepTyped
    <3>7. CASE BuildSummaries(c)
      BY <3>0, <3>7 DEF BuildSummaries, TypeOK, Call, Stage, Stored
    <3>8. CASE Respond(c) \/ Fail(c)
      BY <3>8, IdleTyped, StepTyped DEF Respond, Fail
    <3> QED
      BY <2>2, <3>1, <3>2, <3>3, <3>4, <3>5, <3>6, <3>7, <3>8 DEF Receive, Step
  <2> QED
    BY <2>1, <2>2 DEF Next
<1> QED
  BY <1>1, <1>2, PTL DEF Spec

(* Which step each action makes of the call c; only WriteLeaf writes a leaf. *)
LEMMA CallSteps ==
  ASSUME TypeOK, NEW c \in Caller, Receive(c) \/ Step(c) \/ Fail(c), ~WriteLeaf(c)
  PROVE  /\ UNCHANGED leaves
         /\ \A d \in Caller : d # c => call'[d] = call[d]
         /\ call'[c].raced = {} \/ call'[c].raced = call[c].raced
         /\ \/ call'[c].stage # "write"
            \/ /\ call[c].stage = "check" /\ call'[c] = [call[c] EXCEPT !.stage = "write"]
               /\ ~(Deduped(Head(call[c].todo)) /\ Known(Head(call[c].todo).event))
<1>0. call \in [Caller -> Call] /\ call[c] \in Call
  BY DEF TypeOK
<1>1. CASE Receive(c)
  BY <1>0, <1>1 DEF Receive, ReceiveBatch, ReceiveOne, NewCall
<1>2. CASE FindDuplicate(c)
  BY <1>0, <1>2 DEF FindDuplicate, Call
<1>3. CASE CheckBeforeWrite(c)
  <2>1. CASE Deduped(Head(call[c].todo)) /\ Known(Head(call[c].todo).event)
    <3>1. AfterWrite(call[c].batch) # "write"
      BY DEF AfterWrite
    <3>2. PICK n \in Node :
            call' = [call EXCEPT ![c].stage = AfterWrite(call[c].batch),
                                 ![c].ingested = Append(@, n), ![c].todo = Tail(@)]
      BY <1>3, <2>1 DEF CheckBeforeWrite, ExistingL0
    <3>3. /\ call'[c].stage = AfterWrite(call[c].batch) /\ call'[c].raced = call[c].raced
          /\ \A d \in Caller : d # c => call'[d] = call[d]
      <4> HIDE <1>3, <2>1
      <4> QED
        BY <1>0, <3>2 DEF Call
    <3>4. UNCHANGED leaves
      BY <1>3 DEF CheckBeforeWrite
    <3> QED
      BY <3>1, <3>3, <3>4
  <2>2. CASE ~(Deduped(Head(call[c].todo)) /\ Known(Head(call[c].todo).event))
    <3>1. /\ call' = [call EXCEPT ![c].stage = "write"]
          /\ call[c].stage = "check" /\ UNCHANGED leaves
      BY <1>3, <2>2 DEF CheckBeforeWrite
    <3>2. call'[c] = [call[c] EXCEPT !.stage = "write"]
      BY <1>0, <3>1
    <3>3. call'[c].raced = call[c].raced
      BY <1>0, <3>2 DEF Call
    <3> QED
      BY <1>0, <2>2, <3>1, <3>2, <3>3
  <2> QED
    BY <2>1, <2>2
<1>4. CASE LoopEnds(c)
  BY <1>0, <1>4 DEF LoopEnds, Call
<1>5. CASE BuildSummaries(c)
  BY <1>0, <1>5 DEF BuildSummaries, Call
<1>6. CASE Respond(c) \/ Fail(c)
  BY <1>0, <1>6, IdleTyped DEF Respond, Fail, Idle, NewCall
<1> QED
  BY <1>1, <1>2, <1>3, <1>4, <1>5, <1>6 DEF Step

(* What WriteLeaf does, with the leaf it writes. *)
LEMMA WriteStep ==
  ASSUME TypeOK, NEW c \in Caller, WriteLeaf(c)
  PROVE  \E n \in Node :
           /\ ~Stored(n) /\ Stored(n)'
           /\ leaves'[n].record = Head(call[c].todo) /\ leaves'[n].raced = call[c].raced
           /\ \A m \in Node : m # n => leaves'[m] = leaves[m]
           /\ call[c].stage = "write" /\ call'[c].stage = AfterWrite(call[c].batch)
           /\ call'[c].todo = Tail(call[c].todo) /\ call'[c].records = call[c].records
           /\ call'[c].batch = call[c].batch /\ call'[c].raced = {}
           /\ \A d \in Caller : d # c =>
                /\ call'[d].stage = call[d].stage /\ call'[d].todo = call[d].todo
                /\ call'[d].records = call[d].records /\ call'[d].batch = call[d].batch
                /\ call[d].stage = "write" => call'[d].raced = call[d].raced \cup {n}
<1>0. call \in [Caller -> Call] /\ \A d \in Caller : call[d] \in Call
  BY DEF TypeOK
<1>1. PICK n \in Node :
        /\ ~Stored(n)
        /\ leaves' = [leaves EXCEPT
             ![n] = [record |-> Head(call[c].todo), raced |-> call[c].raced]]
        /\ call' = [d \in Caller |->
             IF d = c
             THEN [call[c] EXCEPT !.stage = AfterWrite(call[c].batch),
                                  !.ingested = Append(@, n), !.todo = Tail(@),
                                  !.written = @ \cup {n}, !.raced = {}]
             ELSE IF call[d].stage = "write" THEN [call[d] EXCEPT !.raced = @ \cup {n}]
             ELSE call[d]]
  BY DEF WriteLeaf
<1>2. call[c].todo # <<>> /\ call[c].stage = "write"
  BY DEF WriteLeaf, TypeOK
<1>3. /\ leaves'[n] = [record |-> Head(call[c].todo), raced |-> call[c].raced]
      /\ \A m \in Node : m # n => leaves'[m] = leaves[m]
  BY <1>1 DEF TypeOK
<1>4. leaves'[n] \in Leaf
  BY <1>0, <1>2, <1>3, RecordTaken DEF Leaf, Call
<1>5. Stored(n)'
  BY <1>4, RecordsAssumption DEF Stored
<1>6. ASSUME NEW d \in Caller, d # c
      PROVE  /\ call'[d].stage = call[d].stage /\ call'[d].todo = call[d].todo
             /\ call'[d].records = call[d].records /\ call'[d].batch = call[d].batch
             /\ call[d].stage = "write" => call'[d].raced = call[d].raced \cup {n}
  BY <1>0, <1>1, <1>6 DEF Call
<1>7. call'[c] = [call[c] EXCEPT !.stage = AfterWrite(call[c].batch),
                                 !.ingested = Append(@, n), !.todo = Tail(@),
                                 !.written = @ \cup {n}, !.raced = {}]
  BY <1>1
<1>8. /\ call'[c].stage = AfterWrite(call[c].batch)
      /\ call'[c].todo = Tail(call[c].todo) /\ call'[c].records = call[c].records
      /\ call'[c].batch = call[c].batch /\ call'[c].raced = {}
  BY <1>0, <1>7 DEF Call
<1>9. ~Stored(n)
  BY <1>1
<1> QED
  BY <1>2, <1>3, <1>5, <1>6, <1>8, <1>9

(* However many calls overlap or fail, a second leaf of an event takes another *)
(* call that stored its leaf between this one's check and its write.          *)
THEOREM RaceNeeded == Spec => []DuplicatesOnlyFromRace
<1> DEFINE Inv == RacersKnown /\ DuplicatesOnlyFromRace
<1>1. Init => Inv
  BY IdleTyped DEF Init, RacersKnown, DuplicatesOnlyFromRace, Stored
<1>2. TypeOK /\ Inv /\ [Next]_vars => Inv'
  <2> SUFFICES ASSUME TypeOK, Inv, [Next]_vars PROVE Inv'
    OBVIOUS
  <2>1. CASE UNCHANGED vars
    BY <2>1 DEF vars, RacersKnown, DuplicatesOnlyFromRace, Stored
  <2>2. ASSUME NEW c \in Caller, Receive(c) \/ Step(c) \/ Fail(c), ~WriteLeaf(c)
        PROVE  Inv'
    <3>1. UNCHANGED leaves /\ \A d \in Caller : d # c => call'[d] = call[d]
      BY <2>2, CallSteps
    <3>2. DuplicatesOnlyFromRace'
      BY <3>1 DEF DuplicatesOnlyFromRace, Stored
    <3>3. CASE call'[c].stage # "write"
      BY <3>1, <3>2, <3>3 DEF RacersKnown, Stored
    <3>4. CASE call'[c].stage = "write"
      <4>1. call'[c].todo = call[c].todo
        <5>1. call'[c] = [call[c] EXCEPT !.stage = "write"]
          BY <2>2, <3>4, CallSteps
        <5>2. call[c] \in Call
          BY DEF TypeOK
        <5> QED
          BY <5>1, <5>2 DEF Call
      <4>2. ~(Deduped(Head(call[c].todo)) /\ Known(Head(call[c].todo).event))
        BY <2>2, <3>4, CallSteps
      <4> QED
        BY <3>1, <3>2, <4>1, <4>2 DEF RacersKnown, Stored, Known
    <3> QED
      BY <3>3, <3>4
  <2>3. ASSUME NEW c \in Caller, WriteLeaf(c) PROVE Inv'
    <3>1. PICK n \in Node :
            /\ ~Stored(n) /\ Stored(n)'
            /\ leaves'[n].record = Head(call[c].todo) /\ leaves'[n].raced = call[c].raced
            /\ \A m \in Node : m # n => leaves'[m] = leaves[m]
            /\ call[c].stage = "write" /\ call'[c].stage = AfterWrite(call[c].batch)
            /\ \A d \in Caller : d # c =>
                 /\ call'[d].stage = call[d].stage /\ call'[d].todo = call[d].todo
                 /\ call[d].stage = "write" => call'[d].raced = call[d].raced \cup {n}
      BY <2>3, WriteStep
    <3>2. AfterWrite(call[c].batch) # "write"
      BY DEF AfterWrite
    <3>3. RacersKnown'
      BY <3>1, <3>2 DEF RacersKnown, Stored
    <3>4. ASSUME NEW m \in Node, m # n, Stored(m),
                 Deduped(leaves'[n].record),
                 leaves[m].record.event = leaves'[n].record.event
          PROVE  m \in leaves'[n].raced
      BY <3>1, <3>4 DEF RacersKnown
    <3>5. DuplicatesOnlyFromRace'
      BY <3>1, <3>4 DEF DuplicatesOnlyFromRace, Stored
    <3> QED
      BY <3>3, <3>5
  <2> QED
    BY <2>1, <2>2, <2>3 DEF Next
<1>3. Inv => DuplicatesOnlyFromRace
  OBVIOUS
<1> QED
  BY <1>1, <1>2, <1>3, TypeCorrect, PTL DEF Spec

(* One caller at a time keeps one leaf per event, however often it fails and  *)
(* sends the same records again.                                             *)
THEOREM AloneOneLeaf ==
  ASSUME \A c, d \in Caller : c = d
  PROVE  Spec => []OneLeafPerEvent
<1> DEFINE Alone == /\ \A c \in Caller : call[c].raced = {}
                    /\ \A n \in Node : Stored(n) => leaves[n].raced = {}
<1>1. ASSUME Init PROVE Alone
  <2>1. Idle.raced = {}
    BY DEF Idle, NewCall
  <2> QED
    BY <1>1, <2>1 DEF Init, Stored
<1>2. TypeOK /\ Alone /\ [Next]_vars => Alone'
  <2> SUFFICES ASSUME TypeOK, Alone, [Next]_vars PROVE Alone'
    OBVIOUS
  <2>0. call \in [Caller -> Call] /\ \A c \in Caller : call[c] \in Call
    BY DEF TypeOK
  <2>1. CASE UNCHANGED vars
    BY <2>1 DEF vars, Stored
  <2>2. ASSUME NEW c \in Caller, Receive(c) \/ Step(c) \/ Fail(c), ~WriteLeaf(c)
        PROVE  Alone'
    <3>1. UNCHANGED leaves
      BY <2>2, CallSteps
    <3>2. \A d \in Caller : call'[d].raced = {}
      BY <2>2, CallSteps
    <3> QED
      BY <3>1, <3>2 DEF Stored
  <2>3. ASSUME NEW c \in Caller, WriteLeaf(c) PROVE Alone'
    <3>1. PICK n \in Node :
            /\ leaves'[n].raced = call[c].raced
            /\ call'[c].raced = {}
            /\ \A m \in Node : m # n => leaves'[m] = leaves[m]
      BY <2>3, WriteStep
    <3> QED
      BY <3>1 DEF Stored
  <2> QED
    BY <2>1, <2>2, <2>3 DEF Next
<1>3. DuplicatesOnlyFromRace /\ Alone => OneLeafPerEvent
  BY DEF DuplicatesOnlyFromRace, OneLeafPerEvent
<1> QED
  BY <1>1, <1>2, <1>3, TypeCorrect, RaceNeeded, PTL DEF Spec

(* Taking the first record off a list leaves the others. *)
LEMMA TailKeeps ==
  ASSUME NEW s \in Seq(Record), s # <<>>, NEW j \in DOMAIN s
  PROVE  s[j] = Head(s) \/ \E k \in DOMAIN Tail(s) : Tail(s)[k] = s[j]
<1>1. j \in 1 .. Len(s) /\ Len(s) \in Nat
  OBVIOUS
<1>2. CASE j = 1
  BY <1>2
<1>3. CASE j # 1
  <2>1. j - 1 \in 1 .. Len(Tail(s)) /\ Tail(s)[j - 1] = s[j]
    BY <1>1, <1>3
  <2> QED
    BY <2>1
<1> QED
  BY <1>2, <1>3

(* A leaf stays, so a known event stays known. *)
LEMMA KnownStays ==
  ASSUME TypeOK, Next, NEW e, Known(e)
  PROVE  Known(e)'
<1>1. PICK c \in Caller : Receive(c) \/ Step(c) \/ Fail(c)
  BY DEF Next
<1>2. CASE ~WriteLeaf(c)
  BY <1>1, <1>2, CallSteps DEF Known, Stored
<1>3. CASE WriteLeaf(c)
  <2>1. PICK n \in Node : ~Stored(n) /\ \A m \in Node : m # n => leaves'[m] = leaves[m]
    BY <1>3, WriteStep
  <2> QED
    BY <2>1 DEF Known, Stored
<1> QED
  BY <1>2, <1>3

(* A call that takes its first record off the list, its event now known, goes *)
(* on accounted for.                                                         *)
LEMMA TakenAccounted ==
  ASSUME TypeOK, Next, NEW c \in Caller, Accounted(call[c]), call[c].todo # <<>>,
         call[c].stage \in {"next", "check", "write"},
         call'[c].records = call[c].records, call'[c].batch = call[c].batch,
         call'[c].todo = Tail(call[c].todo), call'[c].stage = AfterWrite(call[c].batch),
         NEW event, event = Head(call[c].todo).event, Known(event)'
  PROVE  Accounted(call[c])'
<1> DEFINE x == call[c]
<1>1. x.todo \in Seq(Record)
  BY DEF TypeOK, Call
<1>2. ASSUME NEW i \in DOMAIN x.records, NEW e, e = x.records[i].event
      PROVE  \/ e = NoEvent \/ Known(e)'
             \/ \E j \in DOMAIN Tail(x.todo) : Tail(x.todo)[j].event = e
  <2>1. CASE e = NoEvent \/ Known(e)
    BY <2>1, KnownStays
  <2>2. ASSUME NEW j \in DOMAIN x.todo, x.todo[j].event = e
        PROVE  \/ Known(e)'
               \/ \E k \in DOMAIN Tail(x.todo) : Tail(x.todo)[k].event = e
    <3>1. x.todo[j] = Head(x.todo) \/ \E k \in DOMAIN Tail(x.todo) : Tail(x.todo)[k] = x.todo[j]
      BY <1>1, TailKeeps
    <3>2. CASE x.todo[j] = Head(x.todo)
      <4>1. e = event
        BY <2>2, <3>2
      <4> QED
        BY <4>1
    <3> QED
      BY <2>2, <3>1, <3>2
  <2> QED
    BY <1>2, <2>1, <2>2 DEF Accounted
<1>3. CASE x.batch
  <2>1. call'[c].stage = "next"
    BY <1>3 DEF AfterWrite
  <2>2. call'[c].batch
    BY <1>3
  <2>3. ASSUME NEW i \in DOMAIN call'[c].records
        PROVE  \/ call'[c].records[i].event = NoEvent \/ Known(call[c].records[i].event)'
               \/ \E j \in DOMAIN call'[c].todo :
                    call'[c].todo[j].event = call'[c].records[i].event
    BY <1>2
  <2> QED
    BY <2>1, <2>2, <2>3 DEF Accounted
<1>4. CASE ~x.batch
  <2>1. call'[c].stage = "respond" /\ Tail(x.todo) = <<>>
    BY <1>4 DEF AfterWrite, Accounted
  <2> QED
    BY <1>2, <1>4, <2>1 DEF Accounted
<1> QED
  BY <1>3, <1>4

(* A new request is all still to do. *)
LEMMA ReceivedAccounted ==
  ASSUME TypeOK, NEW c \in Caller, Receive(c)
  PROVE  Accounted(call[c])'
<1>0. call \in [Caller -> Call]
  BY DEF TypeOK
<1>1. CASE ReceiveBatch(c)
  <2>1. PICK records \in Batch, sorted \in BOOLEAN, build \in BOOLEAN :
          \E todo \in Orders(records) :
            /\ call[c].stage = "idle"
            /\ Arranged(records, sorted, todo)
            /\ call' = [call EXCEPT ![c] =
                         NewCall("next", TRUE, sorted, build, records, todo)]
            /\ UNCHANGED <<leaves, summarized>>
    BY <1>1, Zenon DEF ReceiveBatch
  <2>2. PICK todo \in Orders(records) :
          /\ Arranged(records, sorted, todo)
          /\ call' = [call EXCEPT ![c] =
                       NewCall("next", TRUE, sorted, build, records, todo)]
    BY <2>1
  <2>3. \A i \in DOMAIN records : \E j \in DOMAIN todo : todo[j] = records[i]
    BY <2>2 DEF Arranged
  <2>4. call'[c] = NewCall("next", TRUE, sorted, build, records, todo)
    BY <1>0, <2>2
  <2>5. /\ call'[c].stage = "next" /\ call'[c].batch
        /\ call'[c].records = records /\ call'[c].todo = todo
    BY <2>4 DEF NewCall
  <2> QED
    BY <2>3, <2>5 DEF Accounted
<1>2. CASE ReceiveOne(c)
  <2>1. PICK r \in Record :
          call' = [call EXCEPT ![c] = NewCall("check", FALSE, FALSE, FALSE, <<r>>, <<r>>)]
    BY <1>2 DEF ReceiveOne
  <2>2. /\ call'[c].stage = "check" /\ ~call'[c].batch
        /\ call'[c].records = <<r>> /\ call'[c].todo = <<r>>
    BY <1>0, <2>1 DEF NewCall
  <2>3. Tail(<<r>>) = <<>>
    OBVIOUS
  <2> QED
    BY <2>2, <2>3 DEF Accounted
<1> QED
  BY <1>1, <1>2 DEF Receive

(* An answered request has a leaf for each of its events, whichever calls      *)
(* overlapped with it and whoever wrote the leaf.                            *)
THEOREM NoEventLost == Spec => []EventsCovered
<1> DEFINE Inv == \A c \in Caller : Accounted(call[c])
<1>1. Init => Inv
  <2>1. Accounted(Idle)
    BY DEF Accounted, Idle, NewCall
  <2> QED
    BY <2>1 DEF Init
<1>2. TypeOK /\ Inv /\ [Next]_vars => Inv'
  <2> SUFFICES ASSUME TypeOK, Inv, [Next]_vars PROVE Inv'
    OBVIOUS
  <2>0. call \in [Caller -> Call] /\ \A c \in Caller : call[c] \in Call
    BY DEF TypeOK
  <2>1. CASE UNCHANGED vars
    BY <2>1 DEF vars, Accounted, Known, Stored
  <2>2. ASSUME Next, NEW d \in Caller, call'[d].records = call[d].records,
               call'[d].todo = call[d].todo, call'[d].batch = call[d].batch,
               \/ call'[d].stage = call[d].stage
               \/ call[d].stage = "next" /\ call'[d].stage = "check"
               \/ call[d].stage = "check" /\ call'[d].stage = "write"
               \/ call[d].todo = <<>> /\ call'[d].stage \in {"build", "respond"}
        PROVE  Accounted(call[d])'
    <3>1. \A e : Known(e) => Known(e)'
      BY <2>2, KnownStays
    <3>2. Accounted(call[d])
      OBVIOUS
    <3> QED
      BY <2>2, <3>1, <3>2 DEF Accounted
  <2>3. ASSUME NEW c \in Caller, Receive(c) \/ Step(c) \/ Fail(c) PROVE Inv'
    <3>n. Next
      BY <2>3 DEF Next
    <3>1. ASSUME NEW d \in Caller, d # c PROVE Accounted(call[d])'
      <4>1. /\ call'[d].records = call[d].records /\ call'[d].todo = call[d].todo
            /\ call'[d].batch = call[d].batch /\ call'[d].stage = call[d].stage
        <5>1. CASE WriteLeaf(c)
          <6>1. PICK n \in Node : \A u \in Caller : u # c =>
                  /\ call'[u].stage = call[u].stage /\ call'[u].todo = call[u].todo
                  /\ call'[u].records = call[u].records /\ call'[u].batch = call[u].batch
            BY <5>1, WriteStep
          <6> QED
            BY <3>1, <6>1
        <5>2. CASE ~WriteLeaf(c)
          BY <2>3, <3>1, <5>2, CallSteps
        <5> QED
          BY <5>1, <5>2
      <4> QED
        BY <2>2, <3>n, <4>1
    <3>2. CASE Receive(c)
      BY <3>1, <3>2, ReceivedAccounted
    <3>3. CASE FindDuplicate(c)
      <4>1. CASE Deduped(Head(call[c].todo)) /\ Known(Head(call[c].todo).event)
        <5>1. /\ call'[c].records = call[c].records /\ call'[c].batch = call[c].batch
              /\ call'[c].todo = Tail(call[c].todo) /\ call'[c].stage = "next"
              /\ call[c].todo # <<>> /\ call[c].stage = "next"
          BY <2>0, <3>3, <4>1 DEF FindDuplicate, Call
        <5>2. call[c].batch
          BY <5>1 DEF Accounted
        <5>3. AfterWrite(call[c].batch) = "next"
          BY <5>2 DEF AfterWrite
        <5>e. PICK e : e = Head(call[c].todo).event
          OBVIOUS
        <5>4. Known(e)'
          BY <3>n, <4>1, <5>e, KnownStays
        <5>5. Accounted(call[c])'
          BY <3>n, <5>1, <5>3, <5>4, <5>e, TakenAccounted
        <5> QED
          BY <3>1, <5>5
      <4>2. CASE ~(Deduped(Head(call[c].todo)) /\ Known(Head(call[c].todo).event))
        <5>1. /\ call'[c].records = call[c].records /\ call'[c].batch = call[c].batch
              /\ call'[c].todo = call[c].todo /\ call'[c].stage = "check"
              /\ call[c].stage = "next"
          BY <2>0, <3>3, <4>2 DEF FindDuplicate, Call
        <5> QED
          BY <2>2, <3>n, <3>1, <5>1
      <4> QED
        BY <4>1, <4>2
    <3>4. CASE CheckBeforeWrite(c)
      <4>0. call[c].stage = "check" /\ call[c].todo # <<>>
        BY <3>4 DEF CheckBeforeWrite, TypeOK
      <4>1. CASE Deduped(Head(call[c].todo)) /\ Known(Head(call[c].todo).event)
        <5>0. PICK n \in Node :
                call' = [call EXCEPT ![c].stage = AfterWrite(call[c].batch),
                                     ![c].ingested = Append(@, n), ![c].todo = Tail(@)]
          BY <3>4, <4>1 DEF CheckBeforeWrite, ExistingL0
        <5>1. /\ call'[c].records = call[c].records /\ call'[c].batch = call[c].batch
              /\ call'[c].todo = Tail(call[c].todo)
              /\ call'[c].stage = AfterWrite(call[c].batch)
          BY <2>0, <5>0 DEF Call
        <5>e. PICK e : e = Head(call[c].todo).event
          OBVIOUS
        <5>2. Known(e)'
          BY <3>n, <4>1, <5>e, KnownStays
        <5>3. Accounted(call[c])'
          BY <3>n, <4>0, <5>1, <5>2, <5>e, TakenAccounted
        <5> QED
          BY <3>1, <5>3
      <4>2. CASE ~(Deduped(Head(call[c].todo)) /\ Known(Head(call[c].todo).event))
        <5>0. call' = [call EXCEPT ![c].stage = "write"]
          BY <3>4, <4>2 DEF CheckBeforeWrite
        <5>1. /\ call'[c].records = call[c].records /\ call'[c].batch = call[c].batch
              /\ call'[c].todo = call[c].todo /\ call'[c].stage = "write"
          BY <2>0, <5>0 DEF Call
        <5> QED
          BY <2>2, <3>n, <3>1, <4>0, <5>1
      <4> QED
        BY <4>1, <4>2
    <3>5. CASE WriteLeaf(c)
      <4>1. PICK n \in Node :
              /\ Stored(n)' /\ leaves'[n].record = Head(call[c].todo)
              /\ call[c].stage = "write" /\ call'[c].stage = AfterWrite(call[c].batch)
              /\ call'[c].todo = Tail(call[c].todo) /\ call'[c].records = call[c].records
              /\ call'[c].batch = call[c].batch
        BY <3>5, WriteStep
      <4>e. PICK e : e = Head(call[c].todo).event
        OBVIOUS
      <4>2. Known(e)' /\ call[c].todo # <<>>
        BY <4>1, <4>e DEF Known, TypeOK
      <4>3. Accounted(call[c])'
        BY <3>n, <4>1, <4>2, <4>e, TakenAccounted
      <4> QED
        BY <3>1, <4>3
    <3>6. CASE LoopEnds(c)
      <4>1. /\ call'[c].records = call[c].records /\ call'[c].batch = call[c].batch
            /\ call'[c].todo = call[c].todo /\ call[c].todo = <<>>
            /\ call'[c].stage \in {"build", "respond"}
        BY <2>0, <3>6 DEF LoopEnds, Call
      <4> QED
        BY <2>2, <3>n, <3>1, <4>1
    <3>7. CASE BuildSummaries(c)
      <4>1. /\ call'[c].records = call[c].records /\ call'[c].batch = call[c].batch
            /\ call'[c].todo = call[c].todo /\ call[c].stage = "build"
            /\ call'[c].stage = "respond"
        BY <2>0, <3>7 DEF BuildSummaries, Call
      <4>2. call[c].todo = <<>>
        BY <4>1 DEF Accounted
      <4> QED
        BY <2>2, <3>n, <3>1, <4>1, <4>2
    <3>8. CASE Respond(c) \/ Fail(c)
      <4>1. call'[c] = Idle
        BY <2>0, <3>8 DEF Respond, Fail
      <4>2. Accounted(call[c])'
        BY <4>1 DEF Accounted, Idle, NewCall
      <4> QED
        BY <3>1, <4>2
    <3> QED
      BY <2>3, <3>2, <3>3, <3>4, <3>5, <3>6, <3>7, <3>8 DEF Step
  <2> QED
    BY <2>1, <2>3 DEF Next
<1>3. TypeOK /\ Inv => EventsCovered
  <2> SUFFICES ASSUME TypeOK, Inv, NEW c \in Caller, call[c].stage = "respond",
                      NEW i \in DOMAIN call[c].records
               PROVE  LET e == call[c].records[i].event IN e # NoEvent => Known(e)
    BY DEF EventsCovered, Known
  <2>1. call[c].todo = <<>> /\ DOMAIN call[c].todo = {}
    BY DEF Accounted
  <2> QED
    BY <2>1 DEF Accounted
<1> QED
  BY <1>1, <1>2, <1>3, TypeCorrect, PTL DEF Spec

-----------------------------------------------------------------------------
(* Whether the store L holds a leaf n, and one of the event. *)
In(L, n) == L[n] # NoLeaf
KnownIn(L, event) == \E n \in Node : In(L, n) /\ L[n].record.event = event

(* A list of records by time. *)
Ordered(todo) == \A i, j \in DOMAIN todo : i < j => todo[i].time <= todo[j].time

(* What call x returns and has stored is in the store, and the events it       *)
(* noted as duplicates are known there.                                      *)
Held(x, L) ==
  /\ \A i \in DOMAIN x.ingested : In(L, x.ingested[i])
  /\ \A n \in x.written : In(L, n)
  /\ \A i \in DOMAIN x.duplicates : KnownIn(L, x.duplicates[i].event)

(* A sorted call has stored no leaf that is later than what it has still to   *)
(* do, and it is about to write no event that it noted as a duplicate.        *)
Ahead(x, L) ==
  /\ x.sorted => /\ Ordered(x.todo)
                 /\ \A n \in x.written : \A j \in DOMAIN x.todo :
                      L[n].record.time <= x.todo[j].time
  /\ x.stage = "write" /\ Deduped(Head(x.todo)) =>
       \A i \in DOMAIN x.duplicates : x.duplicates[i].event # Head(x.todo).event

(* The two properties, of one call. *)
Earliest(x, L) ==
  x.sorted =>
    \A i \in DOMAIN x.duplicates, n \in x.written :
      Deduped(L[n].record) /\ L[n].record.event = x.duplicates[i].event
        => L[n].record.time <= x.duplicates[i].time
Built(x, listed) ==
  /\ x.build => x.batch
  /\ x.stage = "respond" /\ x.build =>
       \A i \in DOMAIN x.ingested : x.ingested[i] \in listed

CallSound(x, L, listed) ==
  Held(x, L) /\ Ahead(x, L) /\ Earliest(x, L) /\ Built(x, listed)

(* A list without its first record: what is left was in it, and is as well    *)
(* ordered.                                                                 *)
LEMMA TailOf ==
  ASSUME NEW s \in Seq(Record), s # <<>>
  PROVE  /\ \A j \in DOMAIN Tail(s) : j + 1 \in DOMAIN s /\ Tail(s)[j] = s[j + 1]
         /\ Ordered(s) => Ordered(Tail(s))
         /\ Ordered(s) => \A j \in DOMAIN Tail(s) : Head(s).time <= Tail(s)[j].time
<1>1. Len(s) \in Nat /\ Len(s) >= 1 /\ DOMAIN s = 1 .. Len(s) /\ Head(s) = s[1]
  OBVIOUS
<1>2. DOMAIN Tail(s) = 1 .. Len(s) - 1
  BY <1>1
<1>3. \A j \in DOMAIN Tail(s) : j \in Nat /\ j >= 1 /\ j + 1 \in DOMAIN s /\ Tail(s)[j] = s[j + 1]
  BY <1>1, <1>2
<1>4. ASSUME Ordered(s), NEW i \in DOMAIN Tail(s), NEW j \in DOMAIN Tail(s), i < j
      PROVE  Tail(s)[i].time <= Tail(s)[j].time
  <2>1. i + 1 \in DOMAIN s /\ j + 1 \in DOMAIN s /\ i + 1 < j + 1
    BY <1>3, <1>4
  <2>2. s[i + 1].time <= s[j + 1].time
    BY <1>4, <2>1 DEF Ordered
  <2> QED
    BY <1>3, <2>2
<1>5. ASSUME Ordered(s), NEW j \in DOMAIN Tail(s) PROVE Head(s).time <= Tail(s)[j].time
  <2>1. j + 1 \in DOMAIN s /\ 1 \in DOMAIN s /\ 1 < j + 1
    BY <1>1, <1>3
  <2>2. s[1].time <= s[j + 1].time
    BY <1>5, <2>1 DEF Ordered
  <2> QED
    BY <1>1, <1>3, <2>2
<1>6. Ordered(s) => Ordered(Tail(s))
  BY <1>4 DEF Ordered
<1>7. Ordered(s) => \A j \in DOMAIN Tail(s) : Head(s).time <= Tail(s)[j].time
  BY <1>5
<1>8. \A j \in DOMAIN Tail(s) : j + 1 \in DOMAIN s /\ Tail(s)[j] = s[j + 1]
  BY <1>3
<1> HIDE DEF Ordered
<1> QED
  BY <1>6, <1>7, <1>8

(* Appending an element: the places of the longer list. *)
LEMMA Appended ==
  ASSUME NEW S, NEW s \in Seq(S), NEW e \in S, NEW i \in DOMAIN Append(s, e)
  PROVE  Append(s, e)[i] = e \/ (i \in DOMAIN s /\ Append(s, e)[i] = s[i])
OBVIOUS

(* More leaves in the store, more of them listed, more racers: nothing that   *)
(* holds of a call is lost.                                                  *)
LEMMA GrownSound ==
  ASSUME NEW x \in Call, NEW y, NEW L, NEW M, NEW listed, NEW seen,
         CallSound(x, L, listed), listed \subseteq seen,
         \A n \in Node : In(L, n) => M[n] = L[n],
         y.stage = x.stage, y.batch = x.batch, y.sorted = x.sorted,
         y.build = x.build, y.todo = x.todo, y.ingested = x.ingested,
         y.duplicates = x.duplicates, y.written = x.written
  PROVE  CallSound(y, M, seen)
<1>1. x.ingested \in Seq(Node) /\ x.written \subseteq Node
  BY DEF Call
<1>2. \A n \in Node : In(L, n) => In(M, n)
  BY DEF In
<1>3. \A e : KnownIn(L, e) => KnownIn(M, e)
  BY <1>2 DEF KnownIn
<1>4. \A n \in x.written : M[n] = L[n]
  BY <1>1 DEF CallSound, Held
<1>5. \A i \in DOMAIN x.ingested : In(M, x.ingested[i])
  BY <1>1, <1>2 DEF CallSound, Held
<1>6. Held(y, M)
  BY <1>1, <1>2, <1>3, <1>5 DEF CallSound, Held
<1>7. Ahead(y, M)
  BY <1>4 DEF CallSound, Ahead
<1>8. Earliest(y, M)
  BY <1>4 DEF CallSound, Earliest
<1>9. Built(y, seen)
  BY DEF CallSound, Built
<1> QED
  BY <1>6, <1>7, <1>8, <1>9 DEF CallSound

(* A call that takes its first record off the list, with what it has stored   *)
(* since all of that record. *)
LEMMA TakenSound ==
  ASSUME NEW x \in Call, NEW y, NEW L, NEW listed, CallSound(x, L, listed),
         x.todo # <<>>, y.todo = Tail(x.todo), y.stage = AfterWrite(x.batch),
         y.batch = x.batch, y.sorted = x.sorted, y.build = x.build,
         Held(y, L), Earliest(y, L),
         \A n \in y.written : n \in x.written \/ L[n].record = Head(x.todo)
  PROVE  CallSound(y, L, listed)
<1>1. x.todo \in Seq(Record) /\ x.batch \in BOOLEAN
  BY DEF Call
<1>2. /\ \A j \in DOMAIN Tail(x.todo) : j + 1 \in DOMAIN x.todo /\ Tail(x.todo)[j] = x.todo[j + 1]
      /\ Ordered(x.todo) => Ordered(Tail(x.todo))
      /\ Ordered(x.todo) => \A j \in DOMAIN Tail(x.todo) : Head(x.todo).time <= Tail(x.todo)[j].time
  BY <1>1, TailOf
<1>3. y.stage # "write"
  BY DEF AfterWrite
<1>4. ASSUME y.sorted, NEW n \in y.written, NEW j \in DOMAIN y.todo
      PROVE  L[n].record.time <= y.todo[j].time
  <2>1. Ordered(x.todo) /\ \A m \in x.written : \A i \in DOMAIN x.todo :
                             L[m].record.time <= x.todo[i].time
    BY <1>4 DEF CallSound, Ahead
  <2>2. CASE n \in x.written
    BY <1>2, <2>1, <2>2
  <2>3. CASE L[n].record = Head(x.todo)
    BY <1>2, <2>1, <2>3
  <2> QED
    BY <2>2, <2>3
<1>5. y.sorted => Ordered(y.todo)
  BY <1>2 DEF CallSound, Ahead
<1>6. Ahead(y, L)
  BY <1>3, <1>4, <1>5 DEF Ahead
<1>7. (x.build => x.batch) /\ (x.batch => y.stage # "respond")
  BY DEF CallSound, Built, AfterWrite
<1>8. Built(y, listed)
  BY <1>7 DEF Built
<1> QED
  BY <1>6, <1>8 DEF CallSound

(* A step that only moves a call to another stage. *)
LEMMA MovedSound ==
  ASSUME NEW x \in Call, NEW y, NEW L, NEW listed, CallSound(x, L, listed),
         y.todo = x.todo, y.batch = x.batch, y.sorted = x.sorted, y.build = x.build,
         y.ingested = x.ingested, y.duplicates = x.duplicates, y.written = x.written,
         y.stage = "write" =>
           ~(Deduped(Head(x.todo)) /\ KnownIn(L, Head(x.todo).event)),
         y.stage = "respond" /\ x.build =>
           \A i \in DOMAIN x.ingested : x.ingested[i] \in listed
  PROVE  CallSound(y, L, listed)
<1>1. Held(y, L)
  BY DEF CallSound, Held
<1>2. Ahead(y, L)
  BY DEF CallSound, Ahead, Held
<1>3. Earliest(y, L)
  BY DEF CallSound, Earliest
<1>4. Built(y, listed)
  BY DEF CallSound, Built
<1> QED
  BY <1>1, <1>2, <1>3, <1>4 DEF CallSound

(* Sorting leaves the records ordered. *)
LEMMA ArrangedOrdered ==
  ASSUME NEW records, NEW todo, Arranged(records, TRUE, todo), records \in Seq(Record)
  PROVE  Ordered(todo)
<1>1. PICK p \in [DOMAIN records -> DOMAIN records] :
        /\ todo = [i \in DOMAIN records |-> records[p[i]]]
        /\ \A i, j \in DOMAIN records : i < j =>
             \/ records[p[i]].time < records[p[j]].time
             \/ records[p[i]].time = records[p[j]].time /\ p[i] < p[j]
  BY DEF Arranged
<1>2. \A i \in DOMAIN records : p[i] \in DOMAIN records /\ records[p[i]] \in Record
  BY <1>1
<1>3. \A r \in Record : r.time \in Nat
  BY RecordsAssumption
<1>4. ASSUME NEW i \in DOMAIN todo, NEW j \in DOMAIN todo, i < j
      PROVE  todo[i].time <= todo[j].time
  <2>1. i \in DOMAIN records /\ j \in DOMAIN records
    BY <1>1
  <2>2. records[p[i]].time \in Nat /\ records[p[j]].time \in Nat
    BY <1>2, <1>3, <2>1
  <2>3. todo[i] = records[p[i]] /\ todo[j] = records[p[j]]
    BY <1>1, <2>1
  <2> QED
    BY <1>1, <1>4, <2>1, <2>2, <2>3
<1> QED
  BY <1>4 DEF Ordered

(* A call that starts has stored, noted and returned nothing. *)
LEMMA StartedSound ==
  ASSUME NEW stage, NEW batch \in BOOLEAN, NEW sorted \in BOOLEAN, NEW build \in BOOLEAN,
         NEW records, NEW todo, NEW L, NEW listed,
         stage # "write", build => batch, sorted => Ordered(todo)
  PROVE  CallSound(NewCall(stage, batch, sorted, build, records, todo), L, listed)
BY DEF NewCall, CallSound, Held, Ahead, Earliest, Built

LEMMA ReceivedSound ==
  ASSUME TypeOK, NEW c \in Caller, Receive(c), NEW y, y = call'[c], NEW L, NEW listed
  PROVE  CallSound(y, L, listed)
<1>0. call \in [Caller -> Call]
  BY DEF TypeOK
<1>1. CASE ReceiveBatch(c)
  <2>1. PICK records \in Batch, sorted \in BOOLEAN, build \in BOOLEAN :
          \E todo \in Orders(records) :
            /\ call[c].stage = "idle"
            /\ Arranged(records, sorted, todo)
            /\ call' = [call EXCEPT ![c] =
                         NewCall("next", TRUE, sorted, build, records, todo)]
            /\ UNCHANGED <<leaves, summarized>>
    BY <1>1, Zenon DEF ReceiveBatch
  <2>2. PICK todo \in Orders(records) :
          /\ Arranged(records, sorted, todo)
          /\ call' = [call EXCEPT ![c] =
                       NewCall("next", TRUE, sorted, build, records, todo)]
    BY <2>1
  <2>3. y = NewCall("next", TRUE, sorted, build, records, todo)
    BY <1>0, <2>2
  <2>4. sorted => Ordered(todo)
    <3>1. records \in Seq(Record)
      BY RecordsAssumption
    <3>2. sorted => Arranged(records, TRUE, todo)
      BY <2>2 DEF Arranged
    <3> QED
      BY <3>1, <3>2, ArrangedOrdered
  <2> QED
    BY <2>3, <2>4, StartedSound
<1>2. CASE ReceiveOne(c)
  <2>1. PICK r \in Record :
          call' = [call EXCEPT ![c] = NewCall("check", FALSE, FALSE, FALSE, <<r>>, <<r>>)]
    BY <1>2 DEF ReceiveOne
  <2>2. y = NewCall("check", FALSE, FALSE, FALSE, <<r>>, <<r>>)
    BY <1>0, <2>1
  <2> QED
    BY <2>2, StartedSound
<1> QED
  BY <1>1, <1>2 DEF Receive

(* The store only grows, and a step of one call leaves the others as they      *)
(* are, but for their racers.                                                *)
LEMMA StoreGrows ==
  ASSUME TypeOK, NEW c \in Caller, Receive(c) \/ Step(c) \/ Fail(c)
  PROVE  /\ \A n \in Node : In(leaves, n) => leaves'[n] = leaves[n]
         /\ summarized \subseteq summarized'
<1>1. CASE WriteLeaf(c)
  <2>1. PICK n \in Node : ~Stored(n) /\ \A m \in Node : m # n => leaves'[m] = leaves[m]
    BY <1>1, WriteStep
  <2>2. UNCHANGED summarized
    BY <1>1 DEF WriteLeaf
  <2> QED
    BY <2>1, <2>2 DEF Stored, In
<1>2. CASE ~WriteLeaf(c)
  <2>1. UNCHANGED leaves
    BY <1>2, CallSteps
  <2>2. CASE BuildSummaries(c)
    BY <2>1, <2>2 DEF BuildSummaries, TypeOK
  <2>3. CASE ~BuildSummaries(c)
    BY <1>2, <2>1, <2>3 DEF Receive, ReceiveBatch, ReceiveOne, Step, FindDuplicate,
         CheckBeforeWrite, LoopEnds, Respond, Fail
  <2> QED
    BY <2>1, <2>2, <2>3
<1> QED
  BY <1>1, <1>2

LEMMA OthersKeep ==
  ASSUME TypeOK, NEW c \in Caller, Receive(c) \/ Step(c) \/ Fail(c),
         NEW d \in Caller, d # c, NEW y, y = call'[d]
  PROVE  /\ y.stage = call[d].stage /\ y.batch = call[d].batch
         /\ y.sorted = call[d].sorted /\ y.build = call[d].build
         /\ y.todo = call[d].todo /\ y.ingested = call[d].ingested
         /\ y.duplicates = call[d].duplicates /\ y.written = call[d].written
<1>0. call[d] \in Call
  BY DEF TypeOK
<1>1. CASE WriteLeaf(c)
  <2>1. PICK n \in Node :
          call' = [u \in Caller |->
            IF u = c
            THEN [call[c] EXCEPT !.stage = AfterWrite(call[c].batch),
                                 !.ingested = Append(@, n), !.todo = Tail(@),
                                 !.written = @ \cup {n}, !.raced = {}]
            ELSE IF call[u].stage = "write" THEN [call[u] EXCEPT !.raced = @ \cup {n}]
            ELSE call[u]]
    BY <1>1 DEF WriteLeaf
  <2>2. y = call[d] \/ y = [call[d] EXCEPT !.raced = @ \cup {n}]
    BY <2>1
  <2> HIDE <1>1, <2>1
  <2> QED
    BY <1>0, <2>2 DEF Call
<1>2. CASE ~WriteLeaf(c)
  BY <1>2, CallSteps
<1> QED
  BY <1>1, <1>2

(* The call of a step that changes no leaf. *)
LEMMA OwnStepSound ==
  ASSUME TypeOK, NEW c \in Caller, NEW x, x = call[c], NEW L, L = leaves,
         NEW listed, listed = summarized, CallSound(x, L, listed),
         FindDuplicate(c) \/ CheckBeforeWrite(c) \/ LoopEnds(c), NEW y, y = call'[c]
  PROVE  CallSound(y, L, listed)
<1>0. x \in Call /\ call \in [Caller -> Call]
  BY DEF TypeOK
<1>t. x.todo \in Seq(Record) /\ x.duplicates \in Seq(Record) /\ x.ingested \in Seq(Node)
  BY <1>0 DEF Call
<1>k. \A e : Known(e) <=> KnownIn(L, e)
  BY DEF Known, KnownIn, Stored, In
<1>1. CASE FindDuplicate(c) /\ Deduped(Head(x.todo)) /\ Known(Head(x.todo).event)
  <2>1. x.stage = "next" /\ x.todo # <<>>
    BY <1>1 DEF FindDuplicate
  <2>2. y = [x EXCEPT !.duplicates = Append(x.duplicates, Head(x.todo)), !.todo = Tail(x.todo)]
    BY <1>0, <1>1 DEF FindDuplicate
  <2>3. /\ y.todo = Tail(x.todo) /\ y.duplicates = Append(x.duplicates, Head(x.todo))
        /\ y.stage = x.stage /\ y.batch = x.batch /\ y.sorted = x.sorted
        /\ y.build = x.build /\ y.ingested = x.ingested /\ y.written = x.written
    BY <1>0, <2>2 DEF Call
  <2>4. Head(x.todo) \in Record /\ Head(x.todo) = x.todo[1] /\ 1 \in DOMAIN x.todo
    BY <1>t, <2>1
  <2>5. \A i \in DOMAIN y.duplicates :
          \/ y.duplicates[i] = Head(x.todo)
          \/ (i \in DOMAIN x.duplicates /\ y.duplicates[i] = x.duplicates[i])
    BY <1>t, <2>3, <2>4, Appended
  <2>6. KnownIn(L, Head(x.todo).event)
    BY <1>1, <1>k
  <2>7. Held(y, L)
    BY <2>3, <2>5, <2>6 DEF CallSound, Held
  <2>8. x.sorted => \A n \in x.written : L[n].record.time <= Head(x.todo).time
    BY <2>4 DEF CallSound, Ahead
  <2>9. Earliest(y, L)
    <3>1. Earliest(x, L)
      BY DEF CallSound
    <3>2. ASSUME x.sorted, NEW i \in DOMAIN y.duplicates, NEW n \in x.written,
                 Deduped(L[n].record), L[n].record.event = y.duplicates[i].event
          PROVE  L[n].record.time <= y.duplicates[i].time
      BY <2>5, <2>8, <3>1, <3>2 DEF Earliest
    <3> QED
      BY <2>3, <3>2 DEF Earliest
  <2>10. CASE x.batch
    <3>1. AfterWrite(x.batch) = y.stage
      BY <2>1, <2>3, <2>10 DEF AfterWrite
    <3> QED
      BY <1>0, <2>1, <2>3, <2>7, <2>9, <3>1, TakenSound
  <2>11. CASE ~x.batch
    <3>1. ~y.build /\ y.stage # "write" /\ (y.sorted => Ordered(y.todo))
      <4>1. ~x.build /\ (x.sorted => Ordered(x.todo))
        BY <2>11 DEF CallSound, Built, Ahead
      <4>2. Ordered(x.todo) => Ordered(Tail(x.todo))
        BY <1>t, <2>1, TailOf
      <4> QED
        BY <2>1, <2>3, <4>1, <4>2
    <3>2. /\ \A j \in DOMAIN Tail(x.todo) :
               j + 1 \in DOMAIN x.todo /\ Tail(x.todo)[j] = x.todo[j + 1]
      BY <1>t, <2>1, TailOf
    <3>3. Ahead(y, L)
      <4>1. Ahead(x, L)
        BY DEF CallSound
      <4>2. ASSUME x.sorted, NEW n \in x.written, NEW j \in DOMAIN y.todo
            PROVE  L[n].record.time <= y.todo[j].time
        BY <2>3, <3>2, <4>1, <4>2 DEF Ahead
      <4> QED
        BY <2>3, <3>1, <4>2 DEF Ahead
    <3> QED
      BY <2>7, <2>9, <3>1, <3>3 DEF CallSound, Built
  <2> QED
    BY <2>10, <2>11
<1>2. CASE FindDuplicate(c) /\ ~(Deduped(Head(x.todo)) /\ Known(Head(x.todo).event))
  <2>1. y = [x EXCEPT !.stage = "check"]
    BY <1>0, <1>2 DEF FindDuplicate
  <2>2. /\ y.todo = x.todo /\ y.duplicates = x.duplicates
        /\ y.stage = "check" /\ y.batch = x.batch /\ y.sorted = x.sorted
        /\ y.build = x.build /\ y.ingested = x.ingested /\ y.written = x.written
    BY <1>0, <2>1 DEF Call
  <2> QED
    BY <1>0, <2>2, MovedSound
<1>3. CASE CheckBeforeWrite(c) /\ Deduped(Head(x.todo)) /\ Known(Head(x.todo).event)
  <2>1. PICK n \in ExistingL0(Head(x.todo).event) :
          call' = [call EXCEPT ![c].stage = AfterWrite(call[c].batch),
                               ![c].ingested = Append(@, n), ![c].todo = Tail(@)]
    BY <1>3 DEF CheckBeforeWrite
  <2>2. x.todo # <<>>
    BY <1>3 DEF CheckBeforeWrite, TypeOK
  <2>3. y = [x EXCEPT !.stage = AfterWrite(x.batch), !.ingested = Append(@, n), !.todo = Tail(@)]
    BY <1>0, <2>1
  <2> HIDE <1>3
  <2>4. /\ y.todo = Tail(x.todo) /\ y.duplicates = x.duplicates
        /\ y.stage = AfterWrite(x.batch) /\ y.batch = x.batch /\ y.sorted = x.sorted
        /\ y.build = x.build /\ y.ingested = Append(x.ingested, n) /\ y.written = x.written
    BY <1>0, <2>3 DEF Call
  <2>5. n \in Node /\ In(L, n)
    BY DEF ExistingL0, Stored, In
  <2>6. \A i \in DOMAIN y.ingested :
          y.ingested[i] = n \/ (i \in DOMAIN x.ingested /\ y.ingested[i] = x.ingested[i])
    BY <1>t, <2>4, <2>5, Appended
  <2>7. Held(y, L)
    BY <2>4, <2>5, <2>6 DEF CallSound, Held
  <2>8. Earliest(y, L)
    BY <2>4 DEF CallSound, Earliest
  <2> QED
    BY <1>0, <2>2, <2>4, <2>7, <2>8, TakenSound
<1>4. CASE CheckBeforeWrite(c) /\ ~(Deduped(Head(x.todo)) /\ Known(Head(x.todo).event))
  <2>1. y = [x EXCEPT !.stage = "write"]
    BY <1>0, <1>4 DEF CheckBeforeWrite
  <2>2. /\ y.todo = x.todo /\ y.duplicates = x.duplicates
        /\ y.stage = "write" /\ y.batch = x.batch /\ y.sorted = x.sorted
        /\ y.build = x.build /\ y.ingested = x.ingested /\ y.written = x.written
    BY <1>0, <2>1 DEF Call
  <2>3. ~(Deduped(Head(x.todo)) /\ KnownIn(L, Head(x.todo).event))
    BY <1>4, <1>k
  <2> QED
    BY <1>0, <2>2, <2>3, MovedSound
<1>5. CASE LoopEnds(c)
  <2>1. y = [x EXCEPT !.stage = IF x.build /\ x.ingested # <<>> THEN "build" ELSE "respond"]
    BY <1>0, <1>5 DEF LoopEnds
  <2>2. /\ y.todo = x.todo /\ y.duplicates = x.duplicates /\ y.stage # "write"
        /\ y.batch = x.batch /\ y.sorted = x.sorted
        /\ y.build = x.build /\ y.ingested = x.ingested /\ y.written = x.written
        /\ y.stage = "respond" /\ x.build => x.ingested = <<>>
    BY <1>0, <2>1 DEF Call
  <2>3. y.stage = "respond" /\ x.build => \A i \in DOMAIN x.ingested : x.ingested[i] \in listed
    BY <2>2
  <2> QED
    BY <1>0, <2>2, <2>3, MovedSound
<1> QED
  BY <1>1, <1>2, <1>3, <1>4, <1>5

(* The call that stores a leaf. *)
LEMMA WriterSound ==
  ASSUME TypeOK, NEW c \in Caller, WriteLeaf(c), NEW x, x = call[c], NEW L, L = leaves,
         NEW M, M = leaves', NEW listed, CallSound(x, L, listed), NEW y, y = call'[c]
  PROVE  CallSound(y, M, listed)
<1>0. x \in Call /\ L \in [Node -> Leaf \cup {NoLeaf}]
  BY DEF TypeOK
<1>t. x.todo \in Seq(Record) /\ x.duplicates \in Seq(Record) /\ x.ingested \in Seq(Node)
      /\ x.written \subseteq Node
  BY <1>0 DEF Call
<1>1. PICK n \in Node :
        /\ ~Stored(n)
        /\ leaves' = [leaves EXCEPT
             ![n] = [record |-> Head(call[c].todo), raced |-> call[c].raced]]
        /\ call' = [d \in Caller |->
             IF d = c
             THEN [call[c] EXCEPT !.stage = AfterWrite(call[c].batch),
                                  !.ingested = Append(@, n), !.todo = Tail(@),
                                  !.written = @ \cup {n}, !.raced = {}]
             ELSE IF call[d].stage = "write" THEN [call[d] EXCEPT !.raced = @ \cup {n}]
             ELSE call[d]]
  BY DEF WriteLeaf
<1>2. x.todo # <<>> /\ x.stage = "write"
  BY DEF WriteLeaf, TypeOK
<1>3. y = [x EXCEPT !.stage = AfterWrite(x.batch), !.ingested = Append(@, n), !.todo = Tail(@),
                    !.written = @ \cup {n}, !.raced = {}]
  BY <1>1
<1>4. /\ y.todo = Tail(x.todo) /\ y.duplicates = x.duplicates
      /\ y.stage = AfterWrite(x.batch) /\ y.batch = x.batch /\ y.sorted = x.sorted
      /\ y.build = x.build /\ y.ingested = Append(x.ingested, n)
      /\ y.written = x.written \cup {n}
  <2> HIDE <1>1
  <2> QED
    BY <1>0, <1>3 DEF Call
<1>5. /\ M[n] = [record |-> Head(x.todo), raced |-> x.raced]
      /\ \A m \in Node : m # n => M[m] = L[m]
  BY <1>0, <1>1
<1>6. M[n] \in Leaf
  BY <1>0, <1>2, <1>5, RecordTaken DEF Leaf, Call
<1>7. In(M, n) /\ M[n].record = Head(x.todo)
  BY <1>5, <1>6, RecordsAssumption DEF In
<1>8. ~In(L, n)
  BY <1>1 DEF Stored, In
<1> HIDE <1>1, <1>3
<1>9. \A m \in Node : In(L, m) => M[m] = L[m]
  BY <1>5, <1>8
<1>10. CallSound(x, M, listed)
  BY <1>0, <1>9, GrownSound
<1>11. \A i \in DOMAIN y.ingested :
         y.ingested[i] = n \/ (i \in DOMAIN x.ingested /\ y.ingested[i] = x.ingested[i])
  BY <1>t, <1>4, Appended
<1>12. Held(y, M)
  BY <1>4, <1>7, <1>10, <1>11 DEF CallSound, Held
<1>13. Deduped(Head(x.todo)) =>
         \A i \in DOMAIN x.duplicates : x.duplicates[i].event # Head(x.todo).event
  BY <1>2, <1>10 DEF CallSound, Ahead
<1>14. Earliest(y, M)
  BY <1>4, <1>7, <1>10, <1>13 DEF CallSound, Earliest
<1>15. \A m \in y.written : m \in x.written \/ M[m].record = Head(x.todo)
  BY <1>4, <1>7
<1> QED
  BY <1>0, <1>2, <1>4, <1>10, <1>12, <1>14, <1>15, TakenSound

(* Every step keeps every call sound. *)
LEMMA CallsSound == Spec => [](\A c \in Caller : CallSound(call[c], leaves, summarized))
<1> DEFINE Inv == \A c \in Caller : CallSound(call[c], leaves, summarized)
<1>1. Init => Inv
  <2>1. CallSound(Idle, leaves, summarized)
    BY StartedSound DEF Idle
  <2> QED
    BY <2>1 DEF Init
<1>2. TypeOK /\ Inv /\ [Next]_vars => Inv'
  <2> SUFFICES ASSUME TypeOK, Inv, [Next]_vars PROVE Inv'
    OBVIOUS
  <2>0. \A c \in Caller : call[c] \in Call
    BY DEF TypeOK
  <2>1. CASE UNCHANGED vars
    BY <2>1 DEF vars
  <2>2. ASSUME NEW c \in Caller, Receive(c) \/ Step(c) \/ Fail(c) PROVE Inv'
    <3>1. PICK L, M, listed, seen :
            L = leaves /\ M = leaves' /\ listed = summarized /\ seen = summarized'
      OBVIOUS
    <3>2. (\A n \in Node : In(L, n) => M[n] = L[n]) /\ listed \subseteq seen
      BY <2>2, <3>1, StoreGrows
    <3>3. ASSUME NEW d \in Caller, d # c, NEW y, y = call'[d]
          PROVE  CallSound(y, M, seen)
      <4>1. CallSound(call[d], L, listed)
        BY <3>1
      <4>2. /\ y.stage = call[d].stage /\ y.batch = call[d].batch
            /\ y.sorted = call[d].sorted /\ y.build = call[d].build
            /\ y.todo = call[d].todo /\ y.ingested = call[d].ingested
            /\ y.duplicates = call[d].duplicates /\ y.written = call[d].written
        BY <2>2, <3>3, OthersKeep
      <4> QED
        BY <2>0, <3>2, <4>1, <4>2, GrownSound
    <3>4. ASSUME NEW x, x = call[c], NEW y, y = call'[c]
          PROVE  CallSound(y, M, seen)
      <4>0. CallSound(x, L, listed) /\ x \in Call /\ call \in [Caller -> Call]
        BY <3>1, <3>4 DEF TypeOK
      <4>1. CASE Receive(c)
        BY <3>4, <4>1, ReceivedSound
      <4>2. CASE FindDuplicate(c) \/ CheckBeforeWrite(c) \/ LoopEnds(c)
        <5>1. CallSound(y, L, listed)
          BY <3>1, <3>4, <4>0, <4>2, OwnStepSound
        <5>2. M = L /\ seen = listed
          BY <3>1, <4>2 DEF FindDuplicate, CheckBeforeWrite, LoopEnds
        <5> QED
          BY <5>1, <5>2
      <4>3. CASE WriteLeaf(c)
        <5>1. CallSound(y, M, listed)
          BY <3>1, <3>4, <4>0, <4>3, WriterSound
        <5>2. seen = listed
          BY <3>1, <4>3 DEF WriteLeaf
        <5> QED
          BY <5>1, <5>2
      <4>4. CASE BuildSummaries(c)
        <5>1. y = [x EXCEPT !.stage = "respond"]
          BY <3>4, <4>0, <4>4 DEF BuildSummaries
        <5>2. /\ y.todo = x.todo /\ y.duplicates = x.duplicates
              /\ y.stage = "respond" /\ y.batch = x.batch /\ y.sorted = x.sorted
              /\ y.build = x.build /\ y.ingested = x.ingested /\ y.written = x.written
          BY <4>0, <5>1 DEF Call
        <5>3. M = L /\ seen = {n \in Node : In(L, n)}
          BY <3>1, <4>4 DEF BuildSummaries, Stored, In
        <5>4. x.ingested \in Seq(Node) /\ \A i \in DOMAIN x.ingested : In(L, x.ingested[i])
          BY <4>0 DEF Call, CallSound, Held
        <5>5. \A i \in DOMAIN x.ingested : x.ingested[i] \in seen
          BY <5>3, <5>4
        <5>6. CallSound(x, M, seen)
          BY <3>2, <4>0, GrownSound
        <5> QED
          BY <4>0, <5>2, <5>5, <5>6, MovedSound
      <4>5. CASE Respond(c) \/ Fail(c)
        <5>1. y = Idle
          BY <3>4, <4>0, <4>5 DEF Respond, Fail
        <5> QED
          BY <5>1, StartedSound DEF Idle
      <4> QED
        BY <2>2, <4>1, <4>2, <4>3, <4>4, <4>5 DEF Step
    <3> QED
      BY <3>1, <3>3, <3>4
  <2> QED
    BY <2>1, <2>2 DEF Next
<1> QED
  BY <1>1, <1>2, TypeCorrect, PTL DEF Spec

(* A sorted batch never drops a record for a later one that it stored under   *)
(* deduplication: what it has stored is never later than what is left to do,  *)
(* and an event it has noted as a duplicate stays known.                     *)
THEOREM EarliestStored == Spec => []EarliestKept
<1>1. (\A c \in Caller : CallSound(call[c], leaves, summarized)) => EarliestKept
  BY DEF CallSound, Earliest, EarliestKept
<1> QED
  BY <1>1, CallsSound, PTL

(* An answered batch that asked for summaries returns only leaves that a       *)
(* build has listed.                                                        *)
THEOREM BuildListsAll == Spec => []BuildCovers
<1>1. (\A c \in Caller : CallSound(call[c], leaves, summarized)) => BuildCovers
  BY DEF CallSound, Built, BuildCovers
<1> QED
  BY <1>1, CallsSound, PTL

=============================================================================

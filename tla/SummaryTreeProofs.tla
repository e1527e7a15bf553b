------------------------- MODULE SummaryTreeProofs -------------------------
(***************************************************************************)
(* Theorems about SummaryTree for every set of leaves, summaries, builders,  *)
(* verifiers and refreshers and every clustering.                           *)
(***************************************************************************)
EXTENDS SummaryTree, TLAPS

TypeInv == TypeOK /\ LocalsOK

(* A draft that is not saved yet is known to its build alone. *)
Drafting(b) == build[b].stage \in {"verifying", "saving"}

(* Ids are drawn once: what is stored, drafted or audited was drawn, no two   *)
(* builds hold the same id, and nobody has a draft's row but its build.      *)
DraftsOwned ==
  /\ \A s \in Summary : Stored(s) => s \in used
  /\ \A b \in Builder : build[b].id # NoNode => build[b].id \in used
  /\ \A b, d \in Builder : b # d /\ build[b].id = build[d].id => build[b].id = NoNode
  /\ \A b \in Builder : Drafting(b) => ~Stored(build[b].id)
  /\ \A v \in Verifier : audit[v] # IdleAudit =>
       /\ audit[v].id \in used
       /\ \A b \in Builder : Drafting(b) => build[b].id # audit[v].id

(* What a verify_job will write back says the same of the summary as the     *)
(* store and as any other verify_job on it.                                  *)
SameIdentity(r, q) == r.children = q.children /\ r.version = q.version

AuditsAgree ==
  /\ \A v \in Verifier : audit[v] # IdleAudit /\ Stored(audit[v].id) =>
       SameIdentity(audit[v].row, rows[audit[v].id])
  /\ \A v, w \in Verifier :
       audit[v] # IdleAudit /\ audit[w] # IdleAudit /\ audit[v].id = audit[w].id =>
         SameIdentity(audit[v].row, audit[w].row)

(* A step of upsert_node with a well-formed row keeps the tables well-formed. *)
LEMMA UpsertTyped ==
  ASSUME NEW n \in Node, NEW row \in Row, Upsert(n, row),
         rows \in [Node -> Row \cup {NoRow}], edges \subseteq Node \X Node,
         torn \subseteq Node
  PROVE  /\ rows' \in [Node -> Row \cup {NoRow}]
         /\ edges' \subseteq Node \X Node
         /\ torn' \subseteq Node
<1>1. row.children \subseteq Node
  BY DEF Row, Node
<1>2. QED
  BY <1>1 DEF Upsert, WriteEdges

LEMMA IdleTyped ==
  IdleBuild \in BuildLocals /\ IdleAudit \in AuditLocals /\ IdleWipe \in WipeLocals
BY DEF IdleBuild, NewCall, IdleAudit, IdleWipe, BuildLocals, AuditLocals, WipeLocals, Stage

LEMMA InitTyped == Init => TypeInv
<1>1. ASSUME Init PROVE TypeOK
  BY <1>1, IdleTyped DEF Init, TypeOK
<1>2. ASSUME Init PROVE LocalsOK
  BY <1>2 DEF Init, LocalsOK, BuildOK, AuditOK, IdleBuild, NewCall, IdleAudit
<1>3. QED
  BY <1>1, <1>2 DEF TypeInv

(* One call moves on to well-formed locals and nothing else changes but the  *)
(* tables, well-formed too.                                                  *)
LEMMA CallTyped ==
  ASSUME TypeInv, NEW b \in Builder, NEW call \in BuildLocals, BuildOK(call),
         build' = [build EXCEPT ![b] = call], UNCHANGED <<audit, marks, wipe>>,
         rows' \in [Node -> Row \cup {NoRow}], edges' \subseteq Node \X Node,
         traces' \subseteq Summary \X Component, used' \subseteq Node, torn' \subseteq Node
  PROVE  TypeInv'
<1>1. build' \in [Builder -> BuildLocals]
  BY DEF TypeInv, TypeOK
<1>2. \A x \in Builder : BuildOK(build'[x])
  BY DEF TypeInv, TypeOK, LocalsOK
<1>3. TypeOK'
  BY <1>1 DEF TypeInv, TypeOK
<1>4. LocalsOK'
  <2>1. \A x \in Builder : BuildOK(build[x])'
    BY <1>2 DEF BuildOK
  <2>2. \A v \in Verifier : AuditOK(audit[v])'
    BY DEF TypeInv, LocalsOK, AuditOK
  <2>3. QED
    BY <2>1, <2>2 DEF LocalsOK
<1>5. QED
  BY <1>3, <1>4 DEF TypeInv

LEMMA WriteL0Typed ==
  ASSUME TypeInv, NEW l \in Leaf, WriteL0(l) PROVE TypeInv'
<1> DEFINE row == [parents |-> {}, children |-> {}, version |-> 1,
                   stale |-> FALSE, quality |-> "verified"]
<1>1. row \in Row
  BY DEF Row, Quality, Verdict
<1>2. l \in Node /\ Upsert(l, row)
  BY DEF WriteL0, Node
<1>3. /\ rows' \in [Node -> Row \cup {NoRow}]
      /\ edges' \subseteq Node \X Node
      /\ torn' \subseteq Node
  BY <1>1, <1>2, UpsertTyped DEF TypeInv, TypeOK
<1>4. TypeOK'
  BY <1>2, <1>3 DEF TypeInv, TypeOK, WriteL0
<1>5. LocalsOK'
  BY DEF TypeInv, LocalsOK, BuildOK, AuditOK, WriteL0
<1>6. QED
  BY <1>4, <1>5 DEF TypeInv

LEMMA BuildLevelTyped ==
  ASSUME TypeInv, NEW b \in Builder, BuildLevel(b) PROVE TypeInv'
<1> DEFINE listed == {l \in Leaf : Live(l)}
           worth == {c \in Clusters[listed] : ShouldSummarize(c)}
           copy == [l \in Leaf |-> rows[l]]
           call == NewCall("clusters", copy, worth)
<1>1. copy \in [Leaf -> Row \cup {NoRow}]
  BY DEF TypeInv, TypeOK, Node
<1>2. \A l \in listed : copy[l] \in Row
  BY DEF TypeInv, TypeOK, Node, Live, Stored
<1>3. \A c \in worth : c \subseteq listed
  <2>1. listed \in SUBSET Leaf
    OBVIOUS
  <2>2. UNION Clusters[listed] = listed
    BY <2>1, ClustersAssumption
  <2>3. QED
    BY <2>2
<1>4. worth \subseteq SUBSET Leaf
  BY <1>3
<1> HIDE DEF listed, worth, copy
<1>5. call \in BuildLocals
  BY <1>1, <1>4 DEF BuildLocals, Stage, NewCall
<1>6. BuildOK(call)
  BY <1>2, <1>3 DEF BuildOK, NewCall
<1>7. build' = [build EXCEPT ![b] = call] /\ UNCHANGED <<store, audit, marks, wipe>>
  BY DEF BuildLevel, listed, worth, copy
<1> HIDE DEF call
<1>8. QED
  BY <1>5, <1>6, <1>7, CallTyped DEF TypeInv, TypeOK, store
-----------------------------------------------------------------------------
(* What each step of the loop does to the locals of a call, apart from the   *)
(* state they live in.                                                       *)
LEMMA CallLocals ==
  ASSUME TypeInv, NEW b \in Builder
  PROVE  build[b] \in BuildLocals /\ BuildOK(build[b])
BY DEF TypeInv, TypeOK, LocalsOK

LEMMA ReusedCall ==
  ASSUME NEW x \in BuildLocals, BuildOK(x), x.stage = "clusters", NEW c, NEW s \in Summary
  PROVE  LET y == [x EXCEPT !.todo = @ \ {c}, !.built = @ \cup {s}]
         IN  y \in BuildLocals /\ BuildOK(y)
BY DEF BuildLocals, BuildOK

LEMMA StartedCall ==
  ASSUME NEW x \in BuildLocals, BuildOK(x), x.stage = "clusters", NEW c \in x.todo
  PROVE  LET y == [x EXCEPT !.stage = "generating", !.cluster = c]
         IN  y \in BuildLocals /\ BuildOK(y)
BY DEF BuildLocals, BuildOK, Stage

LEMMA GeneratedCall ==
  ASSUME NEW x \in BuildLocals, BuildOK(x), x.stage = "generating",
         NEW s \in Summary, NEW row \in Row
  PROVE  LET y == [x EXCEPT !.stage = "verifying", !.id = s, !.row = row]
         IN  y \in BuildLocals /\ BuildOK(y)
BY DEF BuildLocals, BuildOK, Stage

LEMMA VerifiedCall ==
  ASSUME NEW x \in BuildLocals, BuildOK(x), x.stage = "verifying", NEW row \in Row
  PROVE  LET y == [x EXCEPT !.stage = "saving", !.row = row]
         IN  y \in BuildLocals /\ BuildOK(y)
BY DEF BuildLocals, BuildOK, Stage

LEMMA SavedCall ==
  ASSUME NEW x \in BuildLocals, BuildOK(x), x.stage = "saving"
  PROVE  LET y == [x EXCEPT !.stage = "linking", !.pending = x.cluster]
         IN  y \in BuildLocals /\ BuildOK(y)
BY DEF BuildLocals, BuildOK, Stage

LEMMA LinkedCall ==
  ASSUME NEW x \in BuildLocals, BuildOK(x), NEW l \in Leaf, NEW row \in Row
  PROVE  LET y == [x EXCEPT !.copy[l] = row, !.pending = @ \ {l}]
         IN  y \in BuildLocals /\ BuildOK(y)
BY DEF BuildLocals, BuildOK

LEMMA NextClusterCall ==
  ASSUME NEW x \in BuildLocals, BuildOK(x), x.pending = {}
  PROVE  /\ NextCluster(x) \in BuildLocals
         /\ BuildOK(NextCluster(x))
         /\ NextCluster(x).built = x.built /\ NextCluster(x).rejected = x.rejected
BY DEF BuildLocals, BuildOK, NextCluster, Stage

LEMMA RejectedCall ==
  ASSUME NEW x \in BuildLocals, BuildOK(x), NEW c \in SUBSET Leaf
  PROVE  LET y == [x EXCEPT !.rejected = @ \cup {c}]
         IN  y \in BuildLocals /\ BuildOK(y)
BY DEF BuildLocals, BuildOK

LEMMA BuiltCall ==
  ASSUME NEW x \in BuildLocals, BuildOK(x), NEW s \in Summary
  PROVE  LET y == [x EXCEPT !.built = @ \cup {s}]
         IN  y \in BuildLocals /\ BuildOK(y)
BY DEF BuildLocals, BuildOK

-----------------------------------------------------------------------------
(* The actions of build_level. *)
LEMMA ReuseSummaryTyped ==
  ASSUME TypeInv, NEW b \in Builder, ReuseSummary(b) PROVE TypeInv'
<1>1. PICK c \in build[b].todo, s \in Summary :
        build' = [build EXCEPT ![b].todo = @ \ {c}, ![b].built = @ \cup {s}]
  BY DEF ReuseSummary, ExistingSummary
<1> DEFINE call == [build[b] EXCEPT !.todo = @ \ {c}, !.built = @ \cup {s}]
<1>2. build[b].stage = "clusters" /\ UNCHANGED <<store, audit, marks, wipe>>
  BY DEF ReuseSummary
<1>3. call \in BuildLocals /\ BuildOK(call)
  BY <1>2, CallLocals, ReusedCall
<1>4. build' = [build EXCEPT ![b] = call]
  BY <1>1 DEF TypeInv, TypeOK
<1> HIDE DEF call
<1>5. QED
  BY <1>2, <1>3, <1>4, CallTyped DEF TypeInv, TypeOK, store

LEMMA StartSummaryTyped ==
  ASSUME TypeInv, NEW b \in Builder, StartSummary(b) PROVE TypeInv'
<1>1. PICK c \in build[b].todo :
        build' = [build EXCEPT ![b].stage = "generating", ![b].cluster = c]
  BY DEF StartSummary
<1> DEFINE call == [build[b] EXCEPT !.stage = "generating", !.cluster = c]
<1>2. build[b].stage = "clusters" /\ UNCHANGED <<store, audit, marks, wipe>>
  BY DEF StartSummary
<1>3. call \in BuildLocals /\ BuildOK(call)
  BY <1>2, CallLocals, StartedCall
<1>4. build' = [build EXCEPT ![b] = call]
  BY <1>1 DEF TypeInv, TypeOK
<1> HIDE DEF call
<1>5. QED
  BY <1>2, <1>3, <1>4, CallTyped DEF TypeInv, TypeOK, store

LEMMA NewestVersionNat ==
  ASSUME TypeOK, NEW c, NEW v \in NewestVersion(c) PROVE v \in Nat
<1>1. VersionsOf(c) \subseteq Nat
  BY DEF VersionsOf, TypeOK, Row, Stored, Node
<1>2. QED
  BY <1>1 DEF NewestVersion

LEMMA GenerateReturnsTyped ==
  ASSUME TypeInv, NEW b \in Builder, GenerateReturns(b) PROVE TypeInv'
<1>1. PICK s \in Summary \ used, v \in NewestVersion(build[b].cluster) :
        /\ used' = used \cup {s}
        /\ Trace(s, "summarizer")
        /\ build' = [build EXCEPT
             ![b].stage = "verifying",
             ![b].id = s,
             ![b].row = [parents |-> {}, children |-> build[b].cluster, version |-> v + 1,
                         stale |-> FALSE, quality |-> "pending"]]
  BY DEF GenerateReturns
<1> DEFINE row == [parents |-> {}, children |-> build[b].cluster, version |-> v + 1,
                   stale |-> FALSE, quality |-> "pending"]
           call == [build[b] EXCEPT !.stage = "verifying", !.id = s, !.row = row]
<1>2. build[b].stage = "generating" /\ UNCHANGED <<rows, edges, torn, audit, marks, wipe>>
  BY DEF GenerateReturns
<1>3. v \in Nat
  BY NewestVersionNat DEF TypeInv
<1>4. build[b].cluster \in SUBSET Leaf
  BY CallLocals DEF BuildLocals
<1>5. row \in Row
  BY <1>3, <1>4 DEF Row, Quality
<1>6. build' = [build EXCEPT ![b] = call]
  BY <1>1 DEF TypeInv, TypeOK
<1> HIDE DEF row
<1>7. call \in BuildLocals /\ BuildOK(call)
  BY <1>2, <1>5, CallLocals, GeneratedCall
<1> HIDE DEF call
<1>8. traces' \subseteq Summary \X Component /\ used' \subseteq Node
  BY <1>1 DEF TypeInv, TypeOK, Trace, Component, Node
<1>9. QED
  BY <1>2, <1>6, <1>7, <1>8, CallTyped DEF TypeInv, TypeOK

LEMMA VerifyReturnsTyped ==
  ASSUME TypeInv, NEW b \in Builder, VerifyReturns(b) PROVE TypeInv'
<1>1. PICK q \in Verdict :
        /\ Trace(build[b].id, "verifier")
        /\ build' = [build EXCEPT
             ![b] = IF Dropped(q)
                    THEN [NextCluster(build[b]) EXCEPT !.rejected = build[b].rejected \cup {build[b].cluster}]
                    ELSE [@ EXCEPT !.stage = "saving", !.row.quality = q]]
  BY DEF VerifyReturns
<1>2. build[b].stage = "verifying" /\ UNCHANGED <<rows, edges, used, torn, audit, marks, wipe>>
  BY DEF VerifyReturns
<1>3. /\ build[b].id \in Summary /\ build[b].row \in Row
      /\ build[b].cluster \in SUBSET Leaf
      /\ build[b].pending = {}
  BY <1>2, CallLocals DEF BuildOK, BuildLocals
<1>4. traces' \subseteq Summary \X Component
  BY <1>1, <1>3 DEF Trace, Component, TypeInv, TypeOK
<1>5. CASE Dropped(q)
  <2> DEFINE call == [NextCluster(build[b]) EXCEPT !.rejected = build[b].rejected \cup {build[b].cluster}]
  <2>1. call \in BuildLocals /\ BuildOK(call)
    BY <1>3, CallLocals, NextClusterCall, RejectedCall
  <2>2. build' = [build EXCEPT ![b] = call]
    BY <1>1, <1>5
  <2> HIDE DEF call
  <2>3. QED
    BY <1>2, <1>4, <2>1, <2>2, CallTyped DEF TypeInv, TypeOK
<1>6. CASE ~Dropped(q)
  <2> DEFINE row == [build[b].row EXCEPT !.quality = q]
             call == [build[b] EXCEPT !.stage = "saving", !.row = row]
  <2>1. row \in Row
    BY <1>3 DEF Row, Quality
  <2>2. build' = [build EXCEPT ![b] = call]
    BY <1>1, <1>6, CallLocals DEF BuildLocals
  <2> HIDE DEF row
  <2>3. call \in BuildLocals /\ BuildOK(call)
    BY <1>2, <2>1, CallLocals, VerifiedCall
  <2> HIDE DEF call
  <2>4. QED
    BY <1>2, <1>4, <2>2, <2>3, CallTyped DEF TypeInv, TypeOK
<1>7. QED
  BY <1>5, <1>6

LEMMA SaveSummaryTyped ==
  ASSUME TypeInv, NEW b \in Builder, SaveSummary(b) PROVE TypeInv'
<1> DEFINE call == [build[b] EXCEPT !.stage = "linking", !.pending = build[b].cluster]
<1>1. build[b].stage = "saving" /\ UNCHANGED <<traces, used, audit, marks, wipe>>
  BY DEF SaveSummary
<1>2. build[b].id \in Node /\ build[b].row \in Row
  BY <1>1, CallLocals DEF BuildOK, Node
<1>3. rows' \in [Node -> Row \cup {NoRow}] /\ edges' \subseteq Node \X Node /\ torn' \subseteq Node
  BY <1>2, UpsertTyped DEF SaveSummary, TypeInv, TypeOK
<1>4. build' = [build EXCEPT ![b] = call]
  BY DEF SaveSummary, TypeInv, TypeOK
<1>5. call \in BuildLocals /\ BuildOK(call)
  BY <1>1, CallLocals, SavedCall
<1> HIDE DEF call
<1>6. QED
  BY <1>1, <1>3, <1>4, <1>5, CallTyped DEF TypeInv, TypeOK

(* The row a child is written back with is the listed row plus one parent. *)
LEMMA BackfilledRow ==
  ASSUME TypeInv, NEW b \in Builder, NEW l \in build[b].pending
  PROVE  /\ l \in Leaf /\ build[b].stage = "linking" /\ build[b].id \in Summary
         /\ build[b].copy[l] \in Row /\ Backfilled(b, l) \in Row
<1>1. build[b] \in BuildLocals /\ BuildOK(build[b])
  BY CallLocals
<1>2. l \in Leaf /\ build[b].stage = "linking" /\ l \in build[b].cluster
  BY <1>1 DEF BuildLocals, BuildOK
<1>3. build[b].id \in Summary /\ build[b].cluster \in build[b].todo
  BY <1>1, <1>2 DEF BuildOK
<1>4. build[b].copy[l] \in Row
  BY <1>1, <1>2, <1>3 DEF BuildOK
<1>5. Backfilled(b, l) \in Row
  BY <1>3, <1>4 DEF Backfilled, Row
<1>6. QED
  BY <1>2, <1>3, <1>4, <1>5

LEMMA LinkChildTyped ==
  ASSUME TypeInv, NEW b \in Builder, LinkChild(b) PROVE TypeInv'
<1>1. PICK l \in build[b].pending :
        /\ Upsert(l, Backfilled(b, l))
        /\ build' = [build EXCEPT ![b].copy[l] = Backfilled(b, l), ![b].pending = @ \ {l}]
        /\ UNCHANGED <<traces, used, audit, marks, wipe>>
  BY DEF LinkChild
<1> DEFINE row == Backfilled(b, l)
           call == [build[b] EXCEPT !.copy[l] = row, !.pending = @ \ {l}]
<1>2. l \in Leaf /\ l \in Node /\ row \in Row
  BY BackfilledRow DEF Node
<1>3. rows' \in [Node -> Row \cup {NoRow}] /\ edges' \subseteq Node \X Node /\ torn' \subseteq Node
  BY <1>1, <1>2, UpsertTyped DEF TypeInv, TypeOK
<1> HIDE DEF row
<1>4. build' = [build EXCEPT ![b] = call]
  BY <1>1, CallLocals DEF BuildLocals, TypeInv, TypeOK, row
<1>5. call \in BuildLocals /\ BuildOK(call)
  BY <1>2, CallLocals, LinkedCall
<1> HIDE DEF call
<1>6. QED
  BY <1>1, <1>3, <1>4, <1>5, CallTyped DEF TypeInv, TypeOK

LEMMA ClusterBuiltTyped ==
  ASSUME TypeInv, NEW b \in Builder, ClusterBuilt(b) PROVE TypeInv'
<1> DEFINE call == [NextCluster(build[b]) EXCEPT !.built = build[b].built \cup {build[b].id}]
<1>1. /\ build[b].stage = "linking" /\ build[b].pending = {}
      /\ build' = [build EXCEPT ![b] = call]
      /\ UNCHANGED <<store, audit, marks, wipe>>
  BY DEF ClusterBuilt
<1>2. build[b].id \in Summary
  BY <1>1, CallLocals DEF BuildOK
<1>3. call \in BuildLocals /\ BuildOK(call)
  BY <1>1, <1>2, CallLocals, NextClusterCall, BuiltCall
<1> HIDE DEF call
<1>4. QED
  BY <1>1, <1>3, CallTyped DEF TypeInv, TypeOK, store

LEMMA BuildEndsTyped ==
  ASSUME TypeInv, NEW b \in Builder, BuildReturns(b) \/ BuildFails(b) PROVE TypeInv'
<1>1. build' = [build EXCEPT ![b] = IdleBuild] /\ UNCHANGED <<store, audit, marks, wipe>>
  BY DEF BuildReturns, BuildFails, ModelError, Crash
<1>2. IdleBuild \in BuildLocals /\ BuildOK(IdleBuild)
  BY IdleTyped DEF BuildOK, IdleBuild, NewCall
<1>3. QED
  BY <1>1, <1>2, CallTyped DEF TypeInv, TypeOK, store

-----------------------------------------------------------------------------
(* verify_job, refresh and deletion leave the builders alone. *)
LEMMA BuildLocalsKept ==
  ASSUME TypeInv, build' = build, audit' \in [Verifier -> AuditLocals],
         \A v \in Verifier : AuditOK(audit'[v])
  PROVE  LocalsOK'
<1>1. \A b \in Builder : BuildOK(build[b])'
  BY DEF TypeInv, LocalsOK, BuildOK
<1>2. \A v \in Verifier : AuditOK(audit[v])'
  BY DEF AuditOK
<1>3. QED
  BY <1>1, <1>2 DEF LocalsOK

LEMMA VerifyJobReadsTyped ==
  ASSUME TypeInv, NEW v \in Verifier, VerifyJobReads(v) PROVE TypeInv'
<1>1. PICK s \in Summary :
        /\ Stored(s)
        /\ audit' = [audit EXCEPT ![v] = [id |-> s, row |-> rows[s]]]
        /\ UNCHANGED <<store, build, marks, wipe>>
  BY DEF VerifyJobReads
<1>2. rows[s] \in Row
  BY <1>1 DEF TypeInv, TypeOK, Stored, Node
<1>3. audit' \in [Verifier -> AuditLocals]
  BY <1>1, <1>2 DEF TypeInv, TypeOK, AuditLocals
<1>4. \A x \in Verifier : AuditOK(audit'[x])
  BY <1>1, <1>2 DEF TypeInv, TypeOK, LocalsOK, AuditOK
<1>5. TypeOK'
  BY <1>1, <1>3 DEF TypeInv, TypeOK, store
<1>6. QED
  BY <1>1, <1>3, <1>4, <1>5, BuildLocalsKept DEF TypeInv

(* A verify_job that writes or gives up is idle again. *)
LEMMA AuditEnds ==
  ASSUME TypeInv, NEW v \in Verifier, audit' = [audit EXCEPT ![v] = IdleAudit]
  PROVE  audit' \in [Verifier -> AuditLocals] /\ \A x \in Verifier : AuditOK(audit'[x])
<1>1. audit' \in [Verifier -> AuditLocals]
  BY IdleTyped DEF TypeInv, TypeOK
<1>2. AuditOK(IdleAudit)
  BY DEF AuditOK
<1>3. \A x \in Verifier : AuditOK(audit'[x])
  BY <1>2 DEF TypeInv, TypeOK, LocalsOK
<1>4. QED
  BY <1>1, <1>3

(* The row verify_job writes back is well-formed. *)
LEMMA AuditedRow ==
  ASSUME TypeInv, NEW v \in Verifier, audit[v] # IdleAudit, NEW q \in Verdict
  PROVE  audit[v].id \in Summary /\ audit[v].row \in Row /\ Audited(audit[v].row, q) \in Row
<1>1. audit[v].id \in Summary /\ audit[v].row \in Row
  BY DEF TypeInv, LocalsOK, AuditOK
<1>2. Audited(audit[v].row, q) \in Row
  BY <1>1 DEF Audited, Row, Quality
<1>3. QED
  BY <1>1, <1>2

LEMMA VerifyJobWritesTyped ==
  ASSUME TypeInv, NEW v \in Verifier, VerifyJobWrites(v) PROVE TypeInv'
<1>1. PICK q \in Verdict :
        /\ Trace(audit[v].id, "verifier")
        /\ Upsert(audit[v].id, Audited(audit[v].row, q))
  BY DEF VerifyJobWrites
<1>2. /\ audit[v] # IdleAudit
      /\ audit' = [audit EXCEPT ![v] = IdleAudit]
      /\ UNCHANGED <<used, build, marks, wipe>>
  BY DEF VerifyJobWrites
<1>3. audit[v].id \in Summary /\ Audited(audit[v].row, q) \in Row
  BY <1>2, AuditedRow
<1>4. rows' \in [Node -> Row \cup {NoRow}] /\ edges' \subseteq Node \X Node /\ torn' \subseteq Node
  BY <1>1, <1>3, UpsertTyped DEF TypeInv, TypeOK, Node
<1>5. traces' \subseteq Summary \X Component
  BY <1>1, <1>3 DEF Trace, Component, TypeInv, TypeOK
<1>6. audit' \in [Verifier -> AuditLocals] /\ \A x \in Verifier : AuditOK(audit'[x])
  BY <1>2, AuditEnds
<1>7. TypeOK'
  BY <1>2, <1>4, <1>5, <1>6 DEF TypeInv, TypeOK
<1>8. QED
  BY <1>2, <1>6, <1>7, BuildLocalsKept DEF TypeInv

LEMMA VerifyJobMissesRowTyped ==
  ASSUME TypeInv, NEW v \in Verifier, VerifyJobMissesRow(v) PROVE TypeInv'
<1>1. /\ audit[v] # IdleAudit
      /\ UpsertMissesRow(audit[v].id, audit[v].row)
      /\ audit' = [audit EXCEPT ![v] = IdleAudit]
      /\ UNCHANGED <<used, build, marks, wipe>>
  BY DEF VerifyJobMissesRow
<1>2. audit[v].id \in Node /\ audit[v].row.children \subseteq Node
  BY <1>1 DEF TypeInv, LocalsOK, AuditOK, Node, Row
<1>3. edges' \subseteq Node \X Node /\ torn' \subseteq Node /\ UNCHANGED rows
  BY <1>1, <1>2 DEF UpsertMissesRow, WriteEdges, TypeInv, TypeOK
<1>4. audit' \in [Verifier -> AuditLocals] /\ \A x \in Verifier : AuditOK(audit'[x])
  BY <1>1, AuditEnds
<1>5. traces' \subseteq Summary \X Component
  <2>1. audit[v].id \in Summary
    BY <1>1 DEF TypeInv, LocalsOK, AuditOK
  <2>2. QED
    BY <2>1 DEF VerifyJobMissesRow, Trace, Component, TypeInv, TypeOK
<1>6. TypeOK'
  BY <1>1, <1>3, <1>4, <1>5 DEF TypeInv, TypeOK
<1>7. QED
  BY <1>1, <1>4, <1>6, BuildLocalsKept DEF TypeInv

LEMMA VerifyJobFailsTyped ==
  ASSUME TypeInv, NEW v \in Verifier, VerifyJobFails(v) PROVE TypeInv'
<1>1. audit' = [audit EXCEPT ![v] = IdleAudit] /\ UNCHANGED <<store, build, marks, wipe>>
  BY DEF VerifyJobFails
<1>2. audit' \in [Verifier -> AuditLocals] /\ \A x \in Verifier : AuditOK(audit'[x])
  BY <1>1, AuditEnds
<1>3. TypeOK'
  BY <1>1, <1>2 DEF TypeInv, TypeOK, store
<1>4. QED
  BY <1>1, <1>2, <1>3, BuildLocalsKept DEF TypeInv

(* mark_stale keeps the rows well-formed. *)
LEMMA MarkStaleTyped ==
  ASSUME rows \in [Node -> Row \cup {NoRow}], NEW ids, MarkStale(ids)
  PROVE  rows' \in [Node -> Row \cup {NoRow}]
<1>1. ASSUME NEW n \in Node, Stored(n) PROVE [rows[n] EXCEPT !.stale = TRUE] \in Row
  BY <1>1 DEF Stored, Row
<1>2. QED
  BY <1>1 DEF MarkStale

(* What refresh and deletion do to the rows, and what they leave alone. *)
LEMMA RefreshSteps ==
  ASSUME NEW r \in Refresher, Refresh(r)
  PROVE  /\ UNCHANGED <<edges, traces, used, torn, build, audit, wipe>>
         /\ UNCHANGED rows \/ MarkStale(marks[r])
BY DEF Refresh, RefreshReads, RefreshMissesRow, RefreshMarks, RefreshFails, store

LEMMA DeleteSteps ==
  ASSUME TypeInv, NEW d \in Deleter, DeleteAgentData(d)
  PROVE  /\ UNCHANGED <<used, torn, build, audit, marks>>
         /\ edges' \subseteq edges /\ traces' \subseteq traces
         /\ \A n \in Node : rows'[n] \in {NoRow, rows[n]}
<1>1. CASE DeleteSelects(d) \/ DeleteEdges(d) \/ DeleteFails(d)
  BY <1>1 DEF DeleteSelects, DeleteEdges, DeleteFails, store
<1>2. CASE DeleteCommits(d)
  BY <1>2 DEF DeleteCommits
<1>3. QED
  BY <1>1, <1>2 DEF DeleteAgentData

LEMMA RefreshTyped ==
  ASSUME TypeInv, NEW r \in Refresher, Refresh(r) PROVE TypeInv'
<1>1. UNCHANGED <<edges, traces, used, torn, build, audit, wipe>>
  BY RefreshSteps
<1>2. rows' \in [Node -> Row \cup {NoRow}]
  BY RefreshSteps, MarkStaleTyped DEF TypeInv, TypeOK
<1>3. marks' \in [Refresher -> SUBSET Summary]
  <2>1. marks \in [Refresher -> SUBSET Summary]
    BY DEF TypeInv, TypeOK
  <2>2. CASE RefreshReads(r)
    BY <2>1, <2>2 DEF RefreshReads, ParentIds
  <2>3. CASE RefreshMissesRow(r)
    BY <2>1, <2>3 DEF RefreshMissesRow
  <2>4. CASE RefreshMarks(r) \/ RefreshFails(r)
    BY <2>1, <2>4 DEF RefreshMarks, RefreshFails
  <2>5. QED
    BY <2>2, <2>3, <2>4 DEF Refresh
<1>4. TypeOK'
  BY <1>1, <1>2, <1>3 DEF TypeInv, TypeOK
<1>5. LocalsOK'
  BY <1>1 DEF TypeInv, LocalsOK, BuildOK, AuditOK
<1>6. QED
  BY <1>4, <1>5 DEF TypeInv

LEMMA WipeTyped ==
  ASSUME TypeInv, NEW d \in Deleter, DeleteAgentData(d)
  PROVE  wipe' \in [Deleter -> WipeLocals]
<1>1. wipe \in [Deleter -> WipeLocals] /\ edges \subseteq Node \X Node
  BY DEF TypeInv, TypeOK
<1>2. CASE DeleteSelects(d)
  <2> DEFINE job == [stage |-> "selected", ids |-> {n \in Node : Stored(n)}, gone |-> {}]
  <2>1. job \in WipeLocals
    BY DEF WipeLocals
  <2>2. QED
    BY <1>1, <1>2, <2>1 DEF DeleteSelects
<1>3. CASE DeleteEdges(d)
  <2> DEFINE gone == {e \in edges : {e[1], e[2]} \cap wipe[d].ids # {}}
             job == [wipe[d] EXCEPT !.stage = "deleting", !.gone = gone]
  <2>1. gone \subseteq Node \X Node
    BY <1>1
  <2>2. wipe' = [wipe EXCEPT ![d] = job]
    BY <1>1, <1>3 DEF DeleteEdges
  <2> HIDE DEF gone
  <2>3. job \in WipeLocals
    BY <1>1, <2>1 DEF WipeLocals
  <2>4. QED
    BY <1>1, <2>2, <2>3
<1>4. CASE DeleteCommits(d) \/ DeleteFails(d)
  BY <1>1, <1>4, IdleTyped DEF DeleteCommits, DeleteFails
<1>5. QED
  BY <1>2, <1>3, <1>4 DEF DeleteAgentData

LEMMA DeleteTyped ==
  ASSUME TypeInv, NEW d \in Deleter, DeleteAgentData(d) PROVE TypeInv'
<1>1. rows' \in [Node -> Row \cup {NoRow}]
  <2>1. CASE DeleteCommits(d)
    BY <2>1 DEF DeleteCommits, TypeInv, TypeOK
  <2>2. CASE ~DeleteCommits(d)
    BY <2>2 DEF DeleteAgentData, DeleteSelects, DeleteEdges, DeleteFails, store, TypeInv, TypeOK
  <2>3. QED
    BY <2>1, <2>2
<1>2. TypeOK'
  BY <1>1, WipeTyped, DeleteSteps DEF TypeInv, TypeOK
<1>3. LocalsOK'
  BY DeleteSteps DEF TypeInv, LocalsOK, BuildOK, AuditOK
<1>4. QED
  BY <1>2, <1>3 DEF TypeInv

(* What verify_job leaves alone; only VerifyJobWrites changes a row. *)
LEMMA VerifyJobSteps ==
  ASSUME NEW v \in Verifier, VerifyJob(v) PROVE UNCHANGED <<used, build, marks, wipe>>
BY DEF VerifyJob, VerifyJobReads, VerifyJobWrites, VerifyJobMissesRow, VerifyJobFails, store

LEMMA VerifyJobRows ==
  ASSUME NEW v \in Verifier, VerifyJob(v), ~VerifyJobWrites(v) PROVE UNCHANGED rows
BY DEF VerifyJob, VerifyJobReads, VerifyJobMissesRow, UpsertMissesRow, VerifyJobFails, store

-----------------------------------------------------------------------------
LEMMA NextTyped ==
  ASSUME TypeInv, [Next]_vars PROVE TypeInv'
<1>1. ASSUME NEW l \in Leaf, WriteL0(l) PROVE TypeInv'
  BY <1>1, WriteL0Typed
<1>2. ASSUME NEW b \in Builder, BuildLevel(b) \/ BuildStep(b) \/ BuildFails(b)
      PROVE  TypeInv'
  BY <1>2, BuildLevelTyped, ReuseSummaryTyped, StartSummaryTyped, GenerateReturnsTyped,
     VerifyReturnsTyped, SaveSummaryTyped, LinkChildTyped, ClusterBuiltTyped,
     BuildEndsTyped DEF BuildStep
<1>3. ASSUME NEW v \in Verifier, VerifyJob(v) PROVE TypeInv'
  BY <1>3, VerifyJobReadsTyped, VerifyJobWritesTyped, VerifyJobMissesRowTyped,
     VerifyJobFailsTyped DEF VerifyJob
<1>4. ASSUME NEW r \in Refresher, Refresh(r) PROVE TypeInv'
  BY <1>4, RefreshTyped
<1>5. ASSUME NEW d \in Deleter, DeleteAgentData(d) PROVE TypeInv'
  BY <1>5, DeleteTyped
<1>6. ASSUME UNCHANGED vars PROVE TypeInv'
  BY <1>6 DEF vars, TypeInv, TypeOK, LocalsOK, BuildOK, AuditOK
<1>7. QED
  BY <1>1, <1>2, <1>3, <1>4, <1>5, <1>6 DEF Next

(* The tables and the locals of every job are well-formed, at every stage a  *)
(* draft is a complete row under a drawn id, and build_level never writes     *)
(* back a child it did not list.                                             *)
THEOREM TypeCorrect == Spec => [](TypeOK /\ LocalsOK)
<1>1. Init => TypeInv
  BY InitTyped
<1>2. TypeInv /\ [Next]_vars => TypeInv'
  BY NextTyped
<1>3. TypeInv <=> TypeOK /\ LocalsOK
  BY DEF TypeInv
<1>4. QED
  BY <1>1, <1>2, <1>3, PTL DEF Spec

-----------------------------------------------------------------------------
(* What can happen to the tables in one step: a row and its edges are        *)
(* rewritten together, the edges of a missing row are, flags are set, a      *)
(* deletion commits, or nothing.                                             *)
LEMMA TableSteps ==
  ASSUME TypeInv, [Next]_vars
  PROVE  \/ \E n \in Node, row \in Row : Upsert(n, row) /\ UNCHANGED wipe
         \/ \E n \in Node, row \in Row : UpsertMissesRow(n, row) /\ UNCHANGED wipe
         \/ \E ids \in SUBSET Summary : MarkStale(ids) /\ UNCHANGED <<edges, torn, wipe>>
         \/ \E d \in Deleter : DeleteAgentData(d)
         \/ UNCHANGED <<rows, edges, torn, wipe>>
<1> DEFINE Goal ==
             \/ \E n \in Node, row \in Row : Upsert(n, row) /\ UNCHANGED wipe
             \/ \E n \in Node, row \in Row : UpsertMissesRow(n, row) /\ UNCHANGED wipe
             \/ \E ids \in SUBSET Summary : MarkStale(ids) /\ UNCHANGED <<edges, torn, wipe>>
             \/ \E d \in Deleter : DeleteAgentData(d)
             \/ UNCHANGED <<rows, edges, torn, wipe>>
<1>1. ASSUME NEW l \in Leaf, WriteL0(l) PROVE Goal
  <2> DEFINE row == [parents |-> {}, children |-> {}, version |-> 1,
                     stale |-> FALSE, quality |-> "verified"]
  <2>1. row \in Row
    BY DEF Row, Quality, Verdict
  <2>2. l \in Node /\ Upsert(l, row) /\ UNCHANGED wipe
    BY <1>1 DEF WriteL0, Node
  <2>3. QED
    BY <2>1, <2>2
<1>2. ASSUME NEW b \in Builder, BuildLevel(b) \/ BuildStep(b) \/ BuildFails(b) PROVE Goal
  <2>1. CASE SaveSummary(b)
    <3>1. build[b].id \in Node /\ build[b].row \in Row
      BY <2>1, CallLocals DEF SaveSummary, BuildOK, Node
    <3>2. QED
      BY <2>1, <3>1 DEF SaveSummary
  <2>2. CASE LinkChild(b)
    <3>1. PICK l \in build[b].pending : Upsert(l, Backfilled(b, l)) /\ UNCHANGED wipe
      BY <2>2 DEF LinkChild
    <3>2. l \in Node /\ Backfilled(b, l) \in Row
      BY BackfilledRow DEF Node
    <3>3. QED
      BY <3>1, <3>2
  <2>3. CASE ~SaveSummary(b) /\ ~LinkChild(b)
    <3>1. UNCHANGED <<rows, edges, torn, wipe>>
      BY <1>2, <2>3 DEF BuildLevel, BuildStep, BuildFails, ReuseSummary, StartSummary,
         GenerateReturns, VerifyReturns, ClusterBuilt, BuildReturns, ModelError, Crash, store
    <3>2. QED
      BY <3>1
  <2>4. QED
    BY <2>1, <2>2, <2>3
<1>3. ASSUME NEW v \in Verifier, VerifyJob(v) PROVE Goal
  <2>1. CASE VerifyJobWrites(v)
    <3>1. PICK q \in Verdict : Upsert(audit[v].id, Audited(audit[v].row, q)) /\ UNCHANGED wipe
      BY <2>1 DEF VerifyJobWrites
    <3>2. audit[v].id \in Node /\ Audited(audit[v].row, q) \in Row
      BY <2>1, AuditedRow DEF VerifyJobWrites, Node
    <3>3. QED
      BY <3>1, <3>2
  <2>2. CASE VerifyJobMissesRow(v)
    <3>1. audit[v].id \in Node /\ audit[v].row \in Row
      BY <2>2 DEF VerifyJobMissesRow, TypeInv, LocalsOK, AuditOK, Node
    <3>2. QED
      BY <2>2, <3>1 DEF VerifyJobMissesRow
  <2>3. CASE VerifyJobReads(v) \/ VerifyJobFails(v)
    BY <2>3 DEF VerifyJobReads, VerifyJobFails, store
  <2>4. QED
    BY <1>3, <2>1, <2>2, <2>3 DEF VerifyJob
<1>4. ASSUME NEW r \in Refresher, Refresh(r) PROVE Goal
  <2>1. marks[r] \in SUBSET Summary
    BY DEF TypeInv, TypeOK
  <2>2. QED
    BY <1>4, <2>1, RefreshSteps
<1>5. QED
  BY <1>1, <1>2, <1>3, <1>4 DEF Next, vars

(* The two parts of EdgesMatchRows, for one node. *)
NoForeignEdge(n) == Stored(n) => \A e \in edges : e[1] = n => e[2] \in rows[n].children

EdgesExact(n) ==
  {e \in edges : e[1] = n} = IF Stored(n) THEN {n} \X rows[n].children ELSE {}

(* What a deletion under way will delete: every stored row but those written *)
(* meanwhile, and once the edges are selected, theirs.                       *)
WipeCovers(d) ==
  wipe[d] # IdleWipe =>
    \A n \in Node : Stored(n) /\ n \notin torn =>
      /\ n \in wipe[d].ids
      /\ wipe[d].stage = "deleting" => {e \in edges : e[1] = n} \subseteq wipe[d].gone

EdgesInv ==
  /\ \A n \in Node : NoForeignEdge(n)
  /\ \A n \in Node \ torn : EdgesExact(n)
  /\ \A d \in Deleter : WipeCovers(d)

LEMMA EdgesInvImplies ==
  ASSUME TypeInv, EdgesInv PROVE EdgesMatchRows
<1>1. \A e \in edges : e[1] \in Node
  BY DEF TypeInv, TypeOK
<1>2. QED
  BY <1>1 DEF EdgesInv, NoForeignEdge, EdgesExact, EdgesMatchRows

(* A step that leaves a node's row, its edges and its history alone keeps    *)
(* what EdgesInv says of it.                                                 *)
LEMMA EdgesOfOthersKept ==
  ASSUME NEW m \in Node, rows'[m] = rows[m],
         {e \in edges' : e[1] = m} = {e \in edges : e[1] = m}
  PROVE  /\ NoForeignEdge(m) => NoForeignEdge(m)'
         /\ EdgesExact(m) => EdgesExact(m)'
         /\ Stored(m)' <=> Stored(m)
<1>1. ASSUME NoForeignEdge(m), Stored(m)', NEW e \in edges', e[1] = m
      PROVE  e[2] \in rows'[m].children
  <2>1. e \in {f \in edges' : f[1] = m}
    BY <1>1
  <2>2. e \in edges
    BY <2>1
  <2>3. QED
    BY <1>1, <2>2 DEF NoForeignEdge, Stored
<1>2. QED
  BY <1>1 DEF NoForeignEdge, EdgesExact, Stored

(* Writing the row and the edges of n: the edges of n are exact, and with a   *)
(* deletion under way n is counted as torn.                                  *)
LEMMA UpsertKeepsEdges ==
  ASSUME TypeInv, EdgesInv, NEW n \in Node, NEW row \in Row, Upsert(n, row), UNCHANGED wipe
  PROVE  EdgesInv'
<1>1. /\ rows' = [rows EXCEPT ![n] = row]
      /\ edges' = {e \in edges : e[1] # n} \cup ({n} \X row.children)
      /\ torn' = IF Deleting THEN torn \cup {n} ELSE torn \ {n}
      /\ rows \in [Node -> Row \cup {NoRow}]
  BY DEF Upsert, WriteEdges, TypeInv, TypeOK
<1>2. rows'[n] = row /\ row # NoRow
  BY <1>1, NodesAssumption
<1>3. {e \in edges' : e[1] = n} = {n} \X row.children
  BY <1>1
<1>4. EdgesExact(n)' /\ NoForeignEdge(n)'
  <2>1. EdgesExact(n)'
    BY <1>2, <1>3 DEF EdgesExact, Stored
  <2>2. \A e \in edges' : e[1] = n => e \in {n} \X row.children
    BY <1>3
  <2>3. QED
    BY <1>2, <2>1, <2>2 DEF NoForeignEdge
<1>5. ASSUME NEW m \in Node, m # n
      PROVE  /\ rows'[m] = rows[m]
             /\ {e \in edges' : e[1] = m} = {e \in edges : e[1] = m}
             /\ m \in torn' <=> m \in torn
  BY <1>1, <1>5
<1>6. \A m \in Node : NoForeignEdge(m)'
  BY <1>4, <1>5, EdgesOfOthersKept DEF EdgesInv
<1>7. \A m \in Node \ torn' : EdgesExact(m)'
  BY <1>4, <1>5, EdgesOfOthersKept DEF EdgesInv
<1>8. ASSUME NEW d \in Deleter, wipe[d] # IdleWipe,
             NEW m \in Node, rows'[m] # NoRow, m \notin torn'
      PROVE  /\ m \in wipe[d].ids
             /\ wipe[d].stage = "deleting" => {e \in edges' : e[1] = m} \subseteq wipe[d].gone
  <2>1. m # n
    BY <1>1, <1>8 DEF Deleting
  <2>2. Stored(m) /\ m \notin torn /\ {e \in edges' : e[1] = m} = {e \in edges : e[1] = m}
    BY <1>5, <1>8, <2>1 DEF Stored
  <2>3. QED
    BY <1>8, <2>2 DEF EdgesInv, WipeCovers
<1>9. \A d \in Deleter : WipeCovers(d)'
  BY <1>8 DEF WipeCovers, Stored
<1>10. QED
  BY <1>6, <1>7, <1>9 DEF EdgesInv

(* Writing the edges of a missing row: it is torn. *)
LEMMA MissedRowKeepsEdges ==
  ASSUME TypeInv, EdgesInv, NEW n \in Node, NEW row \in Row,
         UpsertMissesRow(n, row), UNCHANGED wipe
  PROVE  EdgesInv'
<1>1. /\ ~Stored(n) /\ rows' = rows /\ torn' = torn \cup {n}
      /\ edges' = {e \in edges : e[1] # n} \cup ({n} \X row.children)
  BY DEF UpsertMissesRow, WriteEdges
<1>2. ASSUME NEW m \in Node, m # n
      PROVE  {e \in edges' : e[1] = m} = {e \in edges : e[1] = m}
  BY <1>1, <1>2
<1>3. \A m \in Node : NoForeignEdge(m)'
  <2>1. NoForeignEdge(n)'
    BY <1>1 DEF NoForeignEdge, Stored
  <2>2. QED
    BY <1>1, <1>2, <2>1, EdgesOfOthersKept DEF EdgesInv
<1>4. \A m \in Node \ torn' : EdgesExact(m)'
  BY <1>1, <1>2, EdgesOfOthersKept DEF EdgesInv
<1>5. ASSUME NEW d \in Deleter, wipe[d] # IdleWipe,
             NEW m \in Node, rows'[m] # NoRow, m \notin torn'
      PROVE  /\ m \in wipe[d].ids
             /\ wipe[d].stage = "deleting" => {e \in edges' : e[1] = m} \subseteq wipe[d].gone
  <2>1. Stored(m) /\ m \notin torn /\ {e \in edges' : e[1] = m} = {e \in edges : e[1] = m}
    BY <1>1, <1>2, <1>5 DEF Stored
  <2>2. QED
    BY <1>5, <2>1 DEF EdgesInv, WipeCovers
<1>6. \A d \in Deleter : WipeCovers(d)'
  BY <1>5 DEF WipeCovers, Stored
<1>7. QED
  BY <1>3, <1>4, <1>6 DEF EdgesInv

(* Setting flags changes no child list. *)
LEMMA MarkStaleKeepsEdges ==
  ASSUME TypeInv, EdgesInv, NEW ids, MarkStale(ids), UNCHANGED <<edges, torn, wipe>>
  PROVE  EdgesInv'
<1>1. \A m \in Node : /\ rows'[m] # NoRow <=> rows[m] # NoRow
                      /\ rows[m] # NoRow => rows'[m].children = rows[m].children
  <2>1. ASSUME NEW m \in Node, rows[m] # NoRow
        PROVE  /\ [rows[m] EXCEPT !.stale = TRUE] # NoRow
               /\ [rows[m] EXCEPT !.stale = TRUE].children = rows[m].children
    BY <2>1, NodesAssumption DEF TypeInv, TypeOK, Row
  <2>2. QED
    BY <2>1 DEF MarkStale, Stored
<1>2. \A m \in Node : NoForeignEdge(m)'
  BY <1>1 DEF EdgesInv, NoForeignEdge, Stored
<1>3. \A m \in Node \ torn' : EdgesExact(m)'
  BY <1>1 DEF EdgesInv, EdgesExact, Stored
<1>4. \A d \in Deleter : WipeCovers(d)'
  BY <1>1 DEF EdgesInv, WipeCovers, Stored
<1>5. QED
  BY <1>2, <1>3, <1>4 DEF EdgesInv

(* The steps of a deletion before it commits change no table; what it        *)
(* selected covers what is stored and not torn.                              *)
LEMMA DeletionKeepsEdges ==
  ASSUME TypeInv, EdgesInv, NEW d \in Deleter,
         DeleteSelects(d) \/ DeleteEdges(d) \/ DeleteFails(d)
  PROVE  EdgesInv'
<1>1. UNCHANGED <<rows, edges, torn>>
  BY DEF DeleteSelects, DeleteEdges, DeleteFails, store
<1>2. wipe \in [Deleter -> WipeLocals]
  BY DEF TypeInv, TypeOK
<1>3. ASSUME NEW c \in Deleter, wipe'[c] # IdleWipe, NEW n \in Node, Stored(n), n \notin torn
      PROVE  /\ n \in wipe'[c].ids
             /\ wipe'[c].stage = "deleting" => {e \in edges : e[1] = n} \subseteq wipe'[c].gone
  <2>1. CASE c # d
    <3>1. wipe'[c] = wipe[c]
      BY <1>2, <2>1 DEF DeleteSelects, DeleteEdges, DeleteFails
    <3>2. QED
      BY <1>3, <3>1 DEF EdgesInv, WipeCovers
  <2>2. CASE c = d /\ DeleteSelects(d)
    <3>1. wipe'[d] = [stage |-> "selected", ids |-> {m \in Node : Stored(m)}, gone |-> {}]
      BY <1>2, <2>2 DEF DeleteSelects
    <3>2. QED
      BY <1>3, <2>2, <3>1
  <2>3. CASE c = d /\ DeleteEdges(d)
    <3>1. /\ wipe[d].stage = "selected"
          /\ wipe'[d].ids = wipe[d].ids
          /\ wipe'[d].gone = {e \in edges : {e[1], e[2]} \cap wipe[d].ids # {}}
      BY <1>2, <2>3 DEF DeleteEdges, WipeLocals
    <3>2. wipe[d] # IdleWipe
      BY <3>1 DEF IdleWipe
    <3>3. n \in wipe[d].ids
      BY <1>3, <3>2 DEF EdgesInv, WipeCovers
    <3>4. QED
      BY <2>3, <3>1, <3>3
  <2>4. CASE c = d /\ DeleteFails(d)
    BY <1>2, <1>3, <2>4 DEF DeleteFails
  <2>5. QED
    BY <2>1, <2>2, <2>3, <2>4
<1>4. \A c \in Deleter : WipeCovers(c)'
  BY <1>1, <1>3 DEF WipeCovers, Stored
<1>5. QED
  BY <1>1, <1>4 DEF EdgesInv, NoForeignEdge, EdgesExact, Stored

(* The commit of a deletion: a stored row that is not torn goes with all its *)
(* edges, a missing one has none, and another deletion under way still       *)
(* covers what is left.                                                      *)
LEMMA CommitKeepsEdges ==
  ASSUME TypeInv, EdgesInv, NEW d \in Deleter, DeleteCommits(d)
  PROVE  EdgesInv'
<1>1. /\ wipe[d].stage = "deleting" /\ wipe[d] # IdleWipe
      /\ \A n \in Node : rows'[n] = IF n \in wipe[d].ids THEN NoRow ELSE rows[n]
      /\ edges' = edges \ wipe[d].gone
      /\ torn' = torn
  BY DEF DeleteCommits, IdleWipe
<1>2. \A c \in Deleter : wipe'[c] # IdleWipe => wipe'[c] = wipe[c]
  BY DEF DeleteCommits, TypeInv, TypeOK
<1>3. \A n \in Node : NoForeignEdge(n)'
  BY <1>1 DEF EdgesInv, NoForeignEdge, Stored
<1>4. ASSUME NEW n \in Node \ torn PROVE EdgesExact(n)'
  <2>1. CASE Stored(n)
    <3>1. n \in wipe[d].ids /\ {e \in edges : e[1] = n} \subseteq wipe[d].gone
      BY <1>1, <1>4, <2>1 DEF EdgesInv, WipeCovers
    <3>2. rows'[n] = NoRow /\ {e \in edges' : e[1] = n} = {}
      BY <1>1, <3>1
    <3>3. QED
      BY <3>2 DEF EdgesExact, Stored
  <2>2. CASE ~Stored(n)
    <3>1. {e \in edges : e[1] = n} = {}
      BY <1>4, <2>2 DEF EdgesInv, EdgesExact
    <3>2. rows'[n] = NoRow /\ {e \in edges' : e[1] = n} = {}
      BY <1>1, <2>2, <3>1 DEF Stored
    <3>3. QED
      BY <3>2 DEF EdgesExact, Stored
  <2>3. QED
    BY <2>1, <2>2
<1>5. \A c \in Deleter : WipeCovers(c)'
  BY <1>1, <1>2 DEF EdgesInv, WipeCovers, Stored
<1>6. QED
  BY <1>1, <1>3, <1>4, <1>5 DEF EdgesInv

(* memory_edges is exactly what the stored rows' child lists say, with any    *)
(* number of builds, audits, refreshes and deletions interleaved and any of  *)
(* them stopping half way; only a node that was written while a deletion was *)
(* under way, and not since, can miss edges or leave some behind, and what a *)
(* stored row has are its own children even then.                            *)
THEOREM EdgesAlwaysMatchRows == Spec => []EdgesMatchRows
<1> DEFINE IInv == TypeInv /\ EdgesInv
<1>1. Init => IInv
  <2>1. Init => EdgesInv
    BY DEF Init, EdgesInv, NoForeignEdge, EdgesExact, WipeCovers, Stored
  <2>2. QED
    BY <2>1, InitTyped
<1>2. IInv /\ [Next]_vars => IInv'
  <2>1. ASSUME IInv, [Next]_vars PROVE EdgesInv'
    <3>1. ASSUME UNCHANGED <<rows, edges, torn, wipe>> PROVE EdgesInv'
      BY <2>1, <3>1 DEF EdgesInv, NoForeignEdge, EdgesExact, WipeCovers, Stored
    <3>2. ASSUME NEW d \in Deleter, DeleteAgentData(d) PROVE EdgesInv'
      BY <2>1, <3>2, DeletionKeepsEdges, CommitKeepsEdges DEF DeleteAgentData
    <3>3. QED
      BY <2>1, <3>1, <3>2, TableSteps, UpsertKeepsEdges, MissedRowKeepsEdges,
         MarkStaleKeepsEdges
  <2>2. QED
    BY <2>1, NextTyped
<1>3. IInv => EdgesMatchRows
  BY EdgesInvImplies
<1>4. QED
  BY <1>1, <1>2, <1>3, PTL DEF Spec

-----------------------------------------------------------------------------
(* Only SaveSummary and verify_job write the row of a summary.  (Rows of     *)
(* leaves are written by write_l0 and the backfill.)                         *)
LEMMA UpsertOther ==
  ASSUME NEW n, NEW row, Upsert(n, row), rows \in [Node -> Row \cup {NoRow}],
         NEW s \in Node, s # n
  PROVE  rows'[s] = rows[s]
BY DEF Upsert

LEMMA UpsertSame ==
  ASSUME NEW n \in Node, NEW row \in Row, Upsert(n, row), rows \in [Node -> Row \cup {NoRow}]
  PROVE  rows'[n] = row /\ row # NoRow
BY NodesAssumption DEF Upsert

LEMMA MarkStaleKeeps ==
  ASSUME rows \in [Node -> Row \cup {NoRow}], NEW ids, MarkStale(ids), NEW n \in Node
  PROVE  /\ Stored(n)' <=> Stored(n)
         /\ Stored(n) => /\ rows'[n].children = rows[n].children
                         /\ rows'[n].version = rows[n].version
                         /\ rows[n].stale => rows'[n].stale
<1>1. CASE Stored(n)
  <2>1. [rows[n] EXCEPT !.stale = TRUE] \in Row
    BY <1>1 DEF Stored, Row
  <2>2. [rows[n] EXCEPT !.stale = TRUE] # NoRow
    BY <2>1, NodesAssumption
  <2>3. rows'[n] = rows[n] \/ rows'[n] = [rows[n] EXCEPT !.stale = TRUE]
    BY DEF MarkStale
  <2>4. rows[n] \in Row
    BY <1>1 DEF Stored
  <2>5. QED
    BY <1>1, <2>2, <2>3, <2>4 DEF Stored, Row
<1>2. CASE ~Stored(n)
  BY <1>2 DEF MarkStale, Stored
<1>3. QED
  BY <1>1, <1>2

(* A step of one build that draws no id, starts no draft and writes no row. *)
LEMMA CallStepOwned ==
  ASSUME TypeInv, DraftsOwned, NEW b \in Builder, NEW call,
         build' = [build EXCEPT ![b] = call], UNCHANGED <<rows, used, audit>>,
         call.id \in {build[b].id, NoNode},
         call.stage \in {"verifying", "saving"} => Drafting(b) /\ call.id = build[b].id
  PROVE  DraftsOwned'
<1>1. \A d \in Builder : build'[d] = IF d = b THEN call ELSE build[d]
  BY DEF TypeInv, TypeOK
<1>2. QED
  BY <1>1 DEF DraftsOwned, Drafting, Stored

LEMMA BuildStepOwned ==
  ASSUME TypeInv, DraftsOwned, NEW b \in Builder,
         BuildLevel(b) \/ BuildStep(b) \/ BuildFails(b)
  PROVE  DraftsOwned'
<1> DEFINE old == build[b]
<1>0. old \in BuildLocals /\ BuildOK(old)
  BY CallLocals
<1>1. CASE BuildLevel(b)
  <2> DEFINE worth == {c \in Clusters[{l \in Leaf : Live(l)}] : ShouldSummarize(c)}
             call == NewCall("clusters", [l \in Leaf |-> rows[l]], worth)
  <2>1. build' = [build EXCEPT ![b] = call] /\ UNCHANGED <<rows, used, audit>>
    BY <1>1 DEF BuildLevel, store
  <2>2. call.id = NoNode /\ call.stage = "clusters"
    BY DEF NewCall
  <2> HIDE DEF call
  <2>3. QED
    BY <2>1, <2>2, CallStepOwned
<1>2. CASE ReuseSummary(b)
  <2>1. PICK c \in old.todo, s \in Summary :
          build' = [build EXCEPT ![b].todo = @ \ {c}, ![b].built = @ \cup {s}]
    BY <1>2 DEF ReuseSummary, ExistingSummary
  <2> DEFINE call == [old EXCEPT !.todo = @ \ {c}, !.built = @ \cup {s}]
  <2>2. build' = [build EXCEPT ![b] = call]
    BY <2>1 DEF TypeInv, TypeOK
  <2>3. call.id = old.id /\ call.stage = "clusters"
    BY <1>0, <1>2 DEF BuildLocals, ReuseSummary
  <2>4. UNCHANGED <<rows, used, audit>>
    BY <1>2 DEF ReuseSummary, store
  <2> HIDE DEF call
  <2>5. QED
    BY <2>2, <2>3, <2>4, CallStepOwned
<1>3. CASE StartSummary(b)
  <2>1. PICK c \in old.todo :
          build' = [build EXCEPT ![b].stage = "generating", ![b].cluster = c]
    BY <1>3 DEF StartSummary
  <2> DEFINE call == [old EXCEPT !.stage = "generating", !.cluster = c]
  <2>2. build' = [build EXCEPT ![b] = call]
    BY <2>1 DEF TypeInv, TypeOK
  <2>3. call.id = old.id /\ call.stage = "generating"
    BY <1>0 DEF BuildLocals
  <2>4. UNCHANGED <<rows, used, audit>>
    BY <1>3 DEF StartSummary, store
  <2> HIDE DEF call
  <2>5. QED
    BY <2>2, <2>3, <2>4, CallStepOwned
<1>4. CASE GenerateReturns(b)
  <2>1. PICK s \in Summary \ used : /\ used' = used \cup {s} /\ build'[b].id = s
                                     /\ \A d \in Builder : d # b => build'[d] = build[d]
    BY <1>0, <1>4 DEF GenerateReturns, TypeInv, TypeOK, BuildLocals
  <2>2. UNCHANGED <<rows, audit>> /\ s # NoNode
    BY <1>4, NodesAssumption DEF GenerateReturns, Node
  <2>3. \A d \in Builder : d # b => build[d].id # s
    BY <2>1, <2>2 DEF DraftsOwned
  <2>4. ~Stored(s) /\ \A v \in Verifier : audit[v] # IdleAudit => audit[v].id # s
    BY <2>1 DEF DraftsOwned
  <2>5. QED
    BY <2>1, <2>2, <2>3, <2>4 DEF DraftsOwned, Drafting, Stored
<1>5. CASE VerifyReturns(b)
  <2>1. PICK q \in Verdict :
          build' = [build EXCEPT
            ![b] = IF Dropped(q)
                   THEN [NextCluster(old) EXCEPT !.rejected = old.rejected \cup {old.cluster}]
                   ELSE [@ EXCEPT !.stage = "saving", !.row.quality = q]]
    BY <1>5 DEF VerifyReturns
  <2> DEFINE call == IF Dropped(q)
                     THEN [NextCluster(old) EXCEPT !.rejected = old.rejected \cup {old.cluster}]
                     ELSE [old EXCEPT !.stage = "saving", !.row.quality = q]
  <2>2. build' = [build EXCEPT ![b] = call]
    BY <2>1 DEF TypeInv, TypeOK
  <2>3. \/ call.id = NoNode /\ call.stage = "clusters"
        \/ call.id = old.id /\ call.stage = "saving"
    BY <1>0 DEF BuildLocals, NextCluster
  <2>4. Drafting(b) /\ UNCHANGED <<rows, used, audit>>
    BY <1>5 DEF VerifyReturns, Drafting
  <2> HIDE DEF call
  <2>5. QED
    BY <2>2, <2>3, <2>4, CallStepOwned
<1>6. CASE SaveSummary(b)
  <2>1. /\ Drafting(b) /\ Upsert(old.id, old.row) /\ UNCHANGED <<used, audit>>
        /\ old.id \in Summary /\ old.row \in Row
    BY <1>0, <1>6 DEF SaveSummary, BuildOK, Drafting
  <2>2. /\ build'[b].id = old.id /\ build'[b].stage = "linking"
        /\ \A d \in Builder : d # b => build'[d] = build[d]
    BY <1>0, <1>6 DEF SaveSummary, TypeInv, TypeOK, BuildLocals
  <2>3. \A s \in Summary : s # old.id => rows'[s] = rows[s]
    BY <2>1, UpsertOther DEF TypeInv, TypeOK, Node
  <2>4. old.id # NoNode
    BY <2>1, NodesAssumption DEF Node
  <2>5. \A d \in Builder : d # b /\ Drafting(d) => build[d].id \in Summary /\ build[d].id # old.id
    BY <2>4, CallLocals DEF Drafting, BuildOK, DraftsOwned
  <2>6. QED
    BY <2>1, <2>2, <2>3, <2>4, <2>5 DEF DraftsOwned, Drafting, Stored
<1>7. CASE LinkChild(b)
  <2>1. PICK l \in old.pending :
          /\ Upsert(l, Backfilled(b, l))
          /\ build' = [build EXCEPT ![b].copy[l] = Backfilled(b, l), ![b].pending = @ \ {l}]
    BY <1>7 DEF LinkChild
  <2>2. l \in Leaf /\ UNCHANGED <<used, audit>> /\ old.stage = "linking"
    BY <1>7, BackfilledRow DEF LinkChild
  <2>3. /\ build'[b].id = old.id /\ build'[b].stage = "linking"
        /\ \A d \in Builder : d # b => build'[d] = build[d]
    BY <1>0, <2>1, <2>2 DEF TypeInv, TypeOK, BuildLocals
  <2>4. \A s \in Summary : rows'[s] = rows[s]
    BY <2>1, <2>2, UpsertOther, NodesAssumption DEF TypeInv, TypeOK, Node
  <2>5. \A d \in Builder : Drafting(d) => build[d].id \in Summary
    BY CallLocals DEF Drafting, BuildOK
  <2>6. QED
    BY <2>2, <2>3, <2>4, <2>5 DEF DraftsOwned, Drafting, Stored
<1>8. CASE ClusterBuilt(b)
  <2> DEFINE call == [NextCluster(old) EXCEPT !.built = old.built \cup {old.id}]
  <2>1. build' = [build EXCEPT ![b] = call] /\ UNCHANGED <<rows, used, audit>>
    BY <1>8 DEF ClusterBuilt, store
  <2>2. call.id = NoNode /\ call.stage = "clusters"
    BY <1>0 DEF BuildLocals, NextCluster
  <2> HIDE DEF call
  <2>3. QED
    BY <2>1, <2>2, CallStepOwned
<1>9. CASE BuildReturns(b) \/ BuildFails(b)
  <2>1. build' = [build EXCEPT ![b] = IdleBuild] /\ UNCHANGED <<rows, used, audit>>
    BY <1>9 DEF BuildReturns, BuildFails, ModelError, Crash, store
  <2>2. IdleBuild.id = NoNode /\ IdleBuild.stage = "idle"
    BY DEF IdleBuild, NewCall
  <2>3. QED
    BY <2>1, <2>2, CallStepOwned
<1>10. QED
  BY <1>1, <1>2, <1>3, <1>4, <1>5, <1>6, <1>7, <1>8, <1>9 DEF BuildStep

LEMMA NextOwned ==
  ASSUME TypeInv, DraftsOwned, [Next]_vars PROVE DraftsOwned'
<1>1. ASSUME NEW l \in Leaf, WriteL0(l) PROVE DraftsOwned'
  <2>1. PICK row : Upsert(l, row)
    BY <1>1 DEF WriteL0
  <2>2. \A s \in Summary : rows'[s] = rows[s]
    BY <2>1, UpsertOther, NodesAssumption DEF TypeInv, TypeOK, Node
  <2>3. used \subseteq used' /\ UNCHANGED <<build, audit>>
    BY <1>1 DEF WriteL0
  <2>4. \A d \in Builder : Drafting(d) => build[d].id \in Summary
    BY CallLocals DEF Drafting, BuildOK
  <2>5. QED
    BY <2>2, <2>3, <2>4 DEF DraftsOwned, Drafting, Stored
<1>2. ASSUME NEW b \in Builder, BuildLevel(b) \/ BuildStep(b) \/ BuildFails(b)
      PROVE  DraftsOwned'
  BY <1>2, BuildStepOwned
<1>3. ASSUME NEW v \in Verifier, VerifyJobReads(v) PROVE DraftsOwned'
  <2>1. PICK s \in Summary : /\ Stored(s) /\ UNCHANGED <<rows, used, build>>
                             /\ audit' = [audit EXCEPT ![v] = [id |-> s, row |-> rows[s]]]
    BY <1>3 DEF VerifyJobReads, store
  <2>2. \A w \in Verifier : audit'[w] = audit[w] \/ audit'[w].id = s
    BY <2>1 DEF TypeInv, TypeOK
  <2>3. QED
    BY <2>1, <2>2 DEF DraftsOwned, Drafting, Stored
<1>4. ASSUME NEW v \in Verifier, VerifyJobWrites(v) PROVE DraftsOwned'
  <2>1. PICK q \in Verdict : Upsert(audit[v].id, Audited(audit[v].row, q))
    BY <1>4 DEF VerifyJobWrites
  <2>2. /\ audit[v] # IdleAudit /\ UNCHANGED <<used, build>>
        /\ audit' = [audit EXCEPT ![v] = IdleAudit]
    BY <1>4 DEF VerifyJobWrites
  <2>3. \A s \in Summary : s # audit[v].id => rows'[s] = rows[s]
    BY <2>1, UpsertOther DEF TypeInv, TypeOK, Node
  <2>4. \A w \in Verifier : audit'[w] # IdleAudit => audit'[w] = audit[w]
    BY <2>2 DEF TypeInv, TypeOK
  <2>5. \A d \in Builder : Drafting(d) => build[d].id \in Summary
    BY CallLocals DEF Drafting, BuildOK
  <2>6. QED
    BY <2>2, <2>3, <2>4, <2>5 DEF DraftsOwned, Drafting, Stored
<1>5. ASSUME NEW v \in Verifier, VerifyJobMissesRow(v) \/ VerifyJobFails(v) PROVE DraftsOwned'
  <2>1. UNCHANGED <<rows, used, build>> /\ audit' = [audit EXCEPT ![v] = IdleAudit]
    BY <1>5 DEF VerifyJobMissesRow, UpsertMissesRow, VerifyJobFails, store
  <2>2. \A w \in Verifier : audit'[w] # IdleAudit => audit'[w] = audit[w]
    BY <2>1 DEF TypeInv, TypeOK
  <2>3. QED
    BY <2>1, <2>2 DEF DraftsOwned, Drafting, Stored
<1>6. ASSUME NEW r \in Refresher, Refresh(r) PROVE DraftsOwned'
  <2>1. UNCHANGED <<used, build, audit>>
    BY <1>6, RefreshSteps
  <2>2. \A s \in Summary : rows'[s] # NoRow <=> rows[s] # NoRow
    BY <1>6, RefreshSteps, MarkStaleKeeps DEF TypeInv, TypeOK, Node, Stored
  <2>3. \A d \in Builder : Drafting(d) => build[d].id \in Summary
    BY CallLocals DEF Drafting, BuildOK
  <2>4. QED
    BY <2>1, <2>2, <2>3 DEF DraftsOwned, Drafting, Stored
<1>7. ASSUME NEW e \in Deleter, DeleteAgentData(e) PROVE DraftsOwned'
  <2>1. UNCHANGED <<used, build, audit>> /\ \A n \in Node : rows'[n] \in {NoRow, rows[n]}
    BY <1>7, DeleteSteps
  <2>2. \A d \in Builder : Drafting(d) => build[d].id \in Summary
    BY CallLocals DEF Drafting, BuildOK
  <2>3. QED
    BY <2>1, <2>2 DEF DraftsOwned, Drafting, Stored, Node
<1>8. ASSUME UNCHANGED vars PROVE DraftsOwned'
  BY <1>8 DEF vars, DraftsOwned, Drafting, Stored
<1>9. QED
  BY <1>1, <1>2, <1>3, <1>4, <1>5, <1>6, <1>7, <1>8 DEF Next, VerifyJob

LEMMA InitOwned == Init => DraftsOwned
BY DEF Init, DraftsOwned, Drafting, Stored, IdleBuild, NewCall, IdleAudit, Node

-----------------------------------------------------------------------------
(* What a step can do to a summary's row: leave it, flag it, delete it, save  *)
(* it for the first time, or write an audited copy of it back.               *)
Flagged(s) ==
  /\ rows'[s] # NoRow
  /\ SameIdentity(rows'[s], rows[s])
  /\ rows[s].stale => rows'[s].stale

WrittenBack(s) ==
  \E v \in Verifier, q \in Verdict :
    audit[v] # IdleAudit /\ audit[v].id = s /\ rows'[s] = Audited(audit[v].row, q)

LEMMA SummaryRowSteps ==
  ASSUME TypeInv, DraftsOwned, [Next]_vars, NEW s \in Summary, Stored(s)
  PROVE  rows'[s] = NoRow \/ Flagged(s) \/ WrittenBack(s)
<1> DEFINE Goal == rows'[s] = NoRow \/ Flagged(s) \/ WrittenBack(s)
<1>0. s \in Node /\ s \notin Leaf /\ rows[s] # NoRow
  BY NodesAssumption DEF Node, Stored
<1>1. ASSUME rows'[s] = rows[s] PROVE Goal
  BY <1>0, <1>1 DEF Flagged, SameIdentity
<1>2. ASSUME NEW l \in Leaf, WriteL0(l) PROVE Goal
  <2>1. PICK row : Upsert(l, row)
    BY <1>2 DEF WriteL0
  <2>2. QED
    BY <1>0, <1>1, <2>1, UpsertOther DEF TypeInv, TypeOK
<1>3. ASSUME NEW b \in Builder, BuildLevel(b) \/ BuildStep(b) \/ BuildFails(b) PROVE Goal
  <2>1. CASE SaveSummary(b)
    <3>1. s # build[b].id /\ Upsert(build[b].id, build[b].row)
      BY <2>1 DEF SaveSummary, DraftsOwned, Drafting
    <3>2. QED
      BY <1>0, <1>1, <3>1, UpsertOther DEF TypeInv, TypeOK
  <2>2. CASE LinkChild(b)
    <3>1. PICK l \in build[b].pending : Upsert(l, Backfilled(b, l))
      BY <2>2 DEF LinkChild
    <3>2. l \in Leaf
      BY BackfilledRow
    <3>3. QED
      BY <1>0, <1>1, <3>1, <3>2, UpsertOther DEF TypeInv, TypeOK
  <2>3. CASE ~SaveSummary(b) /\ ~LinkChild(b)
    BY <1>1, <1>3, <2>3 DEF BuildLevel, BuildStep, BuildFails, ReuseSummary, StartSummary,
       GenerateReturns, VerifyReturns, ClusterBuilt, BuildReturns, ModelError, Crash, store
  <2>4. QED
    BY <2>1, <2>2, <2>3
<1>4. ASSUME NEW v \in Verifier, VerifyJob(v) PROVE Goal
  <2>1. CASE VerifyJobWrites(v)
    <3>1. PICK q \in Verdict : Upsert(audit[v].id, Audited(audit[v].row, q))
      BY <2>1 DEF VerifyJobWrites
    <3>2. CASE audit[v].id = s
      <4>1. rows'[s] = Audited(audit[v].row, q) /\ audit[v] # IdleAudit
        BY <1>0, <2>1, <3>1, <3>2, AuditedRow, UpsertSame DEF VerifyJobWrites, TypeInv, TypeOK
      <4>2. QED
        BY <3>2, <4>1 DEF WrittenBack
    <3>3. CASE audit[v].id # s
      BY <1>0, <1>1, <3>1, <3>3, UpsertOther DEF TypeInv, TypeOK
    <3>4. QED
      BY <3>2, <3>3
  <2>2. CASE ~VerifyJobWrites(v)
    BY <1>1, <1>4, <2>2, VerifyJobRows
  <2>3. QED
    BY <2>1, <2>2
<1>5. ASSUME NEW r \in Refresher, Refresh(r) PROVE Goal
  <2>1. CASE MarkStale(marks[r])
    BY <1>0, <2>1, MarkStaleKeeps DEF TypeInv, TypeOK, Stored, Flagged, SameIdentity
  <2>2. QED
    BY <1>1, <1>5, <2>1, RefreshSteps
<1>6. ASSUME NEW d \in Deleter, DeleteAgentData(d) PROVE Goal
  BY <1>0, <1>1, <1>6, DeleteSteps
<1>7. QED
  BY <1>1, <1>2, <1>3, <1>4, <1>5, <1>6 DEF Next, vars

(* When no verify_job runs, a summary that was marked stale stays stale until *)
(* it is deleted, whatever builds, refreshes and deletions overlap.  (With a *)
(* verify_job it does not: run tree_verify_after_refresh.)                   *)
THEOREM StaleStaysStale ==
  ASSUME Verifier = {} PROVE Spec => StaleSticks
<1> DEFINE IInv == TypeInv /\ DraftsOwned
           Step == \A s \in Summary : Stored(s) /\ rows[s].stale /\ Stored(s)' => rows'[s].stale
<1>1. Init => IInv
  BY InitTyped, InitOwned
<1>2. IInv /\ [Next]_vars => IInv'
  BY NextTyped, NextOwned
<1>3. IInv /\ [Next]_vars => [Step]_vars
  <2> SUFFICES ASSUME IInv, [Next]_vars, NEW s \in Summary,
                      Stored(s), rows[s].stale, Stored(s)'
               PROVE  rows'[s].stale
    OBVIOUS
  <2>1. rows'[s] = NoRow \/ Flagged(s) \/ WrittenBack(s)
    BY SummaryRowSteps
  <2>2. ~WrittenBack(s)
    BY DEF WrittenBack
  <2>3. QED
    BY <2>1, <2>2 DEF Flagged, Stored
<1>4. QED
  BY <1>1, <1>2, <1>3, PTL DEF Spec, StaleSticks

-----------------------------------------------------------------------------
LEMMA InitAgrees == Init => AuditsAgree
BY DEF Init, AuditsAgree

(* A row that comes into being is a draft, which no verify_job has seen, or a *)
(* deleted row that a verify_job writes back.                                *)
LEMMA NewSummaryRow ==
  ASSUME TypeInv, DraftsOwned, [Next]_vars, NEW s \in Summary, ~Stored(s), Stored(s)'
  PROVE  WrittenBack(s) \/ \A v \in Verifier : audit[v] # IdleAudit => audit[v].id # s
<1> DEFINE Unseen == \A v \in Verifier : audit[v] # IdleAudit => audit[v].id # s
<1>0. s \in Node /\ s \notin Leaf /\ rows[s] = NoRow /\ rows'[s] # NoRow
  BY NodesAssumption DEF Node, Stored
<1>1. ASSUME NEW l \in Leaf, WriteL0(l) PROVE FALSE
  <2>1. PICK row : Upsert(l, row)
    BY <1>1 DEF WriteL0
  <2>2. QED
    BY <1>0, <2>1, UpsertOther DEF TypeInv, TypeOK
<1>2. ASSUME NEW b \in Builder, BuildLevel(b) \/ BuildStep(b) \/ BuildFails(b) PROVE Unseen
  <2>1. CASE SaveSummary(b)
    <3>1. Drafting(b) /\ Upsert(build[b].id, build[b].row)
      BY <2>1 DEF SaveSummary, Drafting
    <3>2. build[b].id = s
      BY <1>0, <3>1, UpsertOther DEF TypeInv, TypeOK
    <3>3. QED
      BY <3>1, <3>2 DEF DraftsOwned
  <2>2. CASE LinkChild(b)
    <3>1. PICK l \in build[b].pending : Upsert(l, Backfilled(b, l))
      BY <2>2 DEF LinkChild
    <3>2. l \in Leaf
      BY BackfilledRow
    <3>3. QED
      BY <1>0, <3>1, <3>2, UpsertOther DEF TypeInv, TypeOK
  <2>3. CASE ~SaveSummary(b) /\ ~LinkChild(b)
    BY <1>0, <1>2, <2>3 DEF BuildLevel, BuildStep, BuildFails, ReuseSummary, StartSummary,
       GenerateReturns, VerifyReturns, ClusterBuilt, BuildReturns, ModelError, Crash, store
  <2>4. QED
    BY <2>1, <2>2, <2>3
<1>3. ASSUME NEW v \in Verifier, VerifyJob(v) PROVE WrittenBack(s)
  <2>1. CASE VerifyJobWrites(v)
    <3>1. PICK q \in Verdict : Upsert(audit[v].id, Audited(audit[v].row, q))
      BY <2>1 DEF VerifyJobWrites
    <3>2. audit[v].id = s
      BY <1>0, <3>1, UpsertOther DEF TypeInv, TypeOK
    <3>3. rows'[s] = Audited(audit[v].row, q) /\ audit[v] # IdleAudit
      BY <1>0, <2>1, <3>1, <3>2, AuditedRow, UpsertSame DEF VerifyJobWrites, TypeInv, TypeOK
    <3>4. QED
      BY <3>2, <3>3 DEF WrittenBack
  <2>2. CASE ~VerifyJobWrites(v)
    BY <1>0, <1>3, <2>2, VerifyJobRows
  <2>3. QED
    BY <2>1, <2>2
<1>4. ASSUME NEW r \in Refresher, Refresh(r) PROVE FALSE
  BY <1>0, <1>4, RefreshSteps, MarkStaleKeeps DEF TypeInv, TypeOK, Stored
<1>5. ASSUME NEW d \in Deleter, DeleteAgentData(d) PROVE FALSE
  BY <1>0, <1>5, DeleteSteps
<1>6. QED
  BY <1>0, <1>1, <1>2, <1>3, <1>4, <1>5 DEF Next, vars

LEMMA IdentityKept ==
  ASSUME TypeInv, DraftsOwned, AuditsAgree, [Next]_vars,
         NEW s \in Summary, Stored(s), Stored(s)'
  PROVE  SameIdentity(rows'[s], rows[s])
<1>1. CASE Flagged(s)
  BY <1>1 DEF Flagged
<1>2. CASE WrittenBack(s)
  <2>1. PICK v \in Verifier, q \in Verdict :
          audit[v] # IdleAudit /\ audit[v].id = s /\ rows'[s] = Audited(audit[v].row, q)
    BY <1>2 DEF WrittenBack
  <2>2. SameIdentity(audit[v].row, rows[s]) /\ audit[v].row \in Row
    BY <2>1, AuditedRow DEF AuditsAgree
  <2>3. QED
    BY <2>1, <2>2 DEF SameIdentity, Audited, Row
<1>3. QED
  BY <1>1, <1>2, SummaryRowSteps DEF Stored

(* A verify_job that was under way still agrees with the store after a step. *)
LEMMA AuditStaysRight ==
  ASSUME TypeInv, DraftsOwned, AuditsAgree, [Next]_vars,
         NEW v \in Verifier, audit[v] # IdleAudit,
         NEW s \in Summary, audit[v].id = s, Stored(s)'
  PROVE  SameIdentity(audit[v].row, rows'[s])
<1>2. CASE Stored(s)
  BY <1>2, IdentityKept DEF AuditsAgree, SameIdentity
<1>3. CASE ~Stored(s)
  <2>1. WrittenBack(s)
    BY <1>3, NewSummaryRow
  <2>2. PICK w \in Verifier, q \in Verdict :
          audit[w] # IdleAudit /\ audit[w].id = s /\ rows'[s] = Audited(audit[w].row, q)
    BY <2>1 DEF WrittenBack
  <2>3. SameIdentity(audit[v].row, audit[w].row) /\ audit[w].row \in Row
    BY <2>2, AuditedRow DEF AuditsAgree
  <2>4. QED
    BY <2>2, <2>3 DEF SameIdentity, Audited, Row
<1>4. QED
  BY <1>2, <1>3

(* Only a verify_job touches the row it read. *)
LEMMA AuditsLeftAlone ==
  ASSUME [Next]_vars, \A v \in Verifier : ~VerifyJob(v)
  PROVE  UNCHANGED audit
<1>1. ASSUME NEW l \in Leaf, WriteL0(l) PROVE UNCHANGED audit
  BY <1>1 DEF WriteL0
<1>2. ASSUME NEW b \in Builder, BuildLevel(b) PROVE UNCHANGED audit
  BY <1>2 DEF BuildLevel
<1>3. ASSUME NEW b \in Builder, BuildStep(b) PROVE UNCHANGED audit
  <2>1. CASE ReuseSummary(b) \/ StartSummary(b) \/ GenerateReturns(b) \/ VerifyReturns(b)
    BY <2>1 DEF ReuseSummary, StartSummary, GenerateReturns, VerifyReturns
  <2>2. CASE SaveSummary(b) \/ LinkChild(b) \/ ClusterBuilt(b) \/ BuildReturns(b)
    BY <2>2 DEF SaveSummary, LinkChild, ClusterBuilt, BuildReturns
  <2> QED
    BY <1>3, <2>1, <2>2 DEF BuildStep
<1>4. ASSUME NEW b \in Builder, BuildFails(b) PROVE UNCHANGED audit
  BY <1>4 DEF BuildFails, ModelError, Crash
<1>5. ASSUME NEW r \in Refresher, Refresh(r) PROVE UNCHANGED audit
  BY <1>5, RefreshSteps
<1>6. ASSUME NEW d \in Deleter, DeleteAgentData(d) PROVE UNCHANGED audit
  BY <1>6 DEF DeleteAgentData, DeleteSelects, DeleteEdges, DeleteCommits, DeleteFails
<1>7. CASE UNCHANGED vars
  BY <1>7 DEF vars
<1> QED
  BY <1>1, <1>2, <1>3, <1>4, <1>5, <1>6, <1>7 DEF Next

LEMMA NextAgrees ==
  ASSUME TypeInv, DraftsOwned, AuditsAgree, [Next]_vars PROVE AuditsAgree'
<1>1. ASSUME NEW v \in Verifier, VerifyJobReads(v) PROVE AuditsAgree'
  <2>1. PICK s \in Summary : /\ Stored(s) /\ UNCHANGED rows
                             /\ audit' = [audit EXCEPT ![v] = [id |-> s, row |-> rows[s]]]
    BY <1>1 DEF VerifyJobReads, store
  <2>2. audit'[v] = [id |-> s, row |-> rows[s]] /\ \A w \in Verifier : w # v => audit'[w] = audit[w]
    BY <2>1 DEF TypeInv, TypeOK
  <2>3. \A w \in Verifier : audit'[w] # IdleAudit /\ Stored(audit'[w].id) =>
          SameIdentity(audit'[w].row, rows[audit'[w].id])
    BY <2>2 DEF AuditsAgree, SameIdentity
  <2>4. \A w \in Verifier : audit'[w] # IdleAudit /\ audit'[w].id = s =>
          SameIdentity(audit'[w].row, rows[s])
    BY <2>1, <2>3
  <2>5. QED
    BY <2>1, <2>2, <2>3, <2>4 DEF AuditsAgree, SameIdentity, Stored
<1>2. ASSUME \A v \in Verifier : audit'[v] # IdleAudit => audit'[v] = audit[v]
      PROVE  AuditsAgree'
  <2>1. ASSUME NEW v \in Verifier, audit'[v] # IdleAudit, rows'[audit'[v].id] # NoRow
        PROVE  SameIdentity(audit'[v].row, rows'[audit'[v].id])
    <3>1. PICK s \in Summary : audit[v].id = s
      BY <1>2, <2>1 DEF TypeInv, LocalsOK, AuditOK
    <3>2. SameIdentity(audit[v].row, rows'[s])
      BY <1>2, <2>1, <3>1, AuditStaysRight DEF Stored
    <3>3. QED
      BY <1>2, <2>1, <3>1, <3>2
  <2>2. QED
    BY <1>2, <2>1 DEF AuditsAgree, SameIdentity, Stored
<1>3. ASSUME NEW v \in Verifier, VerifyJobWrites(v) \/ VerifyJobMissesRow(v) \/ VerifyJobFails(v)
      PROVE  \A w \in Verifier : audit'[w] # IdleAudit => audit'[w] = audit[w]
  BY <1>3 DEF VerifyJobWrites, VerifyJobMissesRow, VerifyJobFails, TypeInv, TypeOK
<1>4. ASSUME audit' = audit PROVE AuditsAgree'
  BY <1>2, <1>4
<1>5. QED
  <2>1. CASE \E v \in Verifier : VerifyJob(v)
    BY <1>1, <1>2, <1>3, <2>1 DEF VerifyJob
  <2>2. CASE \A v \in Verifier : ~VerifyJob(v)
    BY <1>4, <2>2, AuditsLeftAlone
  <2> QED
    BY <2>1, <2>2

(* The leaves a summary covers and its version never change while it is      *)
(* stored, although verify_job writes whole rows back: what it wrote was read *)
(* after the summary was saved, even across deletions.                       *)
THEOREM IdentityNeverChanges == Spec => IdentityFixed
<1> DEFINE IInv == TypeInv /\ DraftsOwned /\ AuditsAgree
           Step == \A s \in Summary : Stored(s) /\ Stored(s)' =>
                     /\ rows'[s].children = rows[s].children
                     /\ rows'[s].version = rows[s].version
<1>1. Init => IInv
  BY InitTyped, InitOwned, InitAgrees
<1>2. IInv /\ [Next]_vars => IInv'
  BY NextTyped, NextOwned, NextAgrees
<1>3. IInv /\ [Next]_vars => [Step]_vars
  BY IdentityKept DEF SameIdentity
<1>4. QED
  BY <1>1, <1>2, <1>3, PTL DEF Spec, IdentityFixed

-----------------------------------------------------------------------------
(* A deleted row only comes back through a build or a verify_job that was     *)
(* under way: with all of them idle, no step stores a row under an old id.   *)
THEOREM OnlyWritersBringBack == Spec => OnlyWritersResurrect
<1> DEFINE Quiet == /\ \A b \in Builder : build[b].stage = "idle"
                    /\ \A v \in Verifier : audit[v] = IdleAudit
           Step == Quiet => \A n \in used : ~Stored(n) => ~Stored(n)'
<1>1. Init => TypeInv
  BY InitTyped
<1>2. TypeInv /\ [Next]_vars => TypeInv'
  BY NextTyped
<1>3. TypeInv /\ [Next]_vars => [Step]_vars
  <2> SUFFICES ASSUME TypeInv, Next, Quiet, NEW n \in used, ~Stored(n) PROVE ~Stored(n)'
    OBVIOUS
  <2>0. n \in Node /\ rows[n] = NoRow
    BY DEF TypeInv, TypeOK, Stored
  <2>1. ASSUME NEW l \in Leaf, WriteL0(l) PROVE rows'[n] = NoRow
    BY <2>0, <2>1 DEF WriteL0, Upsert, TypeInv, TypeOK
  <2>2. ASSUME NEW b \in Builder, BuildLevel(b) \/ BuildStep(b) \/ BuildFails(b)
        PROVE  rows'[n] = NoRow
    BY <2>0, <2>2 DEF BuildLevel, BuildStep, BuildFails, ReuseSummary, StartSummary,
       GenerateReturns, VerifyReturns, SaveSummary, LinkChild, ClusterBuilt, BuildReturns,
       ModelError, Crash, store
  <2>3. ASSUME NEW v \in Verifier, VerifyJob(v) PROVE rows'[n] = NoRow
    BY <2>0, <2>3, VerifyJobRows DEF VerifyJobWrites
  <2>4. ASSUME NEW r \in Refresher, Refresh(r) PROVE rows'[n] = NoRow
    BY <2>0, <2>4, RefreshSteps DEF MarkStale, Stored
  <2>5. ASSUME NEW d \in Deleter, DeleteAgentData(d) PROVE rows'[n] = NoRow
    BY <2>0, <2>5, DeleteSteps
  <2>6. QED
    BY <2>1, <2>2, <2>3, <2>4, <2>5 DEF Next, Stored
<1>4. QED
  BY <1>1, <1>2, <1>3, PTL DEF Spec, OnlyWritersResurrect

-----------------------------------------------------------------------------
(* Links, as long as nothing is deleted. *)
Covers(s, l) == Stored(s) /\ l \in rows[s].children

(* What a call knows of the links: the parents in its copies cover the leaf,  *)
(* and from the draft on, the summary it is working on covers its cluster.   *)
CallLinked(call) ==
  /\ \A l \in Leaf : call.copy[l] # NoRow => \A s \in call.copy[l].parents : Covers(s, l)
  /\ call.stage \in {"verifying", "saving"} => call.row.children = call.cluster
  /\ call.stage = "linking" => Stored(call.id) /\ rows[call.id].children = call.cluster

IdentityInv == TypeInv /\ DraftsOwned /\ AuditsAgree

LinksInv == IdentityInv /\ LinksSound /\ \A b \in Builder : CallLinked(build[b])

LEMMA StoredKept ==
  ASSUME Deleter = {}, TypeInv, [Next]_vars, NEW n \in Node, Stored(n) PROVE Stored(n)'
<1>1. ASSUME NEW m \in Node, NEW row \in Row, Upsert(m, row) PROVE rows'[n] # NoRow
  BY <1>1, UpsertOther, UpsertSame DEF TypeInv, TypeOK, Stored
<1>2. ASSUME NEW ids, MarkStale(ids) PROVE rows'[n] # NoRow
  BY <1>2, MarkStaleKeeps DEF TypeInv, TypeOK, Stored
<1>3. CASE UNCHANGED rows
  BY <1>3 DEF Stored
<1>4. ASSUME NEW m \in Node, NEW row \in Row, UpsertMissesRow(m, row) PROVE rows' = rows
  BY <1>4 DEF UpsertMissesRow
<1>5. QED
  BY <1>1, <1>2, <1>3, <1>4, TableSteps DEF Stored

LEMMA CoversKept ==
  ASSUME Deleter = {}, IdentityInv, [Next]_vars, NEW s \in Summary, Stored(s)
  PROVE  Stored(s)' /\ rows'[s].children = rows[s].children
BY StoredKept, IdentityKept DEF IdentityInv, SameIdentity, Node

LEMMA CallLinkedKept ==
  ASSUME Deleter = {}, IdentityInv, [Next]_vars,
         NEW call \in BuildLocals, BuildOK(call), CallLinked(call)
  PROVE  CallLinked(call)'
<1>1. ASSUME NEW l \in Leaf, call.copy[l] # NoRow, NEW s \in call.copy[l].parents
      PROVE  Covers(s, l)'
  <2>1. s \in Summary /\ Covers(s, l)
    BY <1>1 DEF CallLinked, BuildLocals, Row
  <2>2. QED
    BY <2>1, CoversKept DEF Covers
<1>2. ASSUME call.stage = "linking"
      PROVE  Stored(call.id)' /\ rows'[call.id].children = call.cluster
  BY <1>2, CoversKept DEF CallLinked, BuildOK
<1>3. QED
  BY <1>1, <1>2 DEF CallLinked

LEMMA CopyLinked ==
  ASSUME Deleter = {}, IdentityInv, [Next]_vars,
         NEW call \in BuildLocals, BuildOK(call), CallLinked(call),
         NEW next, next.copy = call.copy,
         next.stage \in {"verifying", "saving"} => next.row.children = next.cluster,
         next.stage # "linking"
  PROVE  CallLinked(next)'
BY CallLinkedKept DEF CallLinked

(* One step of a build keeps what it knows of the links. *)
LEMMA BuildStepLinked ==
  ASSUME Deleter = {}, LinksInv, NEW b \in Builder,
         BuildLevel(b) \/ BuildStep(b) \/ BuildFails(b)
  PROVE  CallLinked(build[b])'
<1>0. PICK x \in BuildLocals : x = build[b] /\ BuildOK(x) /\ CallLinked(x)
  BY CallLocals DEF LinksInv, IdentityInv
<1>1. [Next]_vars /\ IdentityInv /\ build \in [Builder -> BuildLocals]
  BY DEF Next, LinksInv, IdentityInv, TypeInv, TypeOK
<1>2. ASSUME NEW y, build'[b] = y, y.copy = x.copy, y.stage # "linking",
             y.stage \in {"verifying", "saving"} => y.row.children = y.cluster
      PROVE  CallLinked(build[b])'
  <2>1. CallLinked(y)'
    BY <1>0, <1>1, <1>2, CopyLinked
  <2>2. QED
    BY <1>2, <2>1 DEF CallLinked
<1>3. CASE BuildLevel(b)
  <2>1. /\ build'[b].copy = [l \in Leaf |-> rows[l]] /\ build'[b].stage = "clusters"
        /\ UNCHANGED rows
    BY <1>1, <1>3 DEF BuildLevel, NewCall, store
  <2>2. \A l \in Leaf : rows[l] # NoRow => \A s \in rows[l].parents : Covers(s, l)
    BY DEF LinksInv, LinksSound, Covers, Stored
  <2>3. QED
    BY <2>1, <2>2 DEF CallLinked, Covers, Stored
<1>4. CASE ReuseSummary(b)
  <2>1. build'[b].copy = x.copy /\ build'[b].stage = "clusters"
    BY <1>0, <1>1, <1>4 DEF ReuseSummary, BuildLocals
  <2>2. QED
    BY <1>2, <2>1
<1>5. CASE StartSummary(b)
  <2>1. build'[b].copy = x.copy /\ build'[b].stage = "generating"
    BY <1>0, <1>1, <1>5 DEF StartSummary, BuildLocals
  <2>2. QED
    BY <1>2, <2>1
<1>6. CASE GenerateReturns(b)
  <2>1. PICK s \in Summary, v \in NewestVersion(build[b].cluster) :
          build' = [build EXCEPT
             ![b].stage = "verifying",
             ![b].id = s,
             ![b].row = [parents |-> {}, children |-> build[b].cluster, version |-> v + 1,
                         stale |-> FALSE, quality |-> "pending"]]
    BY <1>6 DEF GenerateReturns
  <2>2. /\ build'[b].copy = x.copy /\ build'[b].stage = "verifying"
        /\ build'[b].row.children = build'[b].cluster
    BY <1>0, <1>1, <2>1 DEF BuildLocals
  <2>3. QED
    BY <1>2, <2>2
<1>7. CASE VerifyReturns(b)
  <2>0. x.stage = "verifying" /\ x.row \in Row /\ x.row.children = x.cluster
    BY <1>0, <1>7 DEF VerifyReturns, BuildOK, CallLinked
  <2>1. PICK q \in Verdict :
          build'[b] = IF Dropped(q)
                      THEN [NextCluster(x) EXCEPT !.rejected = x.rejected \cup {x.cluster}]
                      ELSE [x EXCEPT !.stage = "saving", !.row.quality = q]
    BY <1>0, <1>1, <1>7 DEF VerifyReturns
  <2>2. CASE Dropped(q)
    <3>1. build'[b].copy = x.copy /\ build'[b].stage = "clusters"
      BY <2>1, <2>2 DEF NextCluster, BuildLocals
    <3>2. QED
      BY <1>2, <3>1
  <2>3. CASE ~Dropped(q)
    <3>1. /\ build'[b].copy = x.copy /\ build'[b].stage = "saving"
          /\ build'[b].row.children = build'[b].cluster
      BY <2>0, <2>1, <2>3 DEF BuildLocals, Row
    <3>2. QED
      BY <1>2, <3>1
  <2>4. QED
    BY <2>2, <2>3
<1>8. CASE SaveSummary(b)
  <2>1. /\ x.stage = "saving" /\ x.id \in Summary /\ x.row \in Row /\ x.row.children = x.cluster
        /\ Upsert(x.id, x.row)
    BY <1>0, <1>8 DEF SaveSummary, BuildOK, CallLinked
  <2>2. rows'[x.id] = x.row /\ x.row # NoRow
    BY <1>1, <2>1, UpsertSame DEF IdentityInv, TypeInv, TypeOK, Node
  <2>3. /\ build'[b].copy = x.copy /\ build'[b].stage = "linking"
        /\ build'[b].id = x.id /\ build'[b].cluster = x.cluster
    BY <1>0, <1>1, <1>8 DEF SaveSummary, BuildLocals
  <2>4. CallLinked(x)'
    BY <1>0, <1>1, CallLinkedKept
  <2>5. QED
    BY <2>1, <2>2, <2>3, <2>4 DEF CallLinked, Covers, Stored
<1>9. CASE LinkChild(b)
  <2>1. PICK l \in x.pending :
          build' = [build EXCEPT ![b].copy[l] = Backfilled(b, l), ![b].pending = @ \ {l}]
    BY <1>0, <1>9 DEF LinkChild
  <2>2. /\ l \in Leaf /\ l \in x.cluster /\ x.stage = "linking" /\ x.copy[l] \in Row
        /\ x.copy[l] # NoRow
    BY <1>0, <1>1, BackfilledRow, NodesAssumption DEF BuildOK, IdentityInv
  <2>3. /\ build'[b].copy = [x.copy EXCEPT ![l] = Backfilled(b, l)]
        /\ build'[b].stage = "linking"
        /\ build'[b].id = x.id /\ build'[b].cluster = x.cluster
    BY <1>0, <1>1, <2>1, <2>2 DEF BuildLocals
  <2>4. Backfilled(b, l).parents = x.copy[l].parents \cup {x.id}
    BY <1>0, <2>2 DEF Backfilled, Row
  <2>5. CallLinked(x)'
    BY <1>0, <1>1, CallLinkedKept
  <2>6. Covers(x.id, l)'
    BY <2>2, <2>5 DEF CallLinked, Covers
  <2>7. \A k \in Leaf : k # l => build'[b].copy[k] = x.copy[k]
    BY <2>3 DEF BuildLocals
  <2>8. build'[b].copy[l] = Backfilled(b, l)
    BY <2>2, <2>3 DEF BuildLocals
  <2>9. QED
    BY <2>2, <2>3, <2>4, <2>5, <2>6, <2>7, <2>8 DEF CallLinked, Covers, Stored
<1>10. CASE ClusterBuilt(b)
  <2>1. build'[b].copy = x.copy /\ build'[b].stage = "clusters"
    BY <1>0, <1>1, <1>10 DEF ClusterBuilt, NextCluster, BuildLocals
  <2>2. QED
    BY <1>2, <2>1
<1>11. CASE BuildReturns(b) \/ BuildFails(b)
  <2>1. build'[b] = IdleBuild
    BY <1>1, <1>11 DEF BuildReturns, BuildFails, ModelError, Crash
  <2>2. QED
    BY <2>1 DEF CallLinked, IdleBuild, NewCall
<1>12. QED
  BY <1>3, <1>4, <1>5, <1>6, <1>7, <1>8, <1>9, <1>10, <1>11 DEF BuildStep

(* The parents of a leaf's new row cover it. *)
LEMMA LeafRowLinked ==
  ASSUME Deleter = {}, LinksInv, [Next]_vars, NEW l \in Leaf, Stored(l)',
         NEW s \in rows'[l].parents
  PROVE  Covers(s, l)'
<1> DEFINE Goal == Covers(s, l)'
<1>0. /\ l \in Node /\ l \notin Summary /\ rows'[l] # NoRow
      /\ TypeInv /\ IdentityInv /\ rows \in [Node -> Row \cup {NoRow}]
  BY NodesAssumption DEF Node, Stored, LinksInv, IdentityInv, TypeInv, TypeOK
<1>1. ASSUME Stored(l), s \in rows[l].parents PROVE Goal
  <2>1. Covers(s, l)
    BY <1>1 DEF LinksInv, LinksSound, Covers
  <2>2. s \in Summary
    BY <1>0, <1>1 DEF Stored, Row
  <2>3. QED
    BY <1>0, <2>1, <2>2, CoversKept DEF Covers
<1>2. ASSUME rows'[l] = rows[l] PROVE Goal
  BY <1>0, <1>1, <1>2 DEF Stored
<1>3. ASSUME NEW k \in Leaf, WriteL0(k) PROVE Goal
  <2> DEFINE row == [parents |-> {}, children |-> {}, version |-> 1,
                     stale |-> FALSE, quality |-> "verified"]
  <2>1. Upsert(k, row) /\ k \in Node /\ row \in Row
    BY <1>3 DEF WriteL0, Node, Row, Quality, Verdict
  <2>2. CASE k = l
    <3>1. rows'[l] = row
      BY <1>0, <2>1, <2>2, UpsertSame
    <3>2. QED
      BY <3>1
  <2>3. CASE k # l
    <3>1. rows'[l] = rows[l]
      BY <1>0, <2>1, <2>3, UpsertOther
    <3>2. QED
      BY <1>2, <3>1
  <2>4. QED
    BY <2>2, <2>3
<1>4. ASSUME NEW b \in Builder, BuildLevel(b) \/ BuildStep(b) \/ BuildFails(b) PROVE Goal
  <2>1. CASE SaveSummary(b)
    <3>1. build[b].id \in Summary /\ Upsert(build[b].id, build[b].row)
      BY <1>0, <2>1, CallLocals DEF SaveSummary, BuildOK
    <3>2. rows'[l] = rows[l]
      BY <1>0, <3>1, UpsertOther
    <3>3. QED
      BY <1>2, <3>2
  <2>2. CASE LinkChild(b)
    <3>1. PICK k \in build[b].pending : Upsert(k, Backfilled(b, k))
                                        /\ build' = [build EXCEPT ![b].copy[k] = Backfilled(b, k),
                                                                  ![b].pending = @ \ {k}]
      BY <2>2 DEF LinkChild
    <3>2. k \in Node /\ Backfilled(b, k) \in Row
      BY <1>0, BackfilledRow DEF Node
    <3>3. CASE k = l
      <4>1. rows'[l] = Backfilled(b, l)
        BY <1>0, <3>1, <3>2, <3>3, UpsertSame
      <4>2. build'[b].copy[l] = Backfilled(b, l) /\ Backfilled(b, l) # NoRow
        BY <1>0, <3>1, <3>2, <3>3, CallLocals, NodesAssumption DEF BuildLocals, TypeInv, TypeOK
      <4>3. CallLinked(build[b])'
        BY <2>2, BuildStepLinked DEF BuildStep
      <4>4. QED
        BY <4>1, <4>2, <4>3 DEF CallLinked
    <3>4. CASE k # l
      <4>1. rows'[l] = rows[l]
        BY <1>0, <3>1, <3>4, UpsertOther
      <4>2. QED
        BY <1>2, <4>1
    <3>5. QED
      BY <3>3, <3>4
  <2>3. CASE ~SaveSummary(b) /\ ~LinkChild(b)
    BY <1>2, <1>4, <2>3 DEF BuildLevel, BuildStep, BuildFails, ReuseSummary, StartSummary,
       GenerateReturns, VerifyReturns, ClusterBuilt, BuildReturns, ModelError, Crash, store
  <2>4. QED
    BY <2>1, <2>2, <2>3
<1>5. ASSUME NEW v \in Verifier, VerifyJob(v) PROVE Goal
  <2>1. CASE VerifyJobWrites(v)
    <3>1. PICK q \in Verdict : Upsert(audit[v].id, Audited(audit[v].row, q))
      BY <2>1 DEF VerifyJobWrites
    <3>2. audit[v].id \in Summary
      BY <1>0, <2>1, AuditedRow, <3>1 DEF VerifyJobWrites
    <3>3. rows'[l] = rows[l]
      BY <1>0, <3>1, <3>2, UpsertOther
    <3>4. QED
      BY <1>2, <3>3
  <2>2. CASE ~VerifyJobWrites(v)
    BY <1>2, <1>5, <2>2, VerifyJobRows
  <2>3. QED
    BY <2>1, <2>2
<1>6. ASSUME NEW r \in Refresher, Refresh(r) PROVE Goal
  <2>1. rows'[l] = rows[l] \/ (Stored(l) /\ rows'[l] = [rows[l] EXCEPT !.stale = TRUE])
    BY <1>0, <1>6, RefreshSteps DEF MarkStale
  <2>2. CASE Stored(l) /\ rows'[l] = [rows[l] EXCEPT !.stale = TRUE]
    <3>1. rows[l] \in Row
      BY <1>0, <2>2 DEF Stored
    <3>2. rows'[l].parents = rows[l].parents
      BY <2>2, <3>1 DEF Row
    <3>3. QED
      BY <1>1, <2>2, <3>2
  <2>3. QED
    BY <1>2, <2>1, <2>2
<1>7. QED
  BY <1>2, <1>3, <1>4, <1>5, <1>6 DEF Next, vars

LEMMA NextLinked ==
  ASSUME Deleter = {}, LinksInv, [Next]_vars PROVE LinksInv'
<1>0. TypeInv /\ IdentityInv
  BY DEF LinksInv, IdentityInv
<1>1. IdentityInv'
  BY NextTyped, NextOwned, NextAgrees DEF LinksInv, IdentityInv
<1>2. LinksSound'
  BY LeafRowLinked DEF LinksSound, Covers, Stored
<1>3. ASSUME NEW b \in Builder PROVE CallLinked(build[b])'
  <2>1. CASE BuildLevel(b) \/ BuildStep(b) \/ BuildFails(b)
    BY <2>1, BuildStepLinked
  <2>2. CASE build'[b] = build[b]
    <3>1. PICK x \in BuildLocals : x = build[b] /\ BuildOK(x) /\ CallLinked(x)
      BY <1>0, CallLocals DEF LinksInv
    <3>2. CallLinked(x)'
      BY <1>0, <3>1, CallLinkedKept
    <3>3. QED
      BY <2>2, <3>1, <3>2 DEF CallLinked
  <2>3. ASSUME NEW d \in Builder, d # b, BuildLevel(d) \/ BuildStep(d) \/ BuildFails(d)
        PROVE  build'[b] = build[b]
    BY <1>0, <2>3 DEF BuildLevel, BuildStep, BuildFails, ReuseSummary, StartSummary,
       GenerateReturns, VerifyReturns, SaveSummary, LinkChild, ClusterBuilt, BuildReturns,
       ModelError, Crash, TypeInv, TypeOK
  <2>4. QED
    BY <2>1, <2>2, <2>3, VerifyJobSteps, RefreshSteps DEF Next, WriteL0, vars
<1>4. QED
  BY <1>1, <1>2, <1>3 DEF LinksInv

(* As long as nothing is deleted, every parent id a leaf carries names a      *)
(* stored summary that covers it, however many builds overlap, write back    *)
(* old copies of the leaf, or stop half way.                                 *)
THEOREM LinksAlwaysSound ==
  ASSUME Deleter = {} PROVE Spec => []LinksSound
<1>1. Init => LinksInv
  <2>1. Init => LinksSound
    BY DEF Init, LinksSound, Stored, Node
  <2>2. Init => \A b \in Builder : CallLinked(build[b])
    BY DEF Init, CallLinked, IdleBuild, NewCall
  <2>3. QED
    BY <2>1, <2>2, InitTyped, InitOwned, InitAgrees DEF LinksInv, IdentityInv
<1>2. LinksInv /\ [Next]_vars => LinksInv'
  BY NextLinked
<1>3. LinksInv => LinksSound
  BY DEF LinksInv
<1>4. QED
  BY <1>1, <1>2, <1>3, PTL DEF Spec

=============================================================================

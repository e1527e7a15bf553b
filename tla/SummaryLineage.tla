--------------------------- MODULE SummaryLineage ---------------------------
(***************************************************************************)
(* What the memory tree promises its readers (retrieval, provenance, the    *)
(* inspector), with no jobs, copies or transactions: leaves are added;      *)
(* a summary is published over a set of them, at most one live summary per  *)
(* set; leaves are linked to summaries that cover them; summaries are       *)
(* retired.  Nothing is ever unlinked, un-retired or re-covered.            *)
(***************************************************************************)
CONSTANTS Leaf, Summary

VARIABLES
  leaves,     \* leaves added
  published,  \* summaries published
  cover,      \* what each published summary covers
  retired,    \* published summaries no longer to be used
  links       \* <<leaf, summary>>: the leaf names the summary as a parent

vars == <<leaves, published, cover, retired, links>>

Init ==
  /\ leaves = {}
  /\ published = {}
  /\ cover = [s \in Summary |-> {}]
  /\ retired = {}
  /\ links = {}

AddLeaf(l) ==
  /\ l \notin leaves
  /\ leaves' = leaves \cup {l}
  /\ UNCHANGED <<published, cover, retired, links>>

Publish(s, c) ==
  /\ s \notin published
  /\ c # {} /\ c \subseteq leaves
  /\ \A t \in published \ retired : cover[t] # c
  /\ published' = published \cup {s}
  /\ cover' = [cover EXCEPT ![s] = c]
  /\ UNCHANGED <<leaves, retired, links>>

Link(l, s) ==
  /\ s \in published
  /\ l \in cover[s]
  /\ links' = links \cup {<<l, s>>}
  /\ UNCHANGED <<leaves, published, cover, retired>>

Retire(S) ==
  /\ S \subseteq published
  /\ retired' = retired \cup S
  /\ UNCHANGED <<leaves, published, cover, links>>

Next ==
  \/ \E l \in Leaf : AddLeaf(l)
  \/ \E s \in Summary, c \in SUBSET Leaf : Publish(s, c)
  \/ \E l \in Leaf, s \in Summary : Link(l, s)
  \/ \E S \in SUBSET Summary : Retire(S)

Spec == Init /\ [][Next]_vars
=============================================================================

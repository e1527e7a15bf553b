------------------------------ MODULE MCIngest ------------------------------
(***************************************************************************)
(* Ingest for TLC: one event at two times, the same event with               *)
(* allow_duplicate, and a record without event.                             *)
(***************************************************************************)
EXTENDS Ingest, TLC

CONSTANTS e1

A(time) == [event |-> e1, time |-> time, allow |-> FALSE]
Again == [event |-> e1, time |-> 2, allow |-> TRUE]
Plain == [event |-> NoEvent, time |-> 1, allow |-> FALSE]

MCRecord == {A(1), A(2), Again, Plain}
MCBatch == {<<A(2), A(1)>>, <<A(1), Again>>}
Symmetry == Permutations(Node) \cup Permutations(Caller)
=============================================================================

------------------------- MODULE MCMoistureSampler --------------------------
(***************************************************************************)
(* Constants for the runs of MoistureSampler: two zones whose probes may   *)
(* be swapped, on inputs of one slow board, or of two that fail.           *)
(***************************************************************************)
EXTENDS MoistureSampler
CONSTANTS z1, z2, i1, i2, b1, b2
SlowBoard == [board |-> [i \in {i1, i2} |-> b1], faults |-> FALSE, slow |-> TRUE, limit |-> 3]
FailingBoards == [board |-> [i \in {i1, i2} |-> IF i = i1 THEN b1 ELSE b2],
                  faults |-> TRUE, slow |-> FALSE, limit |-> 2]
SlowOrFailing == {SlowBoard, FailingBoards}
Swapped == {[z \in {z1, z2} |-> IF z = z1 THEN i1 ELSE i2],
            [z \in {z1, z2} |-> IF z = z1 THEN i2 ELSE i1]}
=============================================================================

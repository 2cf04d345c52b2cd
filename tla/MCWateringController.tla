------------------------ MODULE MCWateringController ------------------------
(***************************************************************************)
(* Constants for the runs of WateringController.                           *)
(***************************************************************************)
EXTENDS WateringController

CONSTANTS v1, v2, z1, s1

\* A zone with both valves, of which a schedule waters one.
BothInZone == [z \in {z1} |-> {v1, v2}]
OneInZone == [z \in {z1} |-> {v2}]
NoneInZone == [z \in {z1} |-> {}]
WaterV1 == [s \in {s1} |-> {v1}]
WaterBoth == [s \in {s1} |-> {v1, v2}]
DueEarly == [s \in {s1} |-> {1}]
DueTwice == [s \in {s1} |-> {1, 2}]
DueMiddle == [s \in {s1} |-> {3}]
Intervals == [k \in Categories |-> IF k = "schedule" THEN 3 ELSE 2]
NoRequests == {}
LongV2 == {[names |-> <<v2>>, dur |-> 2]}
OnlyV1 == {[names |-> <<v1>>, dur |-> 1]}
NoSkew == {0}
BackAndForth == {-1, 0}
=============================================================================

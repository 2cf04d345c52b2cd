--------------------------- MODULE AtomicRegister ---------------------------
(***************************************************************************)
(* What persistence.py promises of a recoverable JSON file: a reader gets  *)
(* the value last stored, whenever power was lost, and the value stored    *)
(* before it if the medium lost the last one.                              *)
(***************************************************************************)
CONSTANTS Values, Nothing   \* Nothing: a reader gets its default

VARIABLES
    value,   \* what a reader gets
    older    \* the value it falls back on, or Nothing
vars == <<value, older>>

Init == value = Nothing /\ older = Nothing

\* The new value becomes readable at once, the one it replaces is its fallback.
Store(v) == value' = v /\ older' = value
\* A store under way gives up the fallback before it replaces the value.
LoseOlder == older # Nothing /\ older' = Nothing /\ UNCHANGED value
\* The medium loses the value; there is none to lose while there is no fallback.
LoseValue == older # Nothing /\ value' = older /\ older' = Nothing

Next == (\E v \in Values : Store(v)) \/ LoseOlder \/ LoseValue
Spec == Init /\ [][Next]_vars
=============================================================================

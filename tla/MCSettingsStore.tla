-------------------------- MODULE MCSettingsStore ---------------------------
(***************************************************************************)
(* Constants for the run of SettingsStore: no valves, one under each of    *)
(* two names, and two valves, which may exchange their names.              *)
(***************************************************************************)
EXTENDS SettingsStore, TLC
CONSTANTS a, b
ValveNames == {a, b}
NoValves == <<>>
One == a :> 1
Documents == {NoValves, One, b :> 1, (b :> 1) @@ (a :> 2)}
=============================================================================

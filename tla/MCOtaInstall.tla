--------------------------- MODULE MCOtaInstall ----------------------------
(***************************************************************************)
(* Constants for the runs of OtaInstall.                                   *)
(***************************************************************************)
EXTENDS OtaInstall
CONSTANTS m1, m2, r1, r2
TwoNames == {m1, m2}
=============================================================================

----------------------------- MODULE MCRomCache -----------------------------
(***************************************************************************)
(* Constants for the runs of RomCache: the release installed over USB, two *)
(* updates, one of which may be too large for a bank.                      *)
(***************************************************************************)
EXTENDS RomCache
CONSTANTS old, new, large
ThreeImages == {old, new, large}
=============================================================================

--------------------------- MODULE MCHistoryStore ---------------------------
(***************************************************************************)
(* The runs of HistoryStore give its numbers values in their .cfg files.   *)
(***************************************************************************)
EXTENDS HistoryStore
=============================================================================

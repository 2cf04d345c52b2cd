--------------------------- MODULE MCWifiStation ----------------------------
(***************************************************************************)
(* The runs of WifiStation give its times values in their .cfg files.      *)
(***************************************************************************)
EXTENDS WifiStation
=============================================================================

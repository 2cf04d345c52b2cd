--------------------------- MODULE MCMaintenance ---------------------------
(***************************************************************************)
(* Constants for the runs of Maintenance: the server's two connections.    *)
(***************************************************************************)
EXTENDS Maintenance
CONSTANTS c1, c2
TwoClients == {c1, c2}
=============================================================================

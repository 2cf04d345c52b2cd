---------------------------- MODULE MCNetClients ----------------------------
(* Ticks of sixteen values, two names, a cache that holds two. *)
EXTENDS NetClients

OneOrThree == {1, 3}
=============================================================================

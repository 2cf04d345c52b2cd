---------------------------- MODULE MCHttpServer ----------------------------
(***************************************************************************)
(* The run of HttpServer gives its constants values in its .cfg file.      *)
(***************************************************************************)
EXTENDS HttpServer
=============================================================================

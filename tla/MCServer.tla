------------------------------ MODULE MCServer ------------------------------
(***************************************************************************)
(* The server with one patient and two impatient clients that compete for  *)
(* one thread.  Several threads at work: MCReverseProxy.                   *)
(***************************************************************************)
EXTENDS Server
=============================================================================

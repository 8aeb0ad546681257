---------------------------- MODULE MCFileServer ----------------------------
(***************************************************************************)
(* The file server with one patient and two impatient clients.             *)
(***************************************************************************)
EXTENDS FileServer
=============================================================================

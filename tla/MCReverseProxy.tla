--------------------------- MODULE MCReverseProxy ---------------------------
(***************************************************************************)
(* The reverse proxy on small instances.  Threads are interchangeable, and *)
(* so are the impatient connections.                                       *)
(***************************************************************************)
EXTENDS ReverseProxy, TLC

Symmetry == Permutations(Worker) \cup Permutations(Conn \ Patient)
=============================================================================

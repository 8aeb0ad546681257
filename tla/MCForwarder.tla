---------------------------- MODULE MCForwarder ----------------------------
(***************************************************************************)
(* The forwarders on small instances.  Requests are interchangeable.       *)
(***************************************************************************)
EXTENDS Forwarder, TLC

Symmetry == Permutations(Req)
=============================================================================

------------------------- MODULE MCRequestForwarder -------------------------
(***************************************************************************)
(* Routing on a small alphabet: exact keys, nested and overlapping         *)
(* wildcards, the wildcard that covers everything, and targets that match  *)
(* none, one or several of them.                                           *)
(***************************************************************************)
EXTENDS RequestForwarder

Keys    == {<<"a">>, <<"a", "b">>, <<"a", Star>>, <<Star>>}
Targets == {<<"a">>, <<"a", "b">>, <<"c">>}
=============================================================================

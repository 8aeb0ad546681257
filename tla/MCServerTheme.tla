--------------------------- MODULE MCServerTheme ---------------------------
(***************************************************************************)
(* The demonstration with fewer flows and threads; the faked flow is not   *)
(* the last one.                                                           *)
(***************************************************************************)
EXTENDS ServerTheme
=============================================================================

-------------------------- MODULE MCBase64FileBody --------------------------
(***************************************************************************)
(* The base64 body with buffers of 4 and 6 bytes; 4 and the real 4096 both *)
(* leave 1 when divided by 3, 6 leaves 0.                                  *)
(***************************************************************************)
EXTENDS Base64FileBody
=============================================================================

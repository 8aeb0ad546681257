--------------------------- MODULE Base64FileBody ---------------------------
(***************************************************************************)
(* The body type that sends a file in base64 (base64_file_body.hpp): size, *)
(* from which prepare_payload takes the Content-Length, and the writer,    *)
(* whose get reads one buffer of the file at a time and encodes it on its  *)
(* own.  Lengths stand for the bytes.                                      *)
(***************************************************************************)
EXTENDS Integers

CONSTANTS BufferSize,  (* BOOST_BEAST_FILE_BUFFER_SIZE                     *)
          MaxSize      (* bound: bytes in the file                         *)

ASSUME Base64Assumption == BufferSize \in Nat /\ BufferSize >= 2 /\ MaxSize \in Nat

VARIABLES size,   (* the file's size when it was opened                    *)
          disk,   (* its size now: others may write to it                  *)
          pos,    (* bytes read                                            *)
          chunk,  (* characters in buf_ after the last get                 *)
          wire,   (* characters sent                                       *)
          reads,  (* history: full, or torn once one returned too little   *)
          state   (* of the response: sending, done or failed              *)

vars == <<size, disk, pos, chunk, wire, reads, state>>

TypeOK ==
  /\ size \in 0..MaxSize /\ disk \in 0..MaxSize /\ pos \in 0..size
  /\ chunk \in Nat /\ wire \in Nat /\ reads \in {"full", "torn"}
  /\ state \in {"sending", "done", "failed"} /\ (state = "done" => pos = size)

Init ==
  /\ size \in 0..MaxSize /\ disk = size
  /\ pos = 0 /\ chunk = 0 /\ wire = 0 /\ reads = "full" /\ state = "sending"

\* VARIANT: no padding.
Encoded_Unpadded(n) == (4 * n + 2) \div 3

\* base64::encode: four characters for three bytes, the last group padded.
Encoded(n) == 4 * ((n + 2) \div 3)

\* base64_file_body::size.
Declared == ((size + 2) \div 3) * 4

\* VARIANT: what is left of the file is read in one go.
Amount_Whole == size - pos

\* What http::file_body::writer::get asks the file for.
Amount == IF size - pos > BufferSize THEN BufferSize ELSE size - pos

\* What the file has left for it.
Available == IF disk <= pos THEN 0 ELSE IF disk - pos < Amount THEN disk - pos ELSE Amount

\* VARIANT: the short read is not noticed.
OnShortRead_Ignored == "done"

\* get sets error::short_read: http::write throws.
OnShortRead == "failed"

\* writer::get.
Get ==
  /\ state = "sending"
  /\ \/ Amount = 0 /\ state' = "done" /\ UNCHANGED <<pos, chunk, wire, reads>>
     \/ /\ Amount > 0 /\ Available = 0
        /\ state' = OnShortRead /\ UNCHANGED <<pos, chunk, wire, reads>>
     \/ /\ Amount > 0 /\ Available > 0
        /\ pos' = pos + Available
        /\ chunk' = Encoded(Available)
        /\ wire' = wire + Encoded(Available)
        /\ reads' = IF Available < Amount THEN "torn" ELSE reads
        /\ state' = IF pos' < size THEN "sending" ELSE "done"
  /\ UNCHANGED <<size, disk>>

\* Another process or thread writes to the file, or truncates it.
Resize(n) ==
  /\ state = "sending" /\ n # disk
  /\ disk' = n
  /\ UNCHANGED <<size, pos, chunk, wire, reads, state>>

Ended == state # "sending" /\ UNCHANGED vars

Next == Get \/ (\E n \in 0..MaxSize : Resize(n)) \/ Ended

Spec == Init /\ [][Next]_vars

-----------------------------------------------------------------------------
(***************************************************************************)
(* Properties.                                                             *)
(***************************************************************************)
\* buf_, twice the size of a read, holds every encoded chunk.
ChunkFits == chunk <= 2 * BufferSize

\* A client that counts on Content-Length is never left waiting by a response
\* that was sent to its end: encoding in pieces can only lengthen the body.
NeverTooShort == state = "done" => wire >= Declared

\* The length is right for a file that fits one buffer, and would be for any
\* other if buffers were a multiple of three bytes, while no read is torn.
ExactWhenAligned ==
  state = "done" /\ reads = "full" /\ (size <= BufferSize \/ BufferSize % 3 = 0) => wire = Declared

\* What size is said to be (base64_file_body.hpp:21): the size of the body.
SizeOfBody == state = "done" /\ reads = "full" => wire = Declared
=============================================================================

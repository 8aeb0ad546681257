----------------------------- MODULE Forwarder -----------------------------
(***************************************************************************)
(* The forwarders of the reverse proxy (abstractforwarder.hpp): pool       *)
(* threads relay requests to an upstream server and its responses to the   *)
(* client, concurrently, through memory or through files on disk that they *)
(* share by name.                                                          *)
(*                                                                         *)
(* A body is a sequence of chunks; chunk i of the upstream's answer to     *)
(* request r is <<r, i>>.  Every open file has one descriptor per request, *)
(* whose write offset is got[r] and whose read offset is Len(out[r]).      *)
(***************************************************************************)
EXTENDS Integers, Sequences

CONSTANTS Req,        (* the requests under way, each on its own thread    *)
          Forwarders, (* the forwarder types the routes lead to            *)
          Heads,      (* the kinds of response header upstreams send       *)
          MaxSize,    (* bound: chunks in a body                           *)
          Threshold,  (* chunks CommonForwarderImpl::read keeps in memory  *)
          MaxClock,   (* bound: seconds that pass                          *)
          Memory,     (* the place of a body that is kept in memory        *)
          Tmp,        (* the file FileBodyReader names "tmp"               *)
          Url,        (* the file a fileurl header names                   *)
          Hole        (* what a file holds where nothing was written       *)

\* Header kinds: none arrives; a malformed field follows Content-Length and
\* fileurl; Content-Length alone; neither (chunked, or up to the close);
\* Content-Length and fileurl.
HeadKind == {"none", "bad", "length", "nolength", "fileurl"}
ForwarderType == {"generic", "file", "flexible"}

ASSUME ForwarderAssumption ==
  /\ Forwarders \subseteq ForwarderType /\ Heads \subseteq HeadKind
  /\ MaxSize \in Nat /\ Threshold \in Nat /\ MaxClock \in Nat
  /\ Url \notin Req /\ Hole \notin (Req \cup {Url}) \X Nat
  /\ Memory # Tmp /\ Memory # Url /\ Tmp # Url
  /\ {Memory, Tmp, Url} \cap Nat = {}

VARIABLES
  clock,      (* seconds of the system clock                               *)
  tm,         (* the one struct tm that std::localtime fills               *)
  now,        (* the time each thread read to name its file                *)
  file,       (* the contents of each file                                 *)
  pc,         (* where each thread is                                      *)
  forwarder,  (* the forwarder type that runs the request                  *)
  head,       (* the kind of header the upstream answered with             *)
  size,       (* chunks in the body the upstream means to send             *)
  got,        (* chunks of it received                                     *)
  path,       (* Memory, or the file the response body lives in            *)
  out,        (* the chunks written to the client                          *)
  result,     (* what became of the reply                                  *)
  shared      (* history: requests that had a file open beside another     *)

vars == <<clock, tm, now, file, pc, forwarder, head, size, got, path, out, result, shared>>

Second == 0..MaxClock
Path   == {Tmp} \cup Second
Chunk  == ((Req \cup {Url}) \X (1..MaxSize)) \cup {Hole}
PC     == {"idle", "stamp", "converting", "naming", "opening", "waiting",
           "receiving", "url", "sending", "done"}
Result == {"pending", "ok", "cut", "lost", "error"}

TypeOK ==
  /\ clock \in Second /\ tm \in Second /\ now \in [Req -> Second]
  /\ file \in [Path -> Seq(Chunk)]
  /\ pc \in [Req -> PC]
  /\ forwarder \in [Req -> ForwarderType]
  /\ head \in [Req -> HeadKind]
  /\ size \in [Req -> 0..MaxSize]
  /\ got \in [Req -> 0..MaxSize] /\ \A r \in Req : got[r] <= size[r]
  /\ path \in [Req -> Path \cup {Memory, Url}]
  /\ out \in [Req -> Seq(Chunk)]
  /\ result \in [Req -> Result]
  /\ shared \subseteq Req

Init ==
  /\ clock = 0 /\ tm = 0 /\ now = [r \in Req |-> 0]
  /\ file = [p \in Path |-> <<>>]
  /\ pc = [r \in Req |-> "idle"]
  /\ forwarder \in [Req -> Forwarders]
  /\ head = [r \in Req |-> "none"]
  /\ size = [r \in Req |-> 0] /\ got = [r \in Req |-> 0]
  /\ path = [r \in Req |-> Memory]
  /\ out = [r \in Req |-> <<>>]
  /\ result = [r \in Req |-> "pending"]
  /\ shared = {}

-----------------------------------------------------------------------------
\* Request r's thread moves on.
Goto(r, next) == pc' = [pc EXCEPT ![r] = next]

\* An exception, or an error code given to checkFail, leaves the forwarder:
\* the server answers 500.
Fail(r) == Goto(r, "done") /\ result' = [result EXCEPT ![r] = "error"]

\* beginStream: resolve, connect or the TLS handshake throws.
BeginStreamFails(r) == Fail(r)

\* beginStream connects and the request is written; either may throw.
\* FileBodyReader opens its file before it reads anything.
Begin(r) ==
  /\ pc[r] = "idle"
  /\ \/ BeginStreamFails(r) /\ UNCHANGED path
     \/ /\ UNCHANGED result
        /\ IF forwarder[r] = "file"
             THEN Goto(r, "opening") /\ path' = [path EXCEPT ![r] = Tmp]
             ELSE Goto(r, "waiting") /\ UNCHANGED path
  /\ UNCHANGED <<clock, tm, now, file, forwarder, head, size, got, out, shared>>

\* The requests that have file p open.
Holders(p) ==
  {s \in Req : path[s] = p /\ pc[s] \in {"waiting", "receiving", "sending"}}

\* file.open(name, file_mode::write, ec): created or truncated; or it fails.
Open(r) ==
  /\ pc[r] = "opening"
  /\ \/ /\ Goto(r, IF forwarder[r] = "file" THEN "waiting" ELSE "receiving")
        /\ file' = [file EXCEPT ![path[r]] = <<>>]
        /\ shared' = IF Holders(path[r]) = {} THEN shared
                     ELSE shared \cup Holders(path[r]) \cup {r}
        /\ UNCHANGED result
     \/ Fail(r) /\ UNCHANGED <<file, shared>>
  /\ UNCHANGED <<clock, tm, now, forwarder, head, size, got, path, out>>

\* Where CommonForwarderImpl::read goes on once the header is in.  Its error
\* code is not looked at until the response is returned.
FlexibleNext(h, n) ==
  IF h \in {"bad", "fileurl"} THEN "url"
  ELSE IF h = "nolength" THEN "sending"
  ELSE IF n > Threshold THEN "stamp" ELSE "receiving"

\* read_header, or the header part of http::read: the upstream has answered
\* with a header of kind h, to be followed by n chunks.
ReadHeader(r, h, n) ==
  /\ pc[r] = "waiting"
  /\ head' = [head EXCEPT ![r] = h]
  /\ size' = [size EXCEPT ![r] = n]
  /\ IF h = "none" \/ (h = "bad" /\ forwarder[r] # "flexible")
       THEN Fail(r)
       ELSE /\ Goto(r, IF forwarder[r] = "flexible" THEN FlexibleNext(h, n)
                       ELSE "receiving")
            /\ UNCHANGED result
  /\ UNCHANGED <<clock, tm, now, file, forwarder, got, path, out, shared>>

\* getLocalTime reads the clock ...
Now(r) ==
  /\ pc[r] = "stamp"
  /\ now' = [now EXCEPT ![r] = clock]
  /\ Goto(r, "converting")
  /\ UNCHANGED <<clock, tm, file, forwarder, head, size, got, path, out, result, shared>>

\* ... then fills the process-wide tm with that time, old as it may be ...
LocalTime(r) ==
  /\ pc[r] = "converting"
  /\ tm' = now[r]
  /\ Goto(r, "naming")
  /\ UNCHANGED <<clock, now, file, forwarder, head, size, got, path, out, result, shared>>

\* ... and strftime, which reads it to name the temporary file.
NameFile(r) ==
  /\ pc[r] = "naming"
  /\ path' = [path EXCEPT ![r] = tm]
  /\ Goto(r, "opening")
  /\ UNCHANGED <<clock, tm, now, file, forwarder, head, size, got, out, result, shared>>

\* s with x at position i, which may lie beyond its end.
WriteAt(s, i, x) ==
  [k \in 1..(IF i > Len(s) THEN i ELSE Len(s)) |->
     IF k = i THEN x ELSE IF k <= Len(s) THEN s[k] ELSE Hole]

\* VARIANT: http::read(stream, buffer, res, ec) with ec ignored.
OnReadError_Ignored(r) == Goto(r, "sending") /\ UNCHANGED result

\* http::read throws, or hands checkFail its error code.
OnReadError(r) == Fail(r)

\* VARIANT: the parser takes one chunk more than Content-Length allows.
MoreToCome_OffByOne(r) == got[r] <= size[r]

\* The parser is not done: the body has chunks to come.
MoreToCome(r) == got[r] < size[r]

\* http::read: one more chunk goes to memory or to the descriptor's offset.
ReceiveChunk(r) ==
  /\ pc[r] = "receiving"
  /\ MoreToCome(r)
  /\ got' = [got EXCEPT ![r] = @ + 1]
  /\ IF path[r] = Memory THEN UNCHANGED file
     ELSE file' = [file EXCEPT ![path[r]] = WriteAt(@, got[r] + 1, <<r, got[r] + 1>>)]
  /\ UNCHANGED <<clock, tm, now, pc, forwarder, head, size, path, out, result, shared>>

\* The body is complete; a file is rewound for the reply.  endStream waits for
\* a TLS upstream to close too, and nobody looks at the error it may report.
ReceiveDone(r) ==
  /\ pc[r] = "receiving"
  /\ got[r] = size[r]
  /\ Goto(r, "sending")
  /\ UNCHANGED <<clock, tm, now, file, forwarder, head, size, got, path, out, result, shared>>

\* The upstream's connection ends before the body does, or the disk is full.
ReceiveFails(r) ==
  /\ pc[r] = "receiving"
  /\ OnReadError(r)
  /\ UNCHANGED <<clock, tm, now, file, forwarder, head, size, got, path, out, shared>>

\* readFromUrl: the file the header names is opened and replaces the body,
\* and the open's error code replaces that of read_header.
OpenUrl(r) ==
  /\ pc[r] = "url"
  /\ \/ Goto(r, "sending") /\ path' = [path EXCEPT ![r] = Url] /\ UNCHANGED result
     \/ Fail(r) /\ UNCHANGED path
  /\ UNCHANGED <<clock, tm, now, file, forwarder, head, size, got, out, shared>>

\* VARIANT: the length is what the file holds when the reply is prepared, not
\* what this request has written to it.
Promised_FileSize(r) ==
  CASE path[r] = Url -> MaxSize
    [] path[r] = Memory -> got[r]
    [] OTHER -> Len(file[path[r]])

\* The length of the response body the client is promised: what this request
\* received, or the size of the file at the url.
Promised(r) == IF path[r] = Url THEN MaxSize ELSE got[r]

\* VARIANT: the file is not rewound after it has been written.
NextToSend_NotRewound(r) ==
  Len(out[r]) + 1 + (IF path[r] \in Path THEN got[r] ELSE 0)

\* The position in the body of the next chunk to send: the file has been
\* rewound with seek(0).
NextToSend(r) == Len(out[r]) + 1

\* The server's http::write: a file body is read as it is sent.
SendChunk(r) ==
  LET i == NextToSend(r) IN
  /\ pc[r] = "sending"
  /\ Len(out[r]) < Promised(r)
  /\ \/ /\ path[r] = Memory
        /\ out' = [out EXCEPT ![r] = Append(@, <<r, i>>)]
     \/ /\ path[r] = Url
        /\ out' = [out EXCEPT ![r] = Append(@, <<Url, i>>)]
     \/ /\ path[r] \in Path
        /\ i <= Len(file[path[r]])
        /\ out' = [out EXCEPT ![r] = Append(@, file[path[r]][i])]
  /\ UNCHANGED <<clock, tm, now, file, pc, forwarder, head, size, got, path, result, shared>>

SendDone(r) ==
  /\ pc[r] = "sending"
  /\ Len(out[r]) = Promised(r)
  /\ Goto(r, "done")
  /\ result' = [result EXCEPT ![r] = "ok"]
  /\ UNCHANGED <<clock, tm, now, file, forwarder, head, size, got, path, out, shared>>

\* The file ends before the promised length, or cannot be read: http::write
\* throws.  The url's file is somebody else's: it may have shrunk since it was
\* measured, or be a directory.
ShortRead(r) ==
  /\ pc[r] = "sending"
  /\ Len(out[r]) < Promised(r)
  /\ \/ path[r] = Url
     \/ path[r] \in Path /\ NextToSend(r) > Len(file[path[r]])
  /\ Goto(r, "done")
  /\ result' = [result EXCEPT ![r] = "cut"]
  /\ UNCHANGED <<clock, tm, now, file, forwarder, head, size, got, path, out, shared>>

\* The client goes before the reply is out: http::write throws, and the
\* response is destroyed with its file.
Abandon(r) ==
  /\ pc[r] = "sending"
  /\ Goto(r, "done")
  /\ result' = [result EXCEPT ![r] = "lost"]
  /\ UNCHANGED <<clock, tm, now, file, forwarder, head, size, got, path, out, shared>>

Tick ==
  /\ clock < MaxClock
  /\ clock' = clock + 1
  /\ UNCHANGED <<tm, now, file, pc, forwarder, head, size, got, path, out, result, shared>>

\* The forwarder runs: it ends with a response (sending) or throws (done).
Fetch(r) ==
  \/ Begin(r) \/ Open(r)
  \/ \E h \in Heads, n \in 0..MaxSize : ReadHeader(r, h, n)
  \/ Now(r) \/ LocalTime(r) \/ NameFile(r)
  \/ ReceiveChunk(r) \/ ReceiveDone(r) \/ ReceiveFails(r)
  \/ OpenUrl(r)

\* The server sends the response the forwarder returned.
Deliver(r) == SendChunk(r) \/ SendDone(r) \/ ShortRead(r) \/ Abandon(r)

\* Every request has been answered.
Idle == (\A r \in Req : pc[r] = "done") /\ UNCHANGED vars

Next == Tick \/ (\E r \in Req : Fetch(r) \/ Deliver(r)) \/ Idle

Spec == Init /\ [][Next]_vars

-----------------------------------------------------------------------------
(***************************************************************************)
(* Properties.                                                             *)
(***************************************************************************)
\* The body that belongs in the reply to r: the upstream's, or the url's file.
Body(r) == IF path[r] = Url THEN [i \in 1..MaxSize |-> <<Url, i>>]
           ELSE [i \in 1..size[r] |-> <<r, i>>]

\* The response whose body CommonForwarderImpl::read never reads: it has no
\* Content-Length, and is returned as soon as its header is in.
Unread(r) == forwarder[r] = "flexible" /\ head[r] = "nolength"

\* The body the code means to send: none at all for an unread response.
Due(r) == IF Unread(r) THEN <<>> ELSE Body(r)

\* A reply sent to its end carries exactly the body due to it.  Bytes of another
\* request, or bytes nobody sent, come only if the two requests had one file open
\* at the same time: "tmp", or the temporary file of one second.  Files left
\* behind by earlier requests do no harm.
IntactUnlessShared ==
  \A r \in Req \ shared : result[r] = "ok" => out[r] = Due(r)

\* A reply breaks off before its promised length only if another request
\* truncated the file it was read from, or the file at the url has changed.
CutOnlyIfShared ==
  \A r \in Req : result[r] = "cut" => r \in shared \/ path[r] = Url

\* However files are shared, a reply that is sent to its end has the length of
\* the body due to it: sharing spoils content, never length.  That length is 0
\* for a response without Content-Length relayed by the flexible forwarder
\* (Unread), whatever the upstream sends.
LengthUnaffected ==
  \A r \in Req : result[r] = "ok" => Len(out[r]) = Len(Due(r))

\* An upstream that answers nothing, answers nonsense or breaks off is presented
\* as a success in two cases only: its response is replaced by the url's file
\* (and then a malformed field may follow the fileurl), or it is Unread, and
\* then nothing of its body is waited for.
NoFalseSuccess ==
  \A r \in Req :
    result[r] = "ok" =>
      IF path[r] = Url THEN head[r] \in {"bad", "fileurl"}
      ELSE /\ head[r] \notin {"none", "bad"}
           /\ got[r] = IF Unread(r) THEN 0 ELSE size[r]

\* What the forwarders are said to do: forward the upstream's response to the
\* client (abstractforwarder.hpp:80), receive the response from the target
\* (abstractforwarder.hpp:248).
Relayed == \A r \in Req : result[r] = "ok" => out[r] = Body(r)
=============================================================================

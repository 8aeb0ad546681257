--------------------------- MODULE ForwarderProofs ---------------------------
(***************************************************************************)
(* What the forwarders guarantee for every set of requests, bodies of any  *)
(* length and any upstreams.  The invariant says, for each position of a   *)
(* request, what it knows of its header and, while nobody shares its file, *)
(* what the file and the reply so far contain.                             *)
(***************************************************************************)
EXTENDS Forwarder, TLAPS

\* A request has its file open at these places.
HasOpen(r) == pc[r] \in {"waiting", "receiving", "sending"}

\* What each place implies about the header, the body and the path.
Position(r) ==
  /\ pc[r] \in {"idle", "stamp", "converting", "naming", "url"} => path[r] = Memory
  /\ pc[r] = "opening" => path[r] \in Path /\ (forwarder[r] = "file" => path[r] = Tmp)
  /\ pc[r] = "waiting" => path[r] = IF forwarder[r] = "file" THEN Tmp ELSE Memory
  /\ pc[r] \in {"idle", "stamp", "converting", "naming", "opening", "waiting", "url"} =>
       got[r] = 0
  /\ pc[r] \in {"stamp", "converting", "naming"} => forwarder[r] = "flexible" /\ head[r] = "length"
  /\ pc[r] = "opening" => forwarder[r] = "file" \/ head[r] = "length"
  /\ pc[r] = "receiving" => head[r] \notin {"none", "bad"} /\ path[r] # Url
  /\ pc[r] = "receiving" /\ head[r] = "nolength" => forwarder[r] # "flexible"
  /\ pc[r] = "url" => head[r] \in {"bad", "fileurl"}
  /\ pc[r] \notin {"sending", "done"} => out[r] = <<>>
  /\ result[r] # "pending" => pc[r] = "done"

\* What a response that is being sent, or was sent to its end, rests on.
Answered(r) ==
  pc[r] = "sending" \/ result[r] = "ok" =>
    /\ IF path[r] = Url THEN head[r] \in {"bad", "fileurl"}
       ELSE /\ head[r] \notin {"none", "bad"}
            /\ got[r] = IF Unread(r) THEN 0 ELSE size[r]
    /\ Len(out[r]) <= Promised(r)
    /\ result[r] = "ok" => Len(out[r]) = Promised(r)

\* The reply to r is made of its own body, so far, and has not been cut short,
\* unless it is the url's file.
Own(r) ==
  /\ \A i \in 1..Len(out[r]) : out[r][i] = <<IF path[r] = Url THEN Url ELSE r, i>>
  /\ result[r] = "cut" => path[r] = Url

\* Two requests that hold one file are both known to share it.
SharingKnown ==
  \A r, s \in Req :
    r # s /\ HasOpen(r) /\ HasOpen(s) /\ path[r] \in Path /\ path[s] = path[r] => r \in shared

\* A file nobody shares holds what its request has received.
FileOwn ==
  \A r \in Req \ shared :
    HasOpen(r) /\ path[r] \in Path =>
      /\ Len(file[path[r]]) = got[r]
      /\ \A i \in 1..got[r] : file[path[r]][i] = <<r, i>>

IInv == /\ TypeOK
        /\ \A r \in Req : Position(r) /\ Answered(r)
        /\ \A r \in Req \ shared : Own(r)
        /\ SharingKnown /\ FileOwn

-----------------------------------------------------------------------------
\* Memory, the named file and the url's file are different places.
LEMMA PathsApart ==
  /\ Memory \notin Path /\ Url \notin Path /\ Memory # Url /\ Tmp \in Path
  /\ Second \subseteq Path /\ 0 \in Second
  /\ MaxSize \in Nat /\ 0 \in 0..MaxSize /\ Heads \subseteq HeadKind
BY ForwarderAssumption DEF ForwarderAssumption, Path, Second

\* A chunk written at the end of a file, or beyond it: the file stays a sequence,
\* and one written at the end makes it one longer and changes nothing before.
LEMMA WriteAtType ==
  ASSUME NEW S, NEW s \in Seq(S), NEW i \in Nat \ {0}, NEW x \in S, Hole \in S
  PROVE  /\ WriteAt(s, i, x) \in Seq(S)
         /\ i = Len(s) + 1 =>
              /\ Len(WriteAt(s, i, x)) = i
              /\ \A k \in 1..i : WriteAt(s, i, x)[k] = IF k = i THEN x ELSE s[k]
<1> DEFINE n == IF i > Len(s) THEN i ELSE Len(s)
           t == [k \in 1..n |-> IF k = i THEN x ELSE IF k <= Len(s) THEN s[k] ELSE Hole]
<1>1. n \in Nat /\ Len(s) \in Nat /\ (i = Len(s) + 1 => n = i)
  OBVIOUS
<1>2. \A k \in 1..n : t[k] \in S
  BY <1>1
<1>3. t \in [1..n -> S]
  BY <1>2
<1>4. t \in Seq(S) /\ Len(t) = n
  BY <1>1, <1>3
<1>5. WriteAt(s, i, x) = t
  BY DEF WriteAt
<1> HIDE DEF t
<1>6. i = Len(s) + 1 => \A k \in 1..i : t[k] = IF k = i THEN x ELSE s[k]
  BY <1>1 DEF t
<1>7. QED BY <1>1, <1>4, <1>5, <1>6

-----------------------------------------------------------------------------
(***************************************************************************)
(* Steps of one request, seen from the others.                             *)
(***************************************************************************)
\* Only r's own state changes; it may get to know that its file is shared.
Moves(r) ==
  /\ forwarder' = forwarder /\ shared \subseteq shared'
  /\ \A s \in Req \ {r} :
       /\ pc'[s] = pc[s] /\ head'[s] = head[s] /\ size'[s] = size[s] /\ got'[s] = got[s]
       /\ path'[s] = path[s] /\ out'[s] = out[s] /\ result'[s] = result[s]

\* What is known of the other requests stays true.
LEMMA OthersKeep ==
  ASSUME IInv, NEW r \in Req, Moves(r), NEW s \in Req \ {r}
  PROVE  Position(s)' /\ Answered(s)' /\ (s \notin shared' => Own(s)')
<1>1. Position(s) /\ Answered(s) /\ (s \notin shared' => Own(s))
  BY DEF IInv, Moves
<1>2. QED BY <1>1 DEF Moves, Position, Answered, Own, Promised, Unread

\* Neither do the files change for anyone if r opens and writes none.
LEMMA FilesKeep ==
  ASSUME IInv, NEW r \in Req, Moves(r), UNCHANGED <<file, shared>>,
         HasOpen(r)' /\ path'[r] \in Path =>
           HasOpen(r) /\ path'[r] = path[r] /\ got'[r] = got[r]
  PROVE  SharingKnown' /\ FileOwn'
<1>1. ASSUME NEW s \in Req, HasOpen(s)', path'[s] \in Path
      PROVE  HasOpen(s) /\ path'[s] = path[s] /\ got'[s] = got[s]
  BY <1>1 DEF Moves, HasOpen
<1>2. SharingKnown'
  BY <1>1 DEF IInv, SharingKnown
<1>3. FileOwn'
  <2> SUFFICES ASSUME NEW s \in Req \ shared', HasOpen(s)', path'[s] \in Path
               PROVE  /\ Len(file'[path'[s]]) = got'[s]
                      /\ \A i \in 1..got'[s] : file'[path'[s]][i] = <<s, i>>
    BY DEF FileOwn
  <2>1. HasOpen(s) /\ path'[s] = path[s] /\ got'[s] = got[s] /\ s \notin shared
    BY <1>1
  <2>2. QED BY <2>1 DEF IInv, FileOwn
<1>4. QED BY <1>2, <1>3

\* What is left to show of a step of r.
LEMMA Keeps ==
  ASSUME IInv, NEW r \in Req, Moves(r), TypeOK', Position(r)', Answered(r)',
         r \notin shared' => Own(r)', SharingKnown', FileOwn'
  PROVE  IInv'
BY OthersKeep DEF IInv

\* What IInv says of r itself.
LEMMA Known ==
  ASSUME IInv, NEW r \in Req
  PROVE  TypeOK /\ Position(r) /\ Answered(r) /\ (r \notin shared => Own(r))
BY DEF IInv

-----------------------------------------------------------------------------
(***************************************************************************)
(* The steps.                                                              *)
(***************************************************************************)

\* Nothing is received yet, and the file named tmp is not open yet.
LEMMA BeginKeeps ==
  ASSUME IInv, NEW r \in Req, Begin(r)
  PROVE  IInv'
<1> USE Known, PathsApart DEF Begin, BeginStreamFails, Fail, Goto
<1>1. TypeOK'
  <2>1. CASE BeginStreamFails(r) /\ UNCHANGED path
    BY <2>1 DEF TypeOK, PC, Result
  <2>2. CASE /\ UNCHANGED result
             /\ IF forwarder[r] = "file"
                  THEN Goto(r, "opening") /\ path' = [path EXCEPT ![r] = Tmp]
                  ELSE Goto(r, "waiting") /\ UNCHANGED path
    <3>1. \E p \in {"opening", "waiting"} : pc' = [pc EXCEPT ![r] = p]
      BY <2>2
    <3>2. path' = path \/ path' = [path EXCEPT ![r] = Tmp]
      BY <2>2
    <3>3. path' \in [Req -> Path \cup {Memory, Url}]
      BY <3>2 DEF TypeOK
    <3>4. QED BY <2>2, <3>1, <3>3 DEF TypeOK, PC, Result
  <2>3. QED BY <2>1, <2>2
<1>2. Moves(r)
  BY DEF TypeOK, Moves
<1>3. Position(r)'
  BY DEF TypeOK, Position
<1>4. Answered(r)'
  BY DEF TypeOK, Position, Answered, Promised, Unread
<1>5. r \notin shared' => Own(r)'
  BY DEF TypeOK, Position, Own
<1>6. SharingKnown' /\ FileOwn'
  <2>1. HasOpen(r)' /\ path'[r] \in Path =>
          HasOpen(r) /\ path'[r] = path[r] /\ got'[r] = got[r]
    BY DEF TypeOK, Position, HasOpen
  <2>2. QED BY <1>2, <2>1, FilesKeep
<1>7. QED BY <1>1, <1>2, <1>3, <1>4, <1>5, <1>6, Keeps

\* The header decides where the request goes on.
LEMMA ReadHeaderKeeps ==
  ASSUME IInv, NEW r \in Req, NEW h \in Heads, NEW n \in 0..MaxSize, ReadHeader(r, h, n)
  PROVE  IInv'
<1> USE Known, PathsApart
<1>1. /\ pc[r] = "waiting" /\ head' = [head EXCEPT ![r] = h] /\ size' = [size EXCEPT ![r] = n]
      /\ UNCHANGED <<clock, tm, now, file, forwarder, got, path, out, shared>>
      /\ h \in HeadKind /\ got[r] = 0 /\ out[r] = <<>> /\ result[r] = "pending"
  BY DEF ReadHeader, Position, TypeOK, Result
<1>2. \/ pc' = [pc EXCEPT ![r] = "done"] /\ result' = [result EXCEPT ![r] = "error"]
      \/ /\ result' = result /\ h # "none"
         /\ \/ /\ forwarder[r] = "flexible"
               /\ \/ pc' = [pc EXCEPT ![r] = "url"] /\ h \in {"bad", "fileurl"}
                  \/ pc' = [pc EXCEPT ![r] = "sending"] /\ h = "nolength"
                  \/ pc' = [pc EXCEPT ![r] = "stamp"] /\ h = "length"
                  \/ pc' = [pc EXCEPT ![r] = "receiving"] /\ h = "length"
            \/ pc' = [pc EXCEPT ![r] = "receiving"] /\ h # "bad" /\ forwarder[r] # "flexible"
  BY <1>1 DEF ReadHeader, FlexibleNext, Fail, Goto, HeadKind
<1>3. TypeOK'
  <2>1. /\ \E p \in PC : pc' = [pc EXCEPT ![r] = p]
        /\ result' = result \/ result' = [result EXCEPT ![r] = "error"]
    BY <1>2 DEF PC
  <2>2. pc' \in [Req -> PC] /\ result' \in [Req -> Result]
    BY <2>1 DEF TypeOK, Result
  <2>3. QED BY <1>1, <2>2 DEF TypeOK
<1>4. Moves(r)
  BY <1>1, <1>2 DEF TypeOK, Moves
<1>5. Position(r)'
  <2>1. /\ head'[r] = h /\ path[r] = IF forwarder[r] = "file" THEN Tmp ELSE Memory
        /\ path'[r] = path[r] /\ got'[r] = 0 /\ out'[r] = <<>>
        /\ forwarder'[r] = forwarder[r]
    BY <1>1 DEF TypeOK, Position
  <2>2. \/ pc'[r] = "done"
        \/ /\ result'[r] = "pending" /\ h # "none"
           /\ \/ /\ forwarder[r] = "flexible"
                 /\ \/ pc'[r] = "url" /\ h \in {"bad", "fileurl"}
                    \/ pc'[r] = "sending" /\ h = "nolength"
                    \/ pc'[r] = "stamp" /\ h = "length"
                    \/ pc'[r] = "receiving" /\ h = "length"
              \/ pc'[r] = "receiving" /\ h # "bad" /\ forwarder[r] # "flexible"
    BY <1>1, <1>2 DEF TypeOK
  <2>3. QED BY <2>1, <2>2 DEF Position
<1>6. Answered(r)'
  BY <1>1, <1>2 DEF TypeOK, Position, Answered, Promised, Unread
<1>7. r \notin shared' => Own(r)'
  BY <1>1, <1>2 DEF TypeOK, Position, Own
<1>8. SharingKnown' /\ FileOwn'
  <2>1. HasOpen(r)' /\ path'[r] \in Path =>
          HasOpen(r) /\ path'[r] = path[r] /\ got'[r] = got[r]
    BY <1>1 DEF HasOpen
  <2>2. QED BY <1>1, <1>4, <2>1, FilesKeep
<1>9. QED BY <1>3, <1>4, <1>5, <1>6, <1>7, <1>8, Keeps

\* The clock is read.
LEMMA NowKeeps ==
  ASSUME IInv, NEW r \in Req, Now(r)
  PROVE  IInv'
<1> USE Known, PathsApart DEF Now, Goto
<1>1. TypeOK'
  BY DEF TypeOK, PC, Result
<1>2. Moves(r)
  BY DEF TypeOK, Moves
<1>3. Position(r)'
  BY DEF TypeOK, Position
<1>4. Answered(r)'
  BY DEF TypeOK, Position, Answered, Promised, Unread
<1>5. r \notin shared' => Own(r)'
  BY DEF TypeOK, Position, Own
<1>6. SharingKnown' /\ FileOwn'
  <2>1. HasOpen(r)' /\ path'[r] \in Path =>
          HasOpen(r) /\ path'[r] = path[r] /\ got'[r] = got[r]
    BY DEF TypeOK, Position, HasOpen
  <2>2. QED BY <1>2, <2>1, FilesKeep
<1>7. QED BY <1>1, <1>2, <1>3, <1>4, <1>5, <1>6, Keeps

\* The time read is written to tm.
LEMMA LocalTimeKeeps ==
  ASSUME IInv, NEW r \in Req, LocalTime(r)
  PROVE  IInv'
<1> USE Known, PathsApart DEF LocalTime, Goto
<1>1. TypeOK'
  BY DEF TypeOK, PC, Result
<1>2. Moves(r)
  BY DEF TypeOK, Moves
<1>3. Position(r)'
  BY DEF TypeOK, Position
<1>4. Answered(r)'
  BY DEF TypeOK, Position, Answered, Promised, Unread
<1>5. r \notin shared' => Own(r)'
  BY DEF TypeOK, Position, Own
<1>6. SharingKnown' /\ FileOwn'
  <2>1. HasOpen(r)' /\ path'[r] \in Path =>
          HasOpen(r) /\ path'[r] = path[r] /\ got'[r] = got[r]
    BY DEF TypeOK, Position, HasOpen
  <2>2. QED BY <1>2, <2>1, FilesKeep
<1>7. QED BY <1>1, <1>2, <1>3, <1>4, <1>5, <1>6, Keeps

\* The file is named, not opened.
LEMMA NameFileKeeps ==
  ASSUME IInv, NEW r \in Req, NameFile(r)
  PROVE  IInv'
<1> USE Known, PathsApart DEF NameFile, Goto
<1>1. TypeOK'
  BY DEF TypeOK, PC, Result
<1>2. Moves(r)
  BY DEF TypeOK, Moves
<1>3. Position(r)'
  BY DEF TypeOK, Position
<1>4. Answered(r)'
  BY DEF TypeOK, Position, Answered, Promised, Unread
<1>5. r \notin shared' => Own(r)'
  BY DEF TypeOK, Position, Own
<1>6. SharingKnown' /\ FileOwn'
  <2>1. HasOpen(r)' /\ path'[r] \in Path =>
          HasOpen(r) /\ path'[r] = path[r] /\ got'[r] = got[r]
    BY DEF TypeOK, Position, HasOpen
  <2>2. QED BY <1>2, <2>1, FilesKeep
<1>7. QED BY <1>1, <1>2, <1>3, <1>4, <1>5, <1>6, Keeps

\* The whole body has come.
LEMMA ReceiveDoneKeeps ==
  ASSUME IInv, NEW r \in Req, ReceiveDone(r)
  PROVE  IInv'
<1> USE Known, PathsApart DEF ReceiveDone, Goto
<1>1. TypeOK'
  BY DEF TypeOK, PC, Result
<1>2. Moves(r)
  BY DEF TypeOK, Moves
<1>3. Position(r)'
  BY DEF TypeOK, Position
<1>4. Answered(r)'
  BY DEF TypeOK, Position, Answered, Promised, Unread
<1>5. r \notin shared' => Own(r)'
  BY DEF TypeOK, Position, Own
<1>6. SharingKnown' /\ FileOwn'
  <2>1. HasOpen(r)' /\ path'[r] \in Path =>
          HasOpen(r) /\ path'[r] = path[r] /\ got'[r] = got[r]
    BY DEF TypeOK, Position, HasOpen
  <2>2. QED BY <1>2, <2>1, FilesKeep
<1>7. QED BY <1>1, <1>2, <1>3, <1>4, <1>5, <1>6, Keeps

\* A body that breaks off becomes an error.
LEMMA ReceiveFailsKeeps ==
  ASSUME IInv, NEW r \in Req, ReceiveFails(r)
  PROVE  IInv'
<1> USE Known, PathsApart DEF ReceiveFails, OnReadError, Fail, Goto
<1>1. TypeOK'
  BY DEF TypeOK, PC, Result
<1>2. Moves(r)
  BY DEF TypeOK, Moves
<1>3. Position(r)'
  BY DEF TypeOK, Position
<1>4. Answered(r)'
  BY DEF TypeOK, Position, Answered, Promised, Unread
<1>5. r \notin shared' => Own(r)'
  BY DEF TypeOK, Position, Own
<1>6. SharingKnown' /\ FileOwn'
  <2>1. HasOpen(r)' /\ path'[r] \in Path =>
          HasOpen(r) /\ path'[r] = path[r] /\ got'[r] = got[r]
    BY DEF TypeOK, Position, HasOpen
  <2>2. QED BY <1>2, <2>1, FilesKeep
<1>7. QED BY <1>1, <1>2, <1>3, <1>4, <1>5, <1>6, Keeps

\* The url's file takes the place of the body.
LEMMA OpenUrlKeeps ==
  ASSUME IInv, NEW r \in Req, OpenUrl(r)
  PROVE  IInv'
<1> USE Known, PathsApart DEF OpenUrl, Fail, Goto
<1>1. TypeOK'
  BY DEF TypeOK, PC, Result
<1>2. Moves(r)
  BY DEF TypeOK, Moves
<1>3. Position(r)'
  BY DEF TypeOK, Position
<1>4. Answered(r)'
  <2>1. out' = out /\ out[r] = <<>> /\ head' = head /\ head[r] \in {"bad", "fileurl"} /\ result[r] = "pending"
    BY DEF TypeOK, Position, Result
  <2>2. CASE path' = [path EXCEPT ![r] = Url]
    BY <2>1, <2>2 DEF TypeOK, Answered, Promised
  <2>3. CASE pc' = [pc EXCEPT ![r] = "done"] /\ result' = [result EXCEPT ![r] = "error"]
    BY <2>1, <2>3 DEF TypeOK, Answered
  <2>4. QED BY <2>2, <2>3
<1>5. r \notin shared' => Own(r)'
  <2>1. out' = out /\ out[r] = <<>> /\ result[r] = "pending" /\ result'[r] # "cut"
    BY DEF TypeOK, Position, Result
  <2>2. QED BY <2>1 DEF Own
<1>6. SharingKnown' /\ FileOwn'
  <2>1. HasOpen(r)' /\ path'[r] \in Path =>
          HasOpen(r) /\ path'[r] = path[r] /\ got'[r] = got[r]
    BY DEF TypeOK, Position, HasOpen
  <2>2. QED BY <1>2, <2>1, FilesKeep
<1>7. QED BY <1>1, <1>2, <1>3, <1>4, <1>5, <1>6, Keeps

\* The reply is complete.
LEMMA SendDoneKeeps ==
  ASSUME IInv, NEW r \in Req, SendDone(r)
  PROVE  IInv'
<1> USE Known, PathsApart DEF SendDone, Goto
<1>1. TypeOK'
  BY DEF TypeOK, PC, Result
<1>2. Moves(r)
  BY DEF TypeOK, Moves
<1>3. Position(r)'
  BY DEF TypeOK, Position
<1>4. Answered(r)'
  BY DEF TypeOK, Position, Answered, Promised, Unread
<1>5. r \notin shared' => Own(r)'
  BY DEF TypeOK, Position, Own
<1>6. SharingKnown' /\ FileOwn'
  <2>1. HasOpen(r)' /\ path'[r] \in Path =>
          HasOpen(r) /\ path'[r] = path[r] /\ got'[r] = got[r]
    BY DEF TypeOK, Position, HasOpen
  <2>2. QED BY <1>2, <2>1, FilesKeep
<1>7. QED BY <1>1, <1>2, <1>3, <1>4, <1>5, <1>6, Keeps

\* The client is gone.
LEMMA AbandonKeeps ==
  ASSUME IInv, NEW r \in Req, Abandon(r)
  PROVE  IInv'
<1> USE Known, PathsApart DEF Abandon, Goto
<1>1. TypeOK'
  BY DEF TypeOK, PC, Result
<1>2. Moves(r)
  BY DEF TypeOK, Moves
<1>3. Position(r)'
  BY DEF TypeOK, Position
<1>4. Answered(r)'
  BY DEF TypeOK, Position, Answered, Promised, Unread
<1>5. r \notin shared' => Own(r)'
  BY DEF TypeOK, Position, Own
<1>6. SharingKnown' /\ FileOwn'
  <2>1. HasOpen(r)' /\ path'[r] \in Path =>
          HasOpen(r) /\ path'[r] = path[r] /\ got'[r] = got[r]
    BY DEF TypeOK, Position, HasOpen
  <2>2. QED BY <1>2, <2>1, FilesKeep
<1>7. QED BY <1>1, <1>2, <1>3, <1>4, <1>5, <1>6, Keeps

\* An opened file is empty, and whoever else has it open is now known to share it.
LEMMA OpenKeeps ==
  ASSUME IInv, NEW r \in Req, Open(r)
  PROVE  IInv'
<1> USE Known, PathsApart
<1>1. /\ pc[r] = "opening" /\ path[r] \in Path /\ got[r] = 0 /\ out[r] = <<>>
      /\ result[r] = "pending" /\ ~HasOpen(r)
      /\ UNCHANGED <<clock, tm, now, forwarder, head, size, got, path, out>>
  BY DEF Open, Position, TypeOK, Result, HasOpen
<1>2. CASE Fail(r) /\ UNCHANGED <<file, shared>>
  <2>1. pc' = [pc EXCEPT ![r] = "done"] /\ result' = [result EXCEPT ![r] = "error"]
    BY <1>2 DEF Fail, Goto
  <2>2. TypeOK' /\ Moves(r)
    BY <1>1, <1>2, <2>1 DEF TypeOK, PC, Result, Moves
  <2>3. Position(r)' /\ Answered(r)' /\ Own(r)'
    BY <1>1, <2>1 DEF TypeOK, Position, Answered, Own
  <2>4. ~HasOpen(r)'
    BY <2>1 DEF TypeOK, HasOpen
  <2>5. QED BY <1>2, <2>2, <2>3, <2>4, FilesKeep, Keeps
<1>3. CASE /\ Goto(r, IF forwarder[r] = "file" THEN "waiting" ELSE "receiving")
           /\ file' = [file EXCEPT ![path[r]] = <<>>]
           /\ shared' = IF Holders(path[r]) = {} THEN shared
                        ELSE shared \cup Holders(path[r]) \cup {r}
           /\ UNCHANGED result
  <2>1. \/ forwarder[r] = "file" /\ pc' = [pc EXCEPT ![r] = "waiting"]
        \/ forwarder[r] # "file" /\ pc' = [pc EXCEPT ![r] = "receiving"]
    BY <1>3 DEF Goto
  <2>2. /\ \A s \in Req \ {r} : HasOpen(s) /\ path[s] = path[r] => s \in shared' /\ r \in shared'
        /\ shared \subseteq shared' /\ shared' \subseteq Req
    BY <1>3 DEF TypeOK, Holders, HasOpen
  <2>3. TypeOK'
    <3>1. pc' \in [Req -> PC]
      BY <2>1 DEF TypeOK, PC
    <3>2. file' \in [Path -> Seq(Chunk)]
      <4>1. <<>> \in Seq(Chunk)
        OBVIOUS
      <4>2. QED BY <1>3, <4>1 DEF TypeOK
    <3>3. QED BY <1>1, <1>3, <2>2, <3>1, <3>2 DEF TypeOK
  <2>4. Moves(r)
    BY <1>1, <1>3, <2>1, <2>2 DEF TypeOK, Moves
  <2>5. Position(r)' /\ Answered(r)' /\ Own(r)'
    BY <1>1, <1>3, <2>1 DEF TypeOK, Position, Answered, Own
  <2>6. SharingKnown'
    BY <1>1, <2>2, <2>4 DEF IInv, SharingKnown, HasOpen, Moves
  <2>7. FileOwn'
    <3> SUFFICES ASSUME NEW s \in Req \ shared', HasOpen(s)', path'[s] \in Path
                 PROVE  /\ Len(file'[path'[s]]) = got'[s]
                        /\ \A i \in 1..got'[s] : file'[path'[s]][i] = <<s, i>>
      BY DEF FileOwn
    <3>1. CASE s = r
      BY <1>1, <1>3, <3>1 DEF TypeOK
    <3>2. CASE s # r
      <4>1. HasOpen(s) /\ path[s] # path[r] /\ s \notin shared
        BY <1>1, <2>2, <2>4, <3>2 DEF Moves, HasOpen
      <4>2. file'[path'[s]] = file[path[s]]
        BY <1>1, <1>3, <4>1 DEF TypeOK
      <4>3. QED BY <1>1, <4>1, <4>2 DEF IInv, FileOwn
    <3>3. QED BY <3>1, <3>2
  <2>8. QED BY <2>3, <2>4, <2>5, <2>6, <2>7, Keeps
<1>4. QED BY <1>2, <1>3 DEF Open

\* A chunk goes to the end of the request's own file, or into a shared one.
LEMMA ReceiveChunkKeeps ==
  ASSUME IInv, NEW r \in Req, ReceiveChunk(r)
  PROVE  IInv'
<1> USE Known, PathsApart
<1> DEFINE n == got[r] + 1
<1>1. /\ pc[r] = "receiving" /\ got[r] \in Nat /\ n <= size[r] /\ size[r] <= MaxSize
      /\ got' = [got EXCEPT ![r] = n]
      /\ out[r] = <<>> /\ result[r] = "pending" /\ path[r] \in Path \cup {Memory}
      /\ UNCHANGED <<clock, tm, now, pc, forwarder, head, size, path, out, result, shared>>
      /\ \/ path[r] = Memory /\ file' = file
         \/ /\ path[r] \in Path
            /\ file' = [file EXCEPT ![path[r]] = WriteAt(file[path[r]], n, <<r, n>>)]
  BY DEF ReceiveChunk, MoreToCome, Position, TypeOK
<1>2. <<r, n>> \in Chunk /\ Hole \in Chunk /\ n \in Nat \ {0}
  <2>1. size[r] \in Nat /\ n \in 1..MaxSize
    BY <1>1 DEF TypeOK
  <2>2. QED BY <2>1 DEF Chunk
<1> DEFINE f == file[path[r]]
           g == WriteAt(f, n, <<r, n>>)
<1>3. ASSUME path[r] \in Path
      PROVE  /\ g \in Seq(Chunk)
             /\ n = Len(f) + 1 =>
                  Len(g) = n /\ \A k \in 1..n : g[k] = IF k = n THEN <<r, n>> ELSE f[k]
  <2>1. f \in Seq(Chunk)
    BY <1>3 DEF TypeOK
  <2> DEFINE x == <<r, n>>
  <2>2. x \in Chunk /\ Hole \in Chunk /\ n \in Nat \ {0}
    BY <1>2
  <2> HIDE DEF n, f, x
  <2>3. /\ WriteAt(f, n, x) \in Seq(Chunk)
        /\ n = Len(f) + 1 =>
             /\ Len(WriteAt(f, n, x)) = n
             /\ \A k \in 1..n : WriteAt(f, n, x)[k] = IF k = n THEN x ELSE f[k]
    BY ONLY <2>1, <2>2, WriteAtType
  <2>4. QED BY <2>3 DEF x
<1> HIDE DEF n
<1>4. TypeOK'
  <2>1. file' \in [Path -> Seq(Chunk)]
    BY <1>1, <1>3 DEF TypeOK
  <2>2. got' \in [Req -> 0..MaxSize] /\ \A s \in Req : got'[s] <= size'[s]
    BY <1>1, <1>2 DEF TypeOK
  <2>3. QED BY <1>1, <2>1, <2>2 DEF TypeOK
<1>5. Moves(r)
  BY <1>1 DEF TypeOK, Moves
<1>6. Position(r)' /\ Answered(r)' /\ Own(r)'
  BY <1>1 DEF TypeOK, Position, Answered, Own
<1>7. SharingKnown'
  BY <1>1 DEF IInv, SharingKnown, HasOpen
<1>8. FileOwn'
  <2> SUFFICES ASSUME NEW s \in Req \ shared', HasOpen(s)', path'[s] \in Path
               PROVE  /\ Len(file'[path'[s]]) = got'[s]
                      /\ \A i \in 1..got'[s] : file'[path'[s]][i] = <<s, i>>
    BY DEF FileOwn
  <2>1. /\ HasOpen(s) /\ path[s] \in Path /\ s \notin shared
        /\ Len(file[path[s]]) = got[s]
        /\ \A i \in 1..got[s] : file[path[s]][i] = <<s, i>>
    BY <1>1 DEF IInv, FileOwn, HasOpen
  <2>2. CASE s = r
    <3>1. n = Len(file[path[r]]) + 1 /\ got'[s] = n /\ file'[path'[s]] = WriteAt(file[path[r]], n, <<r, n>>)
      BY <1>1, <2>1, <2>2 DEF TypeOK, n
    <3>2. \A k \in 1..n : k = n \/ k \in 1..got[r]
      BY <1>1 DEF n
    <3>3. QED BY <1>3, <2>1, <2>2, <3>1, <3>2
  <2>3. CASE s # r
    <3>1. path[s] # path[r]
      BY <1>1, <2>1, <2>3 DEF IInv, SharingKnown, HasOpen
    <3>2. file'[path'[s]] = file[path[s]] /\ got'[s] = got[s]
      BY <1>1, <2>1, <2>3, <3>1 DEF TypeOK
    <3>3. QED BY <2>1, <3>2
  <2>4. QED BY <2>2, <2>3
<1>9. QED BY <1>4, <1>5, <1>6, <1>7, <1>8, Keeps

\* The next chunk of the reply is the next one of the body, unless the file is
\* shared.
LEMMA SendChunkKeeps ==
  ASSUME IInv, NEW r \in Req, SendChunk(r)
  PROVE  IInv'
<1> USE Known, PathsApart
<1> DEFINE i == Len(out[r]) + 1
<1>1. /\ pc[r] = "sending" /\ result[r] = "pending"
      /\ out[r] \in Seq(Chunk) /\ Len(out[r]) \in Nat /\ i <= Promised(r) /\ i \in 1..MaxSize
      /\ UNCHANGED <<clock, tm, now, file, pc, forwarder, head, size, got, path, result, shared>>
  <2>1. Promised(r) \in 0..MaxSize
    BY DEF TypeOK, Promised
  <2>2. QED BY <2>1 DEF SendChunk, TypeOK, Position, Result
<1>2. PICK x \in Chunk :
        /\ out' = [out EXCEPT ![r] = Append(out[r], x)]
        /\ r \notin shared => x = <<IF path[r] = Url THEN Url ELSE r, i>>
  <2>1. CASE path[r] = Memory /\ out' = [out EXCEPT ![r] = Append(@, <<r, i>>)]
    BY <1>1, <2>1 DEF Chunk
  <2>2. CASE path[r] = Url /\ out' = [out EXCEPT ![r] = Append(@, <<Url, i>>)]
    BY <1>1, <2>2 DEF Chunk
  <2>3. CASE /\ path[r] \in Path /\ i <= Len(file[path[r]])
             /\ out' = [out EXCEPT ![r] = Append(@, file[path[r]][i])]
    <3>1. file[path[r]] \in Seq(Chunk) /\ file[path[r]][i] \in Chunk
      BY <1>1, <2>3 DEF TypeOK
    <3>2. r \notin shared => i \in 1..got[r] /\ file[path[r]][i] = <<r, i>>
      BY <1>1, <2>3 DEF IInv, FileOwn, HasOpen, TypeOK
    <3>3. QED BY <2>3, <3>1, <3>2
  <2>4. QED BY <2>1, <2>2, <2>3 DEF SendChunk, NextToSend
<1>3. /\ out'[r] = Append(out[r], x) /\ out'[r] \in Seq(Chunk) /\ Len(out'[r]) = i
      /\ \A k \in 1..i : out'[r][k] = IF k = i THEN x ELSE out[r][k]
  BY <1>1, <1>2 DEF TypeOK
<1>4. TypeOK'
  BY <1>1, <1>2, <1>3 DEF TypeOK
<1>5. Moves(r)
  BY <1>1, <1>2 DEF TypeOK, Moves
<1>6. Position(r)' /\ Answered(r)'
  BY <1>1, <1>3 DEF Position, Answered, Promised, Unread
<1>7. r \notin shared' => Own(r)'
  BY <1>1, <1>2, <1>3 DEF Own
<1>8. SharingKnown' /\ FileOwn'
  BY <1>1, <1>5, FilesKeep DEF HasOpen
<1>9. QED BY <1>4, <1>5, <1>6, <1>7, <1>8, Keeps

\* Only a shared file, or the url's, comes up short.
LEMMA ShortReadKeeps ==
  ASSUME IInv, NEW r \in Req, ShortRead(r)
  PROVE  IInv'
<1> USE Known, PathsApart
<1>1. /\ pc[r] = "sending" /\ Len(out[r]) \in Nat
      /\ \/ path[r] = Url
         \/ /\ path[r] \in Path /\ Len(out[r]) < got[r]
            /\ Len(out[r]) + 1 > Len(file[path[r]])
      /\ pc' = [pc EXCEPT ![r] = "done"] /\ result' = [result EXCEPT ![r] = "cut"]
      /\ UNCHANGED <<clock, tm, now, file, forwarder, head, size, got, path, out, shared>>
  BY DEF ShortRead, NextToSend, Goto, Promised, TypeOK
<1>2. r \in shared \/ path[r] = Url
  BY <1>1 DEF IInv, FileOwn, HasOpen, TypeOK
<1>3. TypeOK' /\ Moves(r)
  BY <1>1 DEF TypeOK, PC, Result, Moves
<1>4. Position(r)' /\ Answered(r)'
  BY <1>1 DEF TypeOK, Position, Answered
<1>5. r \notin shared' => Own(r)'
  BY <1>1, <1>2 DEF TypeOK, Own
<1>6. SharingKnown' /\ FileOwn'
  <2>1. ~HasOpen(r)'
    BY <1>1 DEF TypeOK, HasOpen
  <2>2. QED BY <1>1, <1>3, <2>1, FilesKeep
<1>7. QED BY <1>1, <1>3, <1>4, <1>5, <1>6, Keeps

-----------------------------------------------------------------------------
(***************************************************************************)
(* The theorems.                                                           *)
(***************************************************************************)
\* At first every request is idle and every file empty.
LEMMA InitInv == Init => IInv
<1> SUFFICES ASSUME Init PROVE IInv
  OBVIOUS
<1>1. TypeOK
  BY PathsApart, ForwarderAssumption
     DEF Init, TypeOK, PC, Result, HeadKind, ForwarderAssumption
<1>2. QED
  BY <1>1, PathsApart DEF Init, IInv, Position, Answered, Own, SharingKnown, FileOwn, HasOpen

\* Every step of every request preserves the invariant.
LEMMA StepInv == IInv /\ [Next]_vars => IInv'
<1> SUFFICES ASSUME IInv, [Next]_vars PROVE IInv'
  OBVIOUS
<1>1. ASSUME NEW r \in Req, Fetch(r)
      PROVE  IInv'
  BY <1>1, BeginKeeps, OpenKeeps, ReadHeaderKeeps, NowKeeps, LocalTimeKeeps,
     NameFileKeeps, ReceiveChunkKeeps, ReceiveDoneKeeps, ReceiveFailsKeeps, OpenUrlKeeps
     DEF Fetch
<1>2. ASSUME NEW r \in Req, Deliver(r)
      PROVE  IInv'
  BY <1>2, SendChunkKeeps, SendDoneKeeps, ShortReadKeeps, AbandonKeeps DEF Deliver
<1>3. CASE Tick \/ UNCHANGED vars
  <2>1. /\ clock' \in Second
        /\ UNCHANGED <<tm, now, file, pc, forwarder, head, size, got, path, out, result, shared>>
    BY <1>3, ForwarderAssumption DEF Tick, vars, IInv, TypeOK, Second, ForwarderAssumption
  <2>2. QED
    BY <2>1 DEF IInv, TypeOK, Position, Answered, Own, SharingKnown, FileOwn, HasOpen,
                Promised, Unread
<1>4. QED BY <1>1, <1>2, <1>3 DEF Next, Idle

\* A reply that was sent to its end has the length of the body due to it, and if
\* no file was shared it is that body.
LEMMA SentWhole ==
  ASSUME IInv, NEW r \in Req, result[r] = "ok"
  PROVE  /\ Len(out[r]) = Len(Due(r))
         /\ r \notin shared => out[r] = Due(r)
<1> DEFINE n == IF path[r] = Url THEN MaxSize ELSE IF Unread(r) THEN 0 ELSE size[r]
           who == IF path[r] = Url THEN Url ELSE r
<1>1. /\ Len(out[r]) = n /\ n \in Nat /\ out[r] \in Seq(Chunk)
      /\ Unread(r) => n = 0
  <2>1. TypeOK /\ Answered(r) /\ MaxSize \in Nat /\ size[r] \in Nat
    BY PathsApart DEF IInv, TypeOK
  <2>2. path[r] = Url => ~Unread(r)
    BY <2>1 DEF Answered, Unread
  <2>3. Len(out[r]) = n
    BY <2>1 DEF Answered, Promised
  <2>4. QED BY <2>1, <2>2, <2>3 DEF TypeOK
<1>2. r \notin shared => \A i \in 1..n : out[r][i] = <<who, i>>
  BY <1>1 DEF IInv, Own
<1>3. Due(r) = [i \in 1..n |-> <<who, i>>]
  <2>1. CASE Unread(r)
    <3>1. n = 0 /\ Due(r) = <<>>
      BY <1>1, <2>1 DEF Due
    <3> HIDE DEF n, who
    <3>2. QED BY <3>1
  <2>2. CASE ~Unread(r)
    BY <2>2 DEF Due, Body
  <2>3. QED BY <2>1, <2>2
<1> HIDE DEF n, who
<1>4. Len(Due(r)) = n
  BY <1>1, <1>3
<1>5. out[r] = [i \in 1..n |-> out[r][i]]
  BY <1>1
<1>6. QED BY <1>1, <1>2, <1>3, <1>4, <1>5

\* The invariant holds in every state the forwarders can reach.
THEOREM Invariance == Spec => []IInv
BY InitInv, StepInv, PTL DEF Spec

\* The state keeps its types: in particular no more is received than the
\* upstream sends, and every file is a sequence of chunks.
THEOREM TypeCorrect == Spec => []TypeOK
<1>1. IInv => TypeOK
  BY DEF IInv
<1>2. QED BY <1>1, Invariance, PTL

\* Whatever the interleaving, a reply sent to its end is the body due to it unless
\* its file was open twice at once.
THEOREM Intact == Spec => []IntactUnlessShared
<1>1. IInv => IntactUnlessShared
  BY SentWhole DEF IntactUnlessShared
<1>2. QED BY <1>1, Invariance, PTL

\* A reply breaks off only if its file was open twice at once, or is the url's.
THEOREM Uncut == Spec => []CutOnlyIfShared
<1>1. IInv => CutOnlyIfShared
  BY DEF IInv, Own, CutOnlyIfShared
<1>2. QED BY <1>1, Invariance, PTL

\* However files are shared, a complete reply has the length of the body due to
\* it: none of the upstream's body if that is left unread, all of it otherwise.
THEOREM SharingKeepsLength == Spec => []LengthUnaffected
<1>1. IInv => LengthUnaffected
  BY SentWhole DEF LengthUnaffected
<1>2. QED BY <1>1, Invariance, PTL

\* No failure of an upstream is presented as a success, but where the url's file
\* replaces its response or its body is never waited for.
THEOREM SuccessIsTrue == Spec => []NoFalseSuccess
<1>1. IInv => NoFalseSuccess
  BY DEF IInv, Answered, NoFalseSuccess
<1>2. QED BY <1>1, Invariance, PTL
=============================================================================

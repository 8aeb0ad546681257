------------------------ MODULE Base64FileBodyProofs ------------------------
(***************************************************************************)
(* The arithmetic of the base64 body for files and buffers of any size.    *)
(***************************************************************************)
EXTENDS Base64FileBody, TLAPS

\* Encoding a file in two pieces takes no less room than encoding it whole,
\* and as much when the first piece ends with a group of three.
LEMMA EncodedInPieces ==
  ASSUME NEW a \in Nat, NEW b \in Nat
  PROVE  /\ Encoded(a) \in Nat
         /\ Encoded(a + b) <= Encoded(a) + Encoded(b)
         /\ a % 3 = 0 => Encoded(a + b) = Encoded(a) + Encoded(b)
<1> DEFINE p == (a + 2) \div 3
           q == (b + 2) \div 3
           t == (a + b + 2) \div 3
<1>1. p \in Nat /\ q \in Nat /\ t \in Nat
  OBVIOUS
<1>2. t <= p + q
  OBVIOUS
<1>3. a % 3 = 0 => t = p + q
  OBVIOUS
<1> HIDE DEF p, q, t
<1>4. Encoded(a) = 4 * p /\ Encoded(b) = 4 * q /\ Encoded(a + b) = 4 * t
  BY DEF Encoded, p, q, t
<1>5. QED BY <1>1, <1>2, <1>3, <1>4

\* What has been sent is what the bytes read so far take, or more.
Sent ==
  /\ Encoded(pos) <= wire
  /\ reads = "full" /\ BufferSize % 3 = 0 => wire = Encoded(pos) /\ (pos % 3 = 0 \/ pos = size)
  /\ reads = "full" /\ size <= BufferSize => wire = Encoded(pos) /\ pos \in {0, size}

IInv == TypeOK /\ Sent /\ ChunkFits

LEMMA InitInv == Init => IInv
<1> SUFFICES ASSUME Init PROVE IInv
  OBVIOUS
<1>1. Encoded(0) = 0
  BY DEF Encoded
<1>2. QED BY <1>1, Base64Assumption DEF Init, IInv, TypeOK, Sent, ChunkFits

\* A get that reads n bytes keeps the account of what was sent.
LEMMA StepInv == IInv /\ [Next]_vars => IInv'
<1> SUFFICES ASSUME IInv, [Next]_vars PROVE IInv'
  OBVIOUS
<1> USE Base64Assumption
<1>1. TypeOK /\ Sent /\ ChunkFits /\ pos \in Nat /\ size \in Nat /\ disk \in Nat /\ wire \in Nat
  BY DEF IInv, TypeOK
<1>2. CASE UNCHANGED vars
  BY <1>1, <1>2 DEF IInv, TypeOK, Sent, ChunkFits, Encoded, vars
<1>3. ASSUME NEW n \in 0..MaxSize, Resize(n)
      PROVE  IInv'
  BY <1>1, <1>3 DEF Resize, IInv, TypeOK, Sent, ChunkFits, Encoded
<1>4. CASE Get
  <2>1. CASE UNCHANGED <<pos, chunk, wire, reads, size, disk>>
    <3>1. state' \in {"sending", "done", "failed"} /\ (state' = "done" => pos = size)
      BY <1>1, <1>4, <2>1 DEF Get, OnShortRead, Amount, TypeOK
    <3>2. QED BY <1>1, <2>1, <3>1 DEF IInv, TypeOK, Sent, ChunkFits, Encoded
  <2>2. CASE Amount > 0 /\ Available > 0
    <3> DEFINE n == Available
    <3>1. /\ n \in Nat /\ n > 0 /\ n <= BufferSize /\ pos + n <= size
          /\ n < Amount \/ n = BufferSize \/ pos + n = size
      BY <1>1, <2>2 DEF Available, Amount
    <3>2. /\ pos' = pos + n /\ chunk' = Encoded(n) /\ wire' = wire + Encoded(n)
          /\ reads' = IF n < Amount THEN "torn" ELSE reads
          /\ UNCHANGED <<size, disk>>
          /\ state' = IF pos' < size THEN "sending" ELSE "done"
      BY <1>4, <2>2 DEF Get
    <3>3. Encoded(n) \in Nat /\ Encoded(n) <= 2 * BufferSize
      BY <3>1 DEF Encoded
    <3>4. TypeOK'
      BY <1>1, <3>1, <3>2, <3>3 DEF TypeOK
    <3> HIDE DEF n
    <3>5. /\ Encoded(pos + n) <= Encoded(pos) + Encoded(n)
          /\ pos % 3 = 0 => Encoded(pos + n) = Encoded(pos) + Encoded(n)
          /\ Encoded(pos) \in Nat /\ Encoded(pos + n) \in Nat /\ Encoded(0) = 0
      <4>1. Encoded(0) = 0
        BY DEF Encoded
      <4>2. pos + n \in Nat
        BY <1>1, <3>1
      <4>3. QED BY <1>1, <3>1, <4>1, <4>2, EncodedInPieces
    <3>6. Encoded(pos') <= wire'
      BY <1>1, <3>2, <3>3, <3>5 DEF Sent
    <3>7. ASSUME reads' = "full", BufferSize % 3 = 0
          PROVE  wire' = Encoded(pos') /\ (pos' % 3 = 0 \/ pos' = size')
      <4>1. wire = Encoded(pos) /\ pos % 3 = 0
        BY <1>1, <3>1, <3>2, <3>7 DEF Sent
      <4>2. wire' = Encoded(pos')
        BY <3>2, <3>5, <4>1
      <4>3. n = BufferSize \/ pos' = size'
        BY <3>1, <3>2, <3>7
      <4>4. (pos + BufferSize) % 3 = 0
        BY <1>1, <3>7, <4>1
      <4>5. QED BY <3>2, <4>2, <4>3, <4>4
    <3>8. ASSUME reads' = "full", size <= BufferSize
          PROVE  wire' = Encoded(pos') /\ pos' \in {0, size'}
      <4>1. wire = Encoded(pos) /\ pos = 0
        BY <1>1, <3>1, <3>2, <3>8 DEF Sent
      <4>2. wire' = Encoded(pos')
        BY <3>1, <3>2, <3>3, <3>5, <4>1
      <4>3. pos' = size'
        BY <1>1, <3>1, <3>2, <3>8, <4>1
      <4>4. QED BY <4>2, <4>3
    <3>9. QED BY <3>2, <3>3, <3>4, <3>6, <3>7, <3>8 DEF IInv, Sent, ChunkFits
  <2>3. Amount \in Nat /\ Available \in Nat
    BY <1>1 DEF TypeOK, Amount, Available
  <2>4. QED BY <1>4, <2>1, <2>2, <2>3 DEF Get
<1>5. QED BY <1>2, <1>3, <1>4 DEF Next, Ended

-----------------------------------------------------------------------------
(***************************************************************************)
(* The theorems.                                                           *)
(***************************************************************************)
\* The account of what was sent holds in every state.
THEOREM Invariance == Spec => []IInv
BY InitInv, StepInv, PTL DEF Spec

\* The state keeps its types, and no byte past the declared size is read.
THEOREM TypeCorrect == Spec => []TypeOK
<1>1. IInv => TypeOK
  BY DEF IInv
<1>2. QED BY <1>1, Invariance, PTL

\* buf_ never overflows, whatever the buffer size from two bytes on.
THEOREM BufferHolds == Spec => []ChunkFits
<1>1. IInv => ChunkFits
  BY DEF IInv
<1>2. QED BY <1>1, Invariance, PTL

\* A complete response never has fewer characters than its Content-Length.
THEOREM LongEnough == Spec => []NeverTooShort
<1>1. IInv => NeverTooShort
  BY DEF IInv, TypeOK, Sent, NeverTooShort, Declared, Encoded
<1>2. QED BY <1>1, Invariance, PTL

\* Content-Length is exact for one buffer, or for buffers that are a multiple
\* of three bytes.
THEOREM LengthExact == Spec => []ExactWhenAligned
<1>1. IInv => ExactWhenAligned
  BY DEF IInv, TypeOK, Sent, ExactWhenAligned, Declared, Encoded
<1>2. QED BY <1>1, Invariance, PTL
=============================================================================

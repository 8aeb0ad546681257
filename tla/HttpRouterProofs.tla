-------------------------- MODULE HttpRouterProofs --------------------------
(***************************************************************************)
(* What dispatch owes to registration, and a handler's parameters to the   *)
(* request, for any patterns, paths and number of handlers.  That dispatch *)
(* is right holds whatever request_mapper takes to be equal; the types,    *)
(* the parameters and that no request is lost rest on what its matching    *)
(* computes, which is proved first.                                        *)
(***************************************************************************)
EXTENDS HttpRouter, SequenceTheorems, WellFoundedInduction, TLAPS

Registration == [path : Pattern, method : Method, body : Body]
Entry == [path : Pattern, method : Method, handler : Nat]

\* An entry of a map leads to one of the registrations ws, for its verb, whose
\* path is the entry's key or was found equal to it.
Sound(e, ws) ==
  /\ e.handler \in 1..Len(ws)
  /\ LET w == ws[e.handler] IN
     w.method = e.method /\ (w.path = e.path \/ Equals(e.path, w.path))

Tables ==
  /\ wanted \in Seq(Registration)
  /\ handlers \in [Maps -> Seq(Entry)]
  /\ \A m \in Maps : \A i \in 1..Len(handlers[m]) : Sound(handlers[m][i], wanted)

\* Nothing has run before the server starts.
IInv == Tables /\ RunsForItsKey /\ (phase = "registering" => reply.outcome = "none")

-----------------------------------------------------------------------------
(***************************************************************************)
(* Numbers, and functions that are defined from one number to the next.    *)
(***************************************************************************)
\* A set of numbers has a least one.
LEMMA Least ==
  ASSUME NEW S \in SUBSET Nat, S # {}
  PROVE  \E n \in S : \A m \in S : n <= m
<1>1. PICK n \in S : \A m \in S : ~(<<m, n>> \in OpToRel(<, Nat))
  BY WFMin, NatLessThanWellFounded
<1>2. OpToRel(<, Nat) = {ss \in Nat \X Nat : ss[1] < ss[2]}
  BY DEF OpToRel
<1>3. ASSUME NEW m \in S PROVE n <= m
  <2>1. <<m, n>> \notin {ss \in Nat \X Nat : ss[1] < ss[2]}
    BY <1>1, <1>2
  <2>2. QED BY <2>1
<1>4. QED BY <1>3

\* A set that contains 0, and each successor of its members, contains Nat.
LEMMA Induction ==
  ASSUME NEW S, 0 \in S, \A n \in Nat : n \in S => n + 1 \in S
  PROVE  \A n \in Nat : n \in S
<1> SUFFICES ASSUME Nat \ S # {} PROVE FALSE
  OBVIOUS
<1>1. PICK n \in Nat \ S : \A m \in Nat \ S : n <= m
  BY Least
<1>2. n - 1 \in Nat /\ n - 1 \notin Nat \ S
  BY <1>1
<1>3. QED BY <1>1, <1>2

\* f on b..n begins with a and goes on by step.
Recursive(f, b, n, S, a, step) ==
  f \in [b..n -> S] /\ \A i \in b..n : f[i] = IF i = b THEN a ELSE step[i][f[i - 1]]

\* There is such a function.
LEMMA Recursion ==
  ASSUME NEW b \in Nat, NEW S, NEW a \in S, NEW step \in [Nat -> [S -> S]], NEW n \in Nat
  PROVE  \E f : Recursive(f, b, n, S, a, step)
<1> DEFINE Good == {k \in Nat : \E f : Recursive(f, b, k, S, a, step)}
<1>1. 0 \in Good
  <2> DEFINE f == [i \in b..0 |-> a]
  <2>1. Recursive(f, b, 0, S, a, step)
    BY DEF Recursive
  <2> HIDE DEF f
  <2>2. QED BY <2>1
<1>2. ASSUME NEW k \in Nat, k \in Good PROVE k + 1 \in Good
  <2>1. PICK f : Recursive(f, b, k, S, a, step)
    BY <1>2
  <2> DEFINE g == [i \in b..(k + 1) |-> IF i <= k THEN f[i]
                                        ELSE IF i = b THEN a ELSE step[i][f[i - 1]]]
  <2>2. g \in [b..(k + 1) -> S]
    <3>1. ASSUME NEW i \in b..(k + 1)
          PROVE  (IF i <= k THEN f[i] ELSE IF i = b THEN a ELSE step[i][f[i - 1]]) \in S
      <4>1. CASE i <= k
        BY <2>1, <4>1 DEF Recursive
      <4>2. CASE i = k + 1 /\ i # b
        <5>1. i - 1 \in b..k /\ i \in Nat /\ step[i] \in [S -> S]
          BY <4>2
        <5>2. f[i - 1] \in S
          BY <2>1, <5>1 DEF Recursive
        <5>3. QED BY <4>2, <5>1, <5>2
      <4>3. QED BY <4>1, <4>2
    <3>2. QED BY <3>1
  <2>3. ASSUME NEW i \in b..(k + 1)
        PROVE  g[i] = IF i = b THEN a ELSE step[i][g[i - 1]]
    <3>1. i # b => i - 1 \in b..k /\ g[i - 1] = f[i - 1]
      OBVIOUS
    <3>2. i <= k => g[i] = f[i] /\ i \in b..k
      OBVIOUS
    <3>3. ~(i <= k) => g[i] = IF i = b THEN a ELSE step[i][f[i - 1]]
      OBVIOUS
    <3> HIDE DEF g
    <3>4. QED BY <2>1, <3>1, <3>2, <3>3 DEF Recursive
  <2> HIDE DEF g
  <2>4. Recursive(g, b, k + 1, S, a, step)
    BY <2>2, <2>3 DEF Recursive
  <2>5. QED BY <2>4
<1> HIDE DEF Good
<1>3. n \in Good
  BY <1>1, <1>2, Induction
<1>4. QED BY <1>3 DEF Good
-----------------------------------------------------------------------------
(***************************************************************************)
(* The recursive functions of the matching are what their equations say.   *)
(***************************************************************************)
\* What patterns are made of.
T == Text \cup Var

CutStep(p, i, before) ==
  IF p[i] \in Var THEN Append(before, <<>>)
  ELSE [before EXCEPT ![Len(before)] = Append(@, p[i])]

\* A {name} ends the piece it follows, text goes on with it.
LEMMA CutIs ==
  ASSUME NEW p \in Seq(T)
  PROVE  \A i \in 0..Len(p) : Cut(p)[i] = IF i = 0 THEN << <<>> >> ELSE CutStep(p, i, Cut(p)[i - 1])
<1> DEFINE S == Seq(Seq(T))
           F(f) == [i \in 0..Len(p) |->
                      IF i = 0 THEN << <<>> >>
                      ELSE LET before == f[i - 1] IN
                           IF p[i] \in Var THEN Append(before, <<>>)
                           ELSE [before EXCEPT ![Len(before)] = Append(@, p[i])]]
           step == [i \in Nat |-> [c \in S |-> IF i \in 1..Len(p) THEN CutStep(p, i, c) ELSE c]]
<1>1. step \in [Nat -> [S -> S]]
  <2>1. ASSUME NEW i \in 1..Len(p), NEW c \in S PROVE CutStep(p, i, c) \in S
    <3>1. CASE p[i] \in Var
      <4>1. <<>> \in Seq(T)
        OBVIOUS
      <4>2. QED BY <3>1, <4>1 DEF CutStep
    <3>2. CASE p[i] \notin Var /\ Len(c) \notin DOMAIN c
      <4>1. [c EXCEPT ![Len(c)] = Append(@, p[i])] = c
        BY <3>2
      <4>2. QED BY <3>2, <4>1 DEF CutStep
    <3>3. CASE p[i] \notin Var /\ Len(c) \in DOMAIN c
      <4>1. Append(c[Len(c)], p[i]) \in Seq(T)
        BY <3>3
      <4>2. QED BY <3>3, <4>1 DEF CutStep
    <3>4. QED BY <3>1, <3>2, <3>3
  <2>2. QED BY <2>1
<1>2. Len(p) \in Nat /\ << <<>> >> \in S
  OBVIOUS
<1>3. PICK f : Recursive(f, 0, Len(p), S, << <<>> >>, step)
  <2> HIDE DEF step, S
  <2>1. QED BY <1>1, <1>2, Recursion
<1>4. /\ f \in [0..Len(p) -> S]
      /\ \A i \in 0..Len(p) :
           f[i] = IF i = 0 THEN << <<>> >> ELSE CutStep(p, i, f[i - 1])
  <2> HIDE DEF S, step
  <2>1. ASSUME NEW i \in 0..Len(p), i # 0 PROVE step[i][f[i - 1]] = CutStep(p, i, f[i - 1])
    <3>1. f[i - 1] \in S /\ i \in 1..Len(p)
      BY <1>2, <1>3, <2>1 DEF Recursive
    <3>2. QED BY <3>1 DEF step
  <2>2. QED BY <1>3, <2>1 DEF Recursive
<1>5. f = F(f)
  BY <1>4 DEF CutStep
<1>6. Cut(p) = CHOOSE g : g = F(g)
  BY DEF Cut
<1> HIDE DEF F
<1>7. Cut(p) = F(Cut(p))
  BY <1>5, <1>6
<1>8. QED BY <1>7 DEF F, CutStep

NamedStep(p, i, before) == IF p[i] \in Var THEN Append(before, p[i]) ELSE before

\* get_matched collects the {names} in their order.
LEMMA NamedIs ==
  ASSUME NEW p \in Seq(T)
  PROVE  \A i \in 0..Len(p) : Named(p)[i] = IF i = 0 THEN <<>> ELSE NamedStep(p, i, Named(p)[i - 1])
<1> DEFINE S == Seq(Var)
           F(f) == [i \in 0..Len(p) |->
                      IF i = 0 THEN <<>>
                      ELSE IF p[i] \in Var THEN Append(f[i - 1], p[i]) ELSE f[i - 1]]
           step == [i \in Nat |-> [c \in S |-> IF i \in 1..Len(p) THEN NamedStep(p, i, c) ELSE c]]
<1>1. step \in [Nat -> [S -> S]]
  BY DEF NamedStep
<1>2. Len(p) \in Nat /\ <<>> \in S
  OBVIOUS
<1>3. PICK f : Recursive(f, 0, Len(p), S, <<>>, step)
  <2> HIDE DEF step, S
  <2>1. QED BY <1>1, <1>2, Recursion
<1>4. /\ f \in [0..Len(p) -> S]
      /\ \A i \in 0..Len(p) : f[i] = IF i = 0 THEN <<>> ELSE NamedStep(p, i, f[i - 1])
  <2> HIDE DEF S, step
  <2>1. ASSUME NEW i \in 0..Len(p), i # 0 PROVE step[i][f[i - 1]] = NamedStep(p, i, f[i - 1])
    <3>1. f[i - 1] \in S /\ i \in 1..Len(p)
      BY <1>2, <1>3, <2>1 DEF Recursive
    <3>2. QED BY <3>1 DEF step
  <2>2. QED BY <1>3, <2>1 DEF Recursive
<1>5. f = F(f)
  BY <1>4 DEF NamedStep
<1>6. Named(p) = CHOOSE g : g = F(g)
  BY DEF Named
<1> HIDE DEF F
<1>7. Named(p) = F(Named(p))
  BY <1>5, <1>6
<1>8. QED BY <1>7 DEF F, NamedStep

-----------------------------------------------------------------------------
(***************************************************************************)
(* A pattern is its pieces, with one {name} after each but the last.       *)
(***************************************************************************)
\* Piece k of cs stands at at[k] in p, a {name} stands between two pieces, and
\* the last one ends at i.
Spread(p, cs, at, i) ==
  /\ cs \in Seq(Seq(Text)) /\ Len(cs) \in Nat \ {0}
  /\ at \in [1..Len(cs) -> Nat \ {0}] /\ at[1] = 1
  /\ \A k \in 1..Len(cs) : \A j \in 1..Len(cs[k]) : p[at[k] + j - 1] = cs[k][j]
  /\ \A k \in 2..Len(cs) : at[k] = at[k - 1] + Len(cs[k - 1]) + 1 /\ p[at[k] - 1] \in Var
  /\ at[Len(cs)] + Len(cs[Len(cs)]) = i + 1

\* One part more: a {name} opens an empty piece, text lengthens the last.
LEMMA SpreadStep ==
  ASSUME NEW p \in Seq(T), NEW cs, NEW at, NEW i \in Nat, i + 1 <= Len(p), Spread(p, cs, at, i)
  PROVE  \E new : Spread(p, CutStep(p, i + 1, cs), new, i + 1)
<1>0. PICK n : n = Len(cs)
  OBVIOUS
<1>1. /\ cs \in Seq(Seq(Text)) /\ n \in Nat \ {0} /\ at \in [1..n -> Nat \ {0}]
      /\ cs[n] \in Seq(Text) /\ at[n] \in Nat \ {0} /\ at[n] + Len(cs[n]) = i + 1
      /\ p[i + 1] \in T /\ n \in 1..n
      /\ \A k \in 1..n : cs[k] \in Seq(Text) /\ Len(cs[k]) \in Nat
  BY <1>0 DEF Spread
<1>a. \A k \in 1..n : \A j \in 1..Len(cs[k]) : p[at[k] + j - 1] = cs[k][j]
  BY <1>0 DEF Spread
<1>b. \A k \in 2..n : at[k] = at[k - 1] + Len(cs[k - 1]) + 1 /\ p[at[k] - 1] \in Var
  BY <1>0 DEF Spread
<1>2. CASE p[i + 1] \in Var
  <2> DEFINE new == [k \in 1..(n + 1) |-> IF k = n + 1 THEN i + 2 ELSE at[k]]
             ds == Append(cs, <<>>)
  <2>1. /\ ds \in Seq(Seq(Text)) /\ Len(ds) = n + 1 /\ ds[n + 1] = <<>>
        /\ \A k \in 1..n : ds[k] = cs[k]
    <3>1. <<>> \in Seq(Text)
      OBVIOUS
    <3>2. QED BY <1>0, <1>1, <3>1
  <2>2. /\ new \in [1..(n + 1) -> Nat \ {0}] /\ new[n + 1] = i + 2
        /\ \A k \in 1..n : new[k] = at[k]
    BY <1>1
  <2> HIDE DEF new, ds
  <2>3. new[1] = 1
    BY <1>1, <2>2 DEF Spread
  <2>4. ASSUME NEW k \in 1..(n + 1), NEW j \in 1..Len(ds[k]) PROVE p[new[k] + j - 1] = ds[k][j]
    <3>1. k \in 1..n
      BY <1>1, <2>1, <2>4
    <3>2. QED BY <1>a, <2>1, <2>2, <2>4, <3>1
  <2>5. ASSUME NEW k \in 2..(n + 1)
        PROVE  new[k] = new[k - 1] + Len(ds[k - 1]) + 1 /\ p[new[k] - 1] \in Var
    <3>1. CASE k = n + 1
      <4>1. k - 1 = n
        BY <1>1, <3>1
      <4>2. new[k - 1] = at[n] /\ ds[k - 1] = cs[n] /\ new[k] = i + 2
        BY <1>1, <2>1, <2>2, <3>1, <4>1
      <4>3. QED BY <1>1, <1>2, <4>2
    <3>2. CASE k # n + 1
      <4>1. k \in 2..n /\ k \in 1..n /\ k - 1 \in 1..n
        BY <1>1, <3>2
      <4>2. QED BY <1>b, <2>1, <2>2, <4>1
    <3>3. QED BY <3>1, <3>2
  <2>6. new[n + 1] + Len(ds[n + 1]) = i + 2
    BY <2>1, <2>2
  <2>7. Spread(p, ds, new, i + 1)
    <3>1. Len(ds) \in Nat \ {0}
      BY <1>1, <2>1
    <3>2. \A k \in 1..(n + 1) : \A j \in 1..Len(ds[k]) : p[new[k] + j - 1] = ds[k][j]
      BY <2>4
    <3>3. \A k \in 2..(n + 1) : new[k] = new[k - 1] + Len(ds[k - 1]) + 1 /\ p[new[k] - 1] \in Var
      BY <2>5
    <3>4. new[n + 1] + Len(ds[n + 1]) = i + 1 + 1
      BY <1>1, <2>6
    <3>5. QED BY <2>1, <2>2, <2>3, <3>1, <3>2, <3>3, <3>4 DEF Spread
  <2>8. CutStep(p, i + 1, cs) = ds
    BY <1>0, <1>2 DEF CutStep, ds
  <2>9. QED BY <2>7, <2>8
<1>3. CASE p[i + 1] \notin Var
  <2> DEFINE ds == [cs EXCEPT ![n] = Append(cs[n], p[i + 1])]
  <2>1. /\ ds \in Seq(Seq(Text)) /\ Len(ds) = n /\ ds[n] = Append(cs[n], p[i + 1])
        /\ \A k \in 1..n : k # n => ds[k] = cs[k]
    <3>1. Append(cs[n], p[i + 1]) \in Seq(Text)
      BY <1>1, <1>3 DEF T
    <3>2. QED BY <1>0, <1>1, <3>1
  <2>2. /\ Len(ds[n]) = Len(cs[n]) + 1 /\ ds[n][Len(cs[n]) + 1] = p[i + 1]
        /\ \A j \in 1..Len(cs[n]) : ds[n][j] = cs[n][j]
    <3>1. p[i + 1] \in Text
      BY <1>1, <1>3 DEF T
    <3>2. QED BY <1>1, <2>1, <3>1
  <2> HIDE DEF ds
  <2>3. ASSUME NEW k \in 1..n, NEW j \in 1..Len(ds[k]) PROVE p[at[k] + j - 1] = ds[k][j]
    <3>1. CASE k = n /\ j = Len(cs[n]) + 1
      BY <1>1, <2>2, <3>1
    <3>2. CASE k = n /\ j # Len(cs[n]) + 1
      <4>1. j \in 1..(Len(cs[n]) + 1) /\ Len(cs[n]) \in Nat
        BY <1>1, <2>2, <2>3, <3>2
      <4>2. j \in 1..Len(cs[n])
        BY <3>2, <4>1
      <4>3. QED BY <1>1, <1>a, <2>2, <3>2, <4>2
    <3>3. CASE k # n
      BY <1>a, <2>1, <2>3, <3>3
    <3>4. QED BY <3>1, <3>2, <3>3
  <2>4. ASSUME NEW k \in 2..n
        PROVE  at[k] = at[k - 1] + Len(ds[k - 1]) + 1 /\ p[at[k] - 1] \in Var
    <3>1. k - 1 \in 1..n /\ k - 1 # n
      BY <1>1
    <3>2. QED BY <1>b, <2>1, <3>1
  <2>5. at[n] + Len(ds[n]) = i + 2
    <3>1. at[n] \in Nat /\ Len(cs[n]) \in Nat
      BY <1>1
    <3>2. at[n] + Len(cs[n]) = i + 1
      BY <1>1
    <3>3. PICK a \in Nat, l \in Nat : a = at[n] /\ l = Len(cs[n])
      BY <3>1
    <3>4. a + l = i + 1
      BY <3>2, <3>3
    <3>5. Len(ds[n]) = l + 1
      BY <2>2, <3>3
    <3>6. a + (l + 1) = i + 2
      BY <3>4
    <3>7. QED BY <3>3, <3>5, <3>6
  <2>6. Spread(p, ds, at, i + 1)
    <3>1. \A k \in 1..n : \A j \in 1..Len(ds[k]) : p[at[k] + j - 1] = ds[k][j]
      BY <2>3
    <3>2. \A k \in 2..n : at[k] = at[k - 1] + Len(ds[k - 1]) + 1 /\ p[at[k] - 1] \in Var
      BY <2>4
    <3>3. at[n] + Len(ds[n]) = i + 1 + 1 /\ at[1] = 1
      BY <1>1, <2>5 DEF Spread
    <3>4. QED BY <1>1, <2>1, <3>1, <3>2, <3>3 DEF Spread
  <2>7. CutStep(p, i + 1, cs) = ds
    BY <1>0, <1>3 DEF CutStep, ds
  <2>8. QED BY <2>6, <2>7
<1>4. QED BY <1>2, <1>3

\* Cutting finds the pieces, and one {name} less.
LEMMA CutSpreads ==
  ASSUME NEW p \in Seq(T), NEW e \in 0..Len(p)
  PROVE  /\ \E at : Spread(p, Cut(p)[e], at, e)
         /\ Named(p)[e] \in Seq(Var) /\ Len(Named(p)[e]) = Len(Cut(p)[e]) - 1
<1> DEFINE Good == {i \in Nat : i <= Len(p) =>
                      /\ \E at : Spread(p, Cut(p)[i], at, i)
                      /\ Named(p)[i] \in Seq(Var) /\ Len(Named(p)[i]) = Len(Cut(p)[i]) - 1}
<1>1. 0 \in Good
  <2> DEFINE c == << <<>> >>
  <2>1. Cut(p)[0] = c /\ Named(p)[0] = <<>>
    BY CutIs, NamedIs
  <2>2. c \in Seq(Seq(Text)) /\ Len(c) = 1 /\ c[1] = <<>>
    OBVIOUS
  <2> HIDE DEF c
  <2>3. Spread(p, c, [k \in 1..1 |-> 1], 0)
    BY <2>2 DEF Spread
  <2>4. \E at : Spread(p, Cut(p)[0], at, 0)
    BY <2>1, <2>3
  <2>5. Named(p)[0] \in Seq(Var) /\ Len(Named(p)[0]) = Len(Cut(p)[0]) - 1
    BY <2>1, <2>2
  <2>6. QED BY <2>4, <2>5
<1>2. ASSUME NEW i \in Nat, i \in Good PROVE i + 1 \in Good
  <2> SUFFICES ASSUME i + 1 <= Len(p)
               PROVE  /\ \E at : Spread(p, Cut(p)[i + 1], at, i + 1)
                      /\ Named(p)[i + 1] \in Seq(Var)
                      /\ Len(Named(p)[i + 1]) = Len(Cut(p)[i + 1]) - 1
    OBVIOUS
  <2>1. PICK at : Spread(p, Cut(p)[i], at, i)
    BY <1>2
  <2>2. Named(p)[i] \in Seq(Var) /\ Len(Named(p)[i]) = Len(Cut(p)[i]) - 1
    BY <1>2
  <2>3. /\ Cut(p)[i + 1] = CutStep(p, i + 1, Cut(p)[i])
        /\ Named(p)[i + 1] = NamedStep(p, i + 1, Named(p)[i])
    BY CutIs, NamedIs
  <2>4. \E new : Spread(p, Cut(p)[i + 1], new, i + 1)
    BY <2>1, <2>3, SpreadStep
  <2>5. Cut(p)[i] \in Seq(Seq(Text)) /\ Len(Cut(p)[i]) \in Nat \ {0}
    BY <2>1 DEF Spread
  <2>6. PICK c : c = Cut(p)[i]
    OBVIOUS
  <2>7. PICK d : d = Named(p)[i]
    OBVIOUS
  <2>8. CASE p[i + 1] \in Var
    <3>1. Cut(p)[i + 1] = Append(c, <<>>) /\ Named(p)[i + 1] = Append(d, p[i + 1])
      BY <2>3, <2>6, <2>7, <2>8 DEF CutStep, NamedStep
    <3>2. Len(Append(c, <<>>)) = Len(c) + 1
      BY <2>5, <2>6
    <3>3. Len(Append(d, p[i + 1])) = Len(d) + 1 /\ Append(d, p[i + 1]) \in Seq(Var)
      BY <2>2, <2>7, <2>8
    <3>4. QED BY <2>2, <2>4, <2>5, <2>6, <2>7, <3>1, <3>2, <3>3
  <2>9. CASE p[i + 1] \notin Var
    <3> DEFINE longer == [c EXCEPT ![Len(c)] = Append(@, p[i + 1])]
    <3>1. Cut(p)[i + 1] = longer /\ Named(p)[i + 1] = d
      BY <2>3, <2>6, <2>7, <2>9 DEF CutStep, NamedStep
    <3>2. Len(longer) = Len(c)
      BY <2>5, <2>6
    <3>3. QED BY <2>2, <2>4, <2>6, <2>7, <3>1, <3>2
  <2>10. QED BY <2>8, <2>9
<1> HIDE DEF Good
<1>3. e \in Good
  BY <1>1, <1>2, Induction
<1>4. QED BY <1>3 DEF Good

\* The pieces of a pattern are text, and there is one at least.  Unless it ends
\* in a {name} they are all that stands between its {names}.
LEMMA PiecesAre ==
  ASSUME NEW p \in Seq(T)
  PROVE  /\ Pieces(p) \in Seq(Seq(Text)) /\ Len(Pieces(p)) \in Nat \ {0}
         /\ EndsInText(p) => /\ \E at : Spread(p, Pieces(p), at, Len(p))
                             /\ Len(Names(p)) = Len(Pieces(p)) - 1
         /\ Len(Pieces(p)) > 1 /\ EndsInText(p) => Pieces(p)[Len(Pieces(p))] # <<>>
         /\ Names(p) \in Seq(Var)
<1>0. Len(p) \in 0..Len(p)
  OBVIOUS
<1>1. PICK all : all = Cut(p)[Len(p)]
  OBVIOUS
<1>2. PICK at : Spread(p, all, at, Len(p))
  BY <1>0, <1>1, CutSpreads
<1>3. PICK m \in Nat \ {0} : m = Len(all)
  BY <1>2 DEF Spread
<1>4. all \in Seq(Seq(Text)) /\ Names(p) \in Seq(Var) /\ Len(Names(p)) = m - 1
  BY <1>0, <1>1, <1>2, <1>3, CutSpreads DEF Spread, Names
<1>5. CASE m > 1 /\ all[m] = <<>>
  <2>1. Pieces(p) = SubSeq(all, 1, m - 1)
    BY <1>1, <1>3, <1>5 DEF Pieces
  <2>2. \A i \in 1..(m - 1) : all[i] \in Seq(Text)
    BY <1>3, <1>4
  <2>3. Pieces(p) \in Seq(Seq(Text)) /\ Len(Pieces(p)) = m - 1
    BY <1>5, <2>1, <2>2, SubSeqProperties
  <2>4. ~EndsInText(p)
    <3>1. /\ \A k \in 2..m : at[k] = at[k - 1] + Len(all[k - 1]) + 1 /\ p[at[k] - 1] \in Var
          /\ at \in [1..m -> Nat \ {0}] /\ at[m] + Len(all[m]) = Len(p) + 1
      BY <1>2, <1>3 DEF Spread
    <3>2. m \in 2..m /\ m \in 1..m /\ m - 1 \in 1..m /\ Len(all[m]) = 0 /\ Len(p) \in Nat
      BY <1>5
    <3>3. /\ at[m] = at[m - 1] + Len(all[m - 1]) + 1 /\ p[at[m] - 1] \in Var
          /\ at[m - 1] \in Nat \ {0} /\ at[m] \in Nat /\ at[m] = Len(p) + 1
      BY <3>1, <3>2
    <3>4. Len(all[m - 1]) \in Nat
      BY <1>3, <1>4, <1>5
    <3>5. p # <<>>
      BY <3>2, <3>3, <3>4
    <3>6. p[Len(p)] \in Var
      BY <3>2, <3>3
    <3>7. QED BY <3>5, <3>6 DEF EndsInText
  <2>5. QED BY <1>4, <1>5, <2>3, <2>4
<1>6. CASE ~(m > 1 /\ all[m] = <<>>)
  <2>1. Pieces(p) = all
    BY <1>1, <1>3, <1>6 DEF Pieces
  <2>2. QED BY <1>2, <1>3, <1>4, <1>6, <2>1
<1>7. QED BY <1>5, <1>6

-----------------------------------------------------------------------------
(***************************************************************************)
(* Finding the pieces in a path.                                           *)
(***************************************************************************)
\* x stands at i in u.
LEMMA AtIs ==
  ASSUME NEW u \in Seq(T), NEW x \in Seq(T), NEW i \in Nat \ {0}
  PROVE  At(u, x, i) <=> /\ i + Len(x) - 1 <= Len(u)
                         /\ \A j \in 1..Len(x) : u[i + j - 1] = x[j]
<1> SUFFICES ASSUME i + Len(x) - 1 <= Len(u)
             PROVE  SubSeq(u, i, i + Len(x) - 1) = x <=> \A j \in 1..Len(x) : u[i + j - 1] = x[j]
  BY DEF At
<1>1. PICK n \in Nat : n = Len(x)
  OBVIOUS
<1>2. PICK s : s = SubSeq(u, i, i + n - 1)
  OBVIOUS
<1>3. \A j \in i..(i + n - 1) : u[j] \in T
  BY <1>1
<1>4. /\ s \in Seq(T) /\ Len(s) = IF i <= i + n - 1 THEN (i + n - 1) - i + 1 ELSE 0
      /\ \A j \in 1..((i + n - 1) - i + 1) : s[j] = u[i + j - 1]
  BY <1>1, <1>2, <1>3, SubSeqProperties
<1>5. Len(s) = n /\ \A j \in 1..n : s[j] = u[i + j - 1]
  BY <1>4
<1>6. s = x <=> \A j \in 1..n : s[j] = x[j]
  BY <1>1, <1>4, <1>5, SeqEqual
<1>7. QED BY <1>1, <1>2, <1>5, <1>6

\* find returns the first place, from i on, at which x stands, or 0.
LEMMA FindIs ==
  ASSUME NEW u \in Seq(T), NEW x, NEW i \in Nat \ {0}
  PROVE  /\ Find(u, x, i) \in Nat
         /\ Find(u, x, i) = 0 => \A j \in i..(Len(u) + 1) : ~At(u, x, j)
         /\ Find(u, x, i) # 0 => /\ Find(u, x, i) \in i..(Len(u) + 1) /\ At(u, x, Find(u, x, i))
                                 /\ \A j \in i..(Len(u) + 1) : At(u, x, j) => Find(u, x, i) <= j
<1> DEFINE hits == {j \in i..(Len(u) + 1) : At(u, x, j)}
<1>1. CASE hits = {}
  BY <1>1 DEF Find
<1>2. CASE hits # {}
  <2>1. hits \in SUBSET Nat
    OBVIOUS
  <2>2. \E j \in hits : \A k \in hits : j <= k
    <3> HIDE DEF hits
    <3>1. QED BY <1>2, <2>1, Least
  <2>3. Find(u, x, i) = CHOOSE j \in hits : \A k \in hits : j <= k
    BY <1>2 DEF Find
  <2>4. Find(u, x, i) \in hits /\ \A k \in hits : Find(u, x, i) <= k
    BY <2>2, <2>3
  <2>5. \A j \in hits : j # 0
    OBVIOUS
  <2>6. QED BY <2>1, <2>4, <2>5
<1>3. QED BY <1>1, <1>2

PlaceStep(p, u, n, before) ==
  IF before = 0 THEN 0 ELSE Find(u, Pieces(p)[n], before + Len(Pieces(p)[n - 1]))

\* Each piece is sought from the end of the one before, if that was found.
LEMMA PlacesIs ==
  ASSUME NEW p \in Seq(T), NEW u \in Seq(T)
  PROVE  /\ Places(p, u) \in [1..Len(Pieces(p)) -> Nat]
         /\ \A n \in 1..Len(Pieces(p)) :
              Places(p, u)[n] = IF n = 1 THEN Find(u, Pieces(p)[1], 1)
                                ELSE PlaceStep(p, u, n, Places(p, u)[n - 1])
<1> DEFINE ps == Pieces(p)
           F(f) == [n \in 1..Len(ps) |->
                      IF n = 1 THEN Find(u, ps[1], 1)
                      ELSE LET before == f[n - 1] IN
                           IF before = 0 THEN 0 ELSE Find(u, ps[n], before + Len(ps[n - 1]))]
           step == [n \in Nat |-> [c \in Nat |->
                      IF n \in 2..Len(ps) THEN PlaceStep(p, u, n, c) ELSE c]]
<1>1. ps \in Seq(Seq(Text)) /\ Len(ps) \in Nat \ {0}
  BY PiecesAre
<1> HIDE DEF ps
<1>2. step \in [Nat -> [Nat -> Nat]]
  <2>1. ASSUME NEW n \in 2..Len(ps), NEW c \in Nat PROVE PlaceStep(p, u, n, c) \in Nat
    <3>1. CASE c = 0
      BY <3>1 DEF PlaceStep
    <3>2. CASE c # 0
      <4>1. n - 1 \in 1..Len(ps)
        OBVIOUS
      <4>2. Len(ps[n - 1]) \in Nat
        BY <1>1, <4>1
      <4>3. c + Len(ps[n - 1]) \in Nat \ {0}
        BY <3>2, <4>2
      <4>4. QED BY <3>2, <4>3, FindIs DEF PlaceStep, ps
    <3>3. QED BY <3>1, <3>2
  <2>2. QED BY <2>1
<1>3. Find(u, ps[1], 1) \in Nat
  BY FindIs
<1>4. PICK f : Recursive(f, 1, Len(ps), Nat, Find(u, ps[1], 1), step)
  <2> HIDE DEF step
  <2>1. QED BY <1>1, <1>2, <1>3, Recursion
<1>5. /\ f \in [1..Len(ps) -> Nat]
      /\ \A n \in 1..Len(ps) :
           f[n] = IF n = 1 THEN Find(u, ps[1], 1) ELSE PlaceStep(p, u, n, f[n - 1])
  <2> HIDE DEF step
  <2>1. ASSUME NEW n \in 1..Len(ps), n # 1 PROVE step[n][f[n - 1]] = PlaceStep(p, u, n, f[n - 1])
    <3>1. n - 1 \in 1..Len(ps) /\ n \in 2..Len(ps) /\ n \in Nat
      BY <1>1, <2>1
    <3>2. f \in [1..Len(ps) -> Nat]
      BY <1>4 DEF Recursive
    <3>3. f[n - 1] \in Nat
      BY <3>1, <3>2
    <3>4. QED BY <3>1, <3>3 DEF step
  <2>2. QED BY <1>4, <2>1 DEF Recursive
<1>6. f = F(f)
  BY <1>5 DEF PlaceStep, ps
<1>7. Places(p, u) = CHOOSE g : g = F(g)
  BY DEF Places, ps
<1> HIDE DEF F
<1>8. Places(p, u) = F(Places(p, u))
  BY <1>6, <1>7
<1>9. PICK at : at = Places(p, u)
  OBVIOUS
<1>10. \A n \in 1..Len(ps) :
         at[n] = IF n = 1 THEN Find(u, ps[1], 1) ELSE PlaceStep(p, u, n, at[n - 1])
  BY <1>8, <1>9 DEF F, PlaceStep, ps
<1>11. at = [n \in 1..Len(ps) |-> at[n]]
  BY <1>8, <1>9 DEF F
<1>12. \A n \in 1..Len(ps) : at[n] \in Nat
  <2> DEFINE Good == {n \in Nat : n + 1 <= Len(ps) => at[n + 1] \in Nat}
  <2>1. 0 \in Good
    BY <1>1, <1>3, <1>10
  <2>2. ASSUME NEW n \in Nat, n \in Good PROVE n + 1 \in Good
    <3> SUFFICES ASSUME n + 2 <= Len(ps) PROVE at[n + 2] \in Nat
      OBVIOUS
    <3>1. /\ at[n + 1] \in Nat /\ n + 2 \in 1..Len(ps) /\ n + 2 \in Nat
          /\ n + 2 # 1 /\ n + 2 - 1 = n + 1
      BY <1>1, <2>2
    <3>2. at[n + 2] = PlaceStep(p, u, n + 2, at[n + 1])
      BY <1>10, <3>1
    <3>3. n + 2 \in 2..Len(ps)
      BY <1>1
    <3>4. step[n + 2][at[n + 1]] = PlaceStep(p, u, n + 2, at[n + 1])
      BY <3>1, <3>3
    <3> HIDE DEF step
    <3>5. step[n + 2][at[n + 1]] \in Nat
      BY <1>2, <3>1
    <3>6. QED BY <3>2, <3>4, <3>5
  <2> HIDE DEF Good
  <2>3. \A n \in Nat : n \in Good
    BY <2>1, <2>2, Induction
  <2>4. ASSUME NEW n \in 1..Len(ps) PROVE at[n] \in Nat
    <3>1. n - 1 \in Good /\ n - 1 + 1 = n /\ n <= Len(ps)
      BY <2>3
    <3>2. QED BY <3>1 DEF Good
  <2>5. QED BY <2>4
<1>13. QED BY <1>9, <1>10, <1>11, <1>12 DEF ps

\* If the last piece is found then each is, where the one before has ended or
\* further on.
LEMMA PlacesFound ==
  ASSUME NEW p \in Seq(T), NEW u \in Seq(T), Places(p, u)[Len(Pieces(p))] # 0
  PROVE  \A k \in 1..Len(Pieces(p)) :
           /\ Places(p, u)[k] \in 1..(Len(u) + 1)
           /\ At(u, Pieces(p)[k], Places(p, u)[k])
           /\ Places(p, u)[k] + Len(Pieces(p)[k]) - 1 <= Len(u)
           /\ k > 1 => Places(p, u)[k - 1] + Len(Pieces(p)[k - 1]) <= Places(p, u)[k]
<1>1. PICK ps : ps = Pieces(p)
  OBVIOUS
<1>2. PICK n : n = Len(ps)
  OBVIOUS
<1>3. PICK at : at = Places(p, u)
  OBVIOUS
<1>4. ps \in Seq(Seq(Text)) /\ n \in Nat \ {0} /\ \A k \in 1..n : Len(ps[k]) \in Nat
  BY <1>1, <1>2, PiecesAre
<1>5. /\ \A k \in 1..n : at[k] \in Nat
      /\ \A k \in 1..n : at[k] = IF k = 1 THEN Find(u, ps[1], 1) ELSE PlaceStep(p, u, k, at[k - 1])
  BY <1>1, <1>2, <1>3, PlacesIs
<1>6. \A k \in 1..n : at[k] # 0
  <2> DEFINE Good == {j \in Nat : j < n => at[n - j] # 0}
  <2>1. 0 \in Good
    BY <1>1, <1>2, <1>3, <1>4
  <2>2. ASSUME NEW j \in Nat, j \in Good PROVE j + 1 \in Good
    <3> SUFFICES ASSUME j + 1 < n PROVE at[n - (j + 1)] # 0
      OBVIOUS
    <3>1. /\ n - j \in 1..n /\ n - j # 1 /\ n - j - 1 = n - (j + 1)
          /\ at[n - j] # 0
      BY <1>4, <2>2
    <3>2. at[n - j] = PlaceStep(p, u, n - j, at[n - (j + 1)])
      BY <1>5, <3>1
    <3>3. QED BY <3>1, <3>2 DEF PlaceStep
  <2> HIDE DEF Good
  <2>3. \A j \in Nat : j \in Good
    BY <2>1, <2>2, Induction
  <2>4. ASSUME NEW k \in 1..n PROVE at[k] # 0
    <3>1. n - k \in Good /\ n - k < n /\ n - (n - k) = k
      BY <1>4, <2>3
    <3>2. QED BY <3>1 DEF Good
  <2>5. QED BY <2>4
<1>7. ASSUME NEW k \in 1..n
      PROVE  /\ at[k] \in 1..(Len(u) + 1) /\ At(u, ps[k], at[k])
             /\ k > 1 => at[k - 1] + Len(ps[k - 1]) <= at[k]
  <2>1. CASE k = 1
    <3>1. at[k] = Find(u, ps[k], 1) /\ at[k] # 0
      BY <1>5, <1>6, <2>1
    <3>2. at[k] \in 1..(Len(u) + 1) /\ At(u, ps[k], at[k])
      BY <3>1, FindIs
    <3>3. QED BY <2>1, <3>2
  <2>2. CASE k # 1
    <3>1. k - 1 \in 1..n /\ at[k - 1] \in Nat \ {0} /\ Len(ps[k - 1]) \in Nat /\ at[k] # 0
      BY <1>4, <1>5, <1>6, <2>2
    <3>2. PICK s \in Nat \ {0} : s = at[k - 1] + Len(ps[k - 1])
      BY <3>1
    <3>3. at[k] = Find(u, ps[k], s)
      BY <1>1, <1>5, <2>2, <3>1, <3>2 DEF PlaceStep
    <3>4. at[k] \in s..(Len(u) + 1) /\ At(u, ps[k], at[k])
      BY <3>1, <3>3, FindIs
    <3>5. QED BY <3>2, <3>4
  <2>3. QED BY <2>1, <2>2
<1>8. ASSUME NEW k \in 1..n PROVE at[k] + Len(ps[k]) - 1 <= Len(u)
  BY <1>7 DEF At
<1>9. QED BY <1>1, <1>2, <1>3, <1>7, <1>8

\* Text is found in p where it stands, and not before.
LEMMA FindsFirst ==
  ASSUME NEW u \in Seq(T), NEW x \in Seq(Text), NEW i \in Nat \ {0}, NEW j \in Nat \ {0},
         i <= j, j + Len(x) - 1 <= Len(u), \A l \in 1..Len(x) : u[j + l - 1] = x[l],
         \A l \in i..(j - 1) : u[l] \in Var
  PROVE  /\ Find(u, x, i) \in i..j
         /\ x # <<>> => Find(u, x, i) = j
<1>1. x \in Seq(T) /\ Len(x) \in Nat /\ Len(u) \in Nat
  BY DEF T
<1>2. At(u, x, j) /\ j \in i..(Len(u) + 1)
  BY <1>1, AtIs
<1>3. PICK f \in Nat : f = Find(u, x, i)
  BY FindIs
<1>4. f \in i..j /\ At(u, x, f) /\ f \in Nat \ {0}
  BY <1>2, <1>3, FindIs
<1>5. ASSUME x # <<>>, f # j PROVE FALSE
  <2>1. 1 \in 1..Len(x) /\ x[1] \in Text
    BY <1>5
  <2>2. u[f + 1 - 1] = x[1]
    BY <1>1, <1>4, <2>1, AtIs
  <2>3. f \in i..(j - 1)
    BY <1>4, <1>5
  <2>4. u[f] \in Var
    BY <2>3
  <2>5. f + 1 - 1 = f
    BY <1>3
  <2>6. QED BY <2>1, <2>2, <2>4, <2>5, RouterAssumption
<1>6. QED BY <1>3, <1>4, <1>5

\* A pattern that ends in text is equal to itself: its pieces are found where
\* they stand, but for empty ones, which are found among the {names} before.
LEMMA SelfEqual ==
  ASSUME NEW p \in Seq(T), EndsInText(p)
  PROVE  Equals(p, p)
<1>1. PICK ps : ps = Pieces(p)
  OBVIOUS
<1>2. PICK at : Spread(p, ps, at, Len(p))
  BY <1>1, PiecesAre
<1>3. PICK n \in Nat \ {0} : n = Len(ps)
  BY <1>2 DEF Spread
<1>4. PICK pl : pl = Places(p, p)
  OBVIOUS
<1>5. /\ \A k \in 1..n : ps[k] \in Seq(Text) /\ Len(ps[k]) \in Nat
      /\ \A k \in 1..n : at[k] \in Nat \ {0}
      /\ at[1] = 1 /\ Len(p) \in Nat
  <2>1. ps \in Seq(Seq(Text)) /\ at \in [1..n -> Nat \ {0}] /\ at[1] = 1
    BY <1>2, <1>3 DEF Spread
  <2>2. \A k \in 1..n : ps[k] \in Seq(Text)
    BY <1>3, <2>1
  <2>3. QED BY <2>1, <2>2
<1>6. \A k \in 1..n : \A j \in 1..Len(ps[k]) : p[at[k] + j - 1] = ps[k][j]
  BY <1>2, <1>3 DEF Spread
<1>7. \A k \in 2..n : at[k] = at[k - 1] + Len(ps[k - 1]) + 1 /\ p[at[k] - 1] \in Var
  BY <1>2, <1>3 DEF Spread
<1>8. at[n] + Len(ps[n]) = Len(p) + 1
  BY <1>2, <1>3 DEF Spread
<1>9. \A k \in 1..n : pl[k] = IF k = 1 THEN Find(p, ps[1], 1) ELSE PlaceStep(p, p, k, pl[k - 1])
  BY <1>1, <1>3, <1>4, PlacesIs
\* No piece reaches beyond the end of p.
<1>10. \A k \in 1..n : at[k] + Len(ps[k]) <= Len(p) + 1
  <2> DEFINE Good == {j \in Nat : j < n => at[n - j] + Len(ps[n - j]) <= Len(p) + 1}
  <2>1. 0 \in Good
    BY <1>5, <1>8
  <2>2. ASSUME NEW j \in Nat, j \in Good PROVE j + 1 \in Good
    <3> SUFFICES ASSUME j + 1 < n PROVE at[n - (j + 1)] + Len(ps[n - (j + 1)]) <= Len(p) + 1
      OBVIOUS
    <3>1. PICK k \in 2..n : k = n - j
      BY <2>2
    <3>2. k - 1 = n - (j + 1) /\ k \in 1..n /\ k - 1 \in 1..n
      BY <3>1
    <3>3. at[k] + Len(ps[k]) <= Len(p) + 1
      BY <2>2, <3>1
    <3>4. PICK a \in Nat, b \in Nat, c \in Nat, d \in Nat :
            a = at[k] /\ b = Len(ps[k]) /\ c = at[k - 1] /\ d = Len(ps[k - 1])
      BY <1>5, <3>2
    <3>5. a = c + d + 1 /\ a + b <= Len(p) + 1
      BY <1>7, <3>1, <3>3, <3>4
    <3>6. c + d <= Len(p) + 1
      BY <1>5, <3>5
    <3>7. QED BY <3>2, <3>4, <3>6
  <2> HIDE DEF Good
  <2>3. \A j \in Nat : j \in Good
    BY <2>1, <2>2, Induction
  <2>4. ASSUME NEW k \in 1..n PROVE at[k] + Len(ps[k]) <= Len(p) + 1
    <3>1. n - k \in Good /\ n - k < n /\ n - (n - k) = k
      BY <2>3
    <3>2. QED BY <3>1 DEF Good
  <2>5. QED BY <2>4
<1> DEFINE Near(k) == /\ pl[k] \in 1..at[k]
                      /\ ps[k] # <<>> => pl[k] = at[k]
                      /\ \A l \in pl[k]..(at[k] - 1) : p[l] \in Var
<1>11. Near(1)
  <2>1. 1 \in 1..n /\ at[1] + Len(ps[1]) <= Len(p) + 1 /\ ps[1] \in Seq(Text)
    BY <1>5, <1>10
  <2>2. Find(p, ps[1], 1) \in 1..1
    BY <1>5, <1>6, <2>1, FindsFirst
  <2>3. pl[1] = 1
    BY <1>9, <2>1, <2>2
  <2>4. QED BY <1>5, <2>3
<1>12. ASSUME NEW k \in 1..(n - 1), Near(k) PROVE Near(k + 1)
  <2>1. k + 1 \in 2..n /\ k + 1 \in 1..n /\ k \in 1..n /\ k + 1 - 1 = k
    OBVIOUS
  <2>2. PICK f \in Nat \ {0} : f = pl[k]
    BY <1>5, <1>12, <2>1
  <2>3. PICK a \in Nat \ {0}, b \in Nat, c \in Nat \ {0} :
          a = at[k] /\ b = Len(ps[k]) /\ c = at[k + 1]
    BY <1>5, <2>1
  <2>4. c = a + b + 1 /\ p[c - 1] \in Var
    BY <1>7, <2>1, <2>3
  <2>5. f + b <= c /\ \A l \in (f + b)..(c - 1) : p[l] \in Var
    <3>1. CASE ps[k] # <<>>
      <4>1. f = a
        BY <1>12, <2>2, <2>3, <3>1
      <4>2. QED BY <2>4, <4>1
    <3>2. CASE ps[k] = <<>>
      <4>1. b = 0 /\ f <= a
        BY <1>12, <2>2, <2>3, <3>2
      <4>2. \A l \in f..(a - 1) : p[l] \in Var
        BY <1>12, <2>2, <2>3
      <4>3. QED BY <2>4, <4>1, <4>2
    <3>3. QED BY <3>1, <3>2
  <2>6. pl[k + 1] = Find(p, ps[k + 1], f + b)
    BY <1>1, <1>9, <2>1, <2>2, <2>3 DEF PlaceStep
  <2>7. /\ ps[k + 1] \in Seq(Text) /\ c + Len(ps[k + 1]) - 1 <= Len(p)
        /\ \A l \in 1..Len(ps[k + 1]) : p[c + l - 1] = ps[k + 1][l]
    <3>1. c + Len(ps[k + 1]) <= Len(p) + 1 /\ Len(ps[k + 1]) \in Nat
      BY <1>5, <1>10, <2>1, <2>3
    <3>2. QED BY <1>5, <1>6, <2>1, <2>3, <3>1
  <2>8. /\ Find(p, ps[k + 1], f + b) \in (f + b)..c
        /\ ps[k + 1] # <<>> => Find(p, ps[k + 1], f + b) = c
    <3>1. PICK x \in Seq(Text) : x = ps[k + 1]
      BY <2>7
    <3>2. PICK s \in Nat \ {0} : s = f + b
      OBVIOUS
    <3>3. s <= c /\ c + Len(x) - 1 <= Len(p)
      BY <2>5, <2>7, <3>1, <3>2
    <3>4. \A l \in s..(c - 1) : p[l] \in Var
      BY <2>5, <3>2
    <3>5. \A l \in 1..Len(x) : p[c + l - 1] = x[l]
      BY <2>7, <3>1
    <3>6. Find(p, x, s) \in s..c /\ (x # <<>> => Find(p, x, s) = c)
      BY <3>3, <3>4, <3>5, FindsFirst
    <3>7. QED BY <3>1, <3>2, <3>6
  <2>9. QED BY <2>3, <2>5, <2>6, <2>8
<1>13. Near(n)
  <2> DEFINE Good == {j \in Nat : j < n => Near(j + 1)}
  <2>1. 0 \in Good
    BY <1>11
  <2>2. ASSUME NEW j \in Nat, j \in Good PROVE j + 1 \in Good
    <3> HIDE DEF Near
    <3> SUFFICES ASSUME j + 1 < n PROVE Near(j + 1 + 1)
      OBVIOUS
    <3>1. j + 1 \in 1..(n - 1) /\ Near(j + 1)
      BY <2>2
    <3>2. QED BY <1>12, <3>1
  <2> HIDE DEF Good
  <2>3. n - 1 \in Good
    BY <2>1, <2>2, Induction
  <2>4. n - 1 < n /\ n - 1 + 1 = n
    OBVIOUS
  <2> HIDE DEF Near
  <2>5. QED BY <2>3, <2>4 DEF Good
<1>14. CASE n = 1
  <2>1. pl[1] # 0
    BY <1>5, <1>13, <1>14
  <2>2. QED BY <1>1, <1>3, <1>4, <1>14, <2>1 DEF Equals
<1>15. CASE n # 1
  <2>1. ps[n] # <<>>
    BY <1>1, <1>3, <1>15, PiecesAre
  <2>2. pl[n] = at[n] /\ at[n] \in Nat \ {0} /\ Len(ps[n]) \in Nat
    BY <1>5, <1>13, <2>1
  <2>3. pl[n] # 0 /\ pl[n] + Len(ps[n]) - 1 = Len(p)
    BY <1>5, <1>8, <2>2
  <2>4. QED BY <1>1, <1>3, <1>4, <1>15, <2>3 DEF Equals
<1>16. QED BY <1>14, <1>15

\* What is equal to p is equal to every instance of p: text that is foreign to
\* p stands where p has its {names}, and no piece that p has contains any.
LEMMA InstanceEqual ==
  ASSUME NEW k \in Seq(T), NEW p \in Seq(T), NEW u \in Seq(Text),
         EndsInText(p), Equals(k, p), Instance(p, u)
  PROVE  Equals(k, u)
<1>1. PICK ps : ps = Pieces(k)
  OBVIOUS
<1>2. PICK n \in Nat \ {0} : n = Len(ps)
  BY <1>1, PiecesAre
<1>3. ps \in Seq(Seq(Text)) /\ \A i \in 1..n : ps[i] \in Seq(Text) /\ ps[i] \in Seq(T)
  <2>1. ps \in Seq(Seq(Text))
    BY <1>1, PiecesAre
  <2>2. \A i \in 1..n : ps[i] \in Seq(Text)
    BY <1>2, <2>1
  <2>3. QED BY <2>1, <2>2 DEF T
<1>4. PICK l \in Nat : l = Len(p) /\ l = Len(u)
  BY DEF Instance
<1>5. u \in Seq(T) /\ DOMAIN p = 1..l /\ DOMAIN u = 1..l
  <2>1. u \in Seq(T)
    BY DEF T
  <2>2. DOMAIN p = 1..Len(p) /\ DOMAIN u = 1..Len(u)
    OBVIOUS
  <2>3. QED BY <1>4, <2>1, <2>2
<1>6. Places(k, p)[n] # 0
  BY <1>1, <1>2 DEF Equals
<1>7. ASSUME NEW i \in 1..n, NEW j \in Nat \ {0} PROVE At(p, ps[i], j) <=> At(u, ps[i], j)
  <2>1. PICK x \in Seq(Text) : x = ps[i] /\ x \in Seq(T)
    BY <1>3
  <2>2. PICK at \in Nat \ {0} : At(p, x, at)
    <3>1. Places(k, p)[i] \in 1..(Len(p) + 1) /\ At(p, Pieces(k)[i], Places(k, p)[i])
      BY <1>1, <1>2, <1>6, PlacesFound
    <3>2. QED BY <1>1, <2>1, <3>1
  <2>3. /\ At(p, x, j) <=> j + Len(x) - 1 <= l /\ \A h \in 1..Len(x) : p[j + h - 1] = x[h]
        /\ At(u, x, j) <=> j + Len(x) - 1 <= l /\ \A h \in 1..Len(x) : u[j + h - 1] = x[h]
    <3>1. At(p, x, j) <=> j + Len(x) - 1 <= l /\ \A h \in 1..Len(x) : p[j + h - 1] = x[h]
      <4>1. At(p, x, j) <=> /\ j + Len(x) - 1 <= Len(p)
                           /\ \A h \in 1..Len(x) : p[j + h - 1] = x[h]
        BY <2>1, AtIs
      <4>2. QED BY <1>4, <4>1
    <3>2. At(u, x, j) <=> j + Len(x) - 1 <= l /\ \A h \in 1..Len(x) : u[j + h - 1] = x[h]
      <4>1. At(u, x, j) <=> /\ j + Len(x) - 1 <= Len(u)
                           /\ \A h \in 1..Len(x) : u[j + h - 1] = x[h]
        BY <1>5, <2>1, AtIs
      <4>2. QED BY <1>4, <4>1
    <3>3. QED BY <3>1, <3>2
  <2>4. /\ at + Len(x) - 1 <= l
        /\ \A h \in 1..Len(x) : p[at + h - 1] = x[h]
    <3>1. /\ at + Len(x) - 1 <= Len(p)
          /\ \A h \in 1..Len(x) : p[at + h - 1] = x[h]
      BY <2>1, <2>2, AtIs
    <3>2. QED BY <1>4, <3>1
  <2>5. ASSUME j + Len(x) - 1 <= l, NEW h \in 1..Len(x)
        PROVE  p[j + h - 1] = x[h] <=> u[j + h - 1] = x[h]
    <3>1. PICK g \in 1..l : g = j + h - 1
      BY <2>5
    <3>2. PICK f \in 1..l : f = at + h - 1
      BY <2>4
    <3>3. x[h] \in Text /\ x[h] = p[f]
      BY <2>4, <3>2
    <3>4. x[h] \in {p[d] : d \in DOMAIN p}
      BY <1>5, <3>3
    <3>5. CASE p[g] \in Var
      <4>1. p[g] # x[h]
        BY <3>3, <3>5, RouterAssumption
      <4>2. u[g] # x[h]
        BY <1>5, <3>4, <3>5 DEF Instance
      <4>3. QED BY <3>1, <4>1, <4>2
    <3>6. CASE p[g] \notin Var
      <4>1. u[g] = p[g]
        BY <1>5, <3>6 DEF Instance
      <4>2. QED BY <3>1, <4>1
    <3>7. QED BY <3>5, <3>6
  <2>6. QED BY <2>1, <2>3, <2>5
<1>8. \A i \in 1..n : \A j \in Nat \ {0} : Find(p, ps[i], j) = Find(u, ps[i], j)
  <2> SUFFICES ASSUME NEW i \in 1..n, NEW j \in Nat \ {0}
               PROVE  Find(p, ps[i], j) = Find(u, ps[i], j)
    OBVIOUS
  <2>1. PICK hits : hits = {h \in j..(Len(p) + 1) : At(p, ps[i], h)}
    OBVIOUS
  <2>2. hits = {h \in j..(Len(u) + 1) : At(u, ps[i], h)}
    <3>1. \A h \in j..(l + 1) : At(p, ps[i], h) <=> At(u, ps[i], h)
      BY <1>7
    <3>2. QED BY <1>4, <2>1, <3>1
  <2>3. Find(p, ps[i], j) = IF hits = {} THEN 0 ELSE CHOOSE h \in hits : \A g \in hits : h <= g
    BY <2>1 DEF Find
  <2>4. Find(u, ps[i], j) = IF hits = {} THEN 0 ELSE CHOOSE h \in hits : \A g \in hits : h <= g
    BY <2>2 DEF Find
  <2>5. QED BY <2>3, <2>4
<1>9. PICK a : a = Places(k, p)
  OBVIOUS
<1>10. PICK b : b = Places(k, u)
  OBVIOUS
<1>11. /\ \A i \in 1..n : a[i] \in Nat
       /\ \A i \in 1..n : a[i] = IF i = 1 THEN Find(p, ps[1], 1) ELSE PlaceStep(k, p, i, a[i - 1])
  BY <1>1, <1>2, <1>9, PlacesIs
<1>12. \A i \in 1..n : b[i] = IF i = 1 THEN Find(u, ps[1], 1) ELSE PlaceStep(k, u, i, b[i - 1])
  BY <1>1, <1>2, <1>5, <1>10, PlacesIs
<1>13. a[n] = b[n]
  <2> DEFINE Good == {i \in Nat : i < n => a[i + 1] = b[i + 1]}
  <2>1. 0 \in Good
    BY <1>8, <1>11, <1>12
  <2>2. ASSUME NEW i \in Nat, i \in Good PROVE i + 1 \in Good
    <3> SUFFICES ASSUME i + 1 < n PROVE a[i + 2] = b[i + 2]
      OBVIOUS
    <3>1. i + 2 \in 1..n /\ i + 1 \in 1..n /\ i + 2 # 1 /\ i + 2 - 1 = i + 1 /\ a[i + 1] = b[i + 1]
      BY <2>2
    <3>2. a[i + 1] # 0 => a[i + 1] + Len(ps[i + 1]) \in Nat \ {0}
      BY <1>3, <1>11, <3>1
    <3>3. PlaceStep(k, p, i + 2, a[i + 1]) = PlaceStep(k, u, i + 2, a[i + 1])
      BY <1>1, <1>8, <3>1, <3>2 DEF PlaceStep
    <3>4. QED BY <1>11, <1>12, <3>1, <3>3
  <2> HIDE DEF Good
  <2>3. n - 1 \in Good
    BY <2>1, <2>2, Induction
  <2>4. n - 1 < n /\ n - 1 + 1 = n
    OBVIOUS
  <2>5. QED BY <2>3, <2>4 DEF Good
<1>14. CASE n = 1
  <2>1. k = p
    BY <1>1, <1>2, <1>14 DEF Equals
  <2>2. PICK at : Spread(p, ps, at, l)
    BY <1>1, <1>4, <2>1, PiecesAre
  <2>3. /\ at[1] = 1 /\ at[1] + Len(ps[1]) = l + 1 /\ ps[1] \in Seq(Text)
        /\ \A j \in 1..Len(ps[1]) : p[at[1] + j - 1] = ps[1][j]
    BY <1>2, <1>3, <1>14, <2>2 DEF Spread
  <2>4. ASSUME NEW j \in 1..l PROVE p[j] \in Text
    <3>1. Len(ps[1]) = l
      BY <2>3
    <3>2. ps[1][j] \in Text /\ p[1 + j - 1] = ps[1][j] /\ 1 + j - 1 = j
      BY <2>3, <3>1
    <3>3. QED BY <3>2
  <2>5. \A j \in 1..l : u[j] = p[j]
    BY <1>5, <2>4, RouterAssumption DEF Instance
  <2>6. u = p
    BY <1>4, <1>5, <2>5, SeqEqual
  <2>7. QED BY <2>6
<1>15. CASE n # 1
  BY <1>1, <1>2, <1>4, <1>9, <1>10, <1>13, <1>15 DEF Equals
<1>16. QED BY <1>14, <1>15

WovenStep(ps, gap, i, before) == before \o gap[i - 1] \o ps[i]

\* A gap and a piece more at a time.
LEMMA WovenIs ==
  ASSUME NEW ps \in Seq(Seq(T)), Len(ps) \in Nat \ {0}, NEW gap,
         \A i \in 1..(Len(ps) - 1) : gap[i] \in Seq(T)
  PROVE  \A i \in 1..Len(ps) :
           Woven(ps, gap)[i] = IF i = 1 THEN ps[1] ELSE WovenStep(ps, gap, i, Woven(ps, gap)[i - 1])
<1> DEFINE S == Seq(T)
           F(f) == [i \in 1..Len(ps) |->
                      IF i = 1 THEN ps[1] ELSE f[i - 1] \o gap[i - 1] \o ps[i]]
           step == [i \in Nat |-> [c \in S |->
                      IF i \in 2..Len(ps) THEN WovenStep(ps, gap, i, c) ELSE c]]
<1>1. step \in [Nat -> [S -> S]]
  <2>1. ASSUME NEW i \in 2..Len(ps), NEW c \in S PROVE WovenStep(ps, gap, i, c) \in S
    <3>1. gap[i - 1] \in Seq(T) /\ ps[i] \in Seq(T)
      OBVIOUS
    <3>2. c \o gap[i - 1] \in Seq(T)
      BY <3>1
    <3>3. QED BY <3>1, <3>2 DEF WovenStep
  <2>2. QED BY <2>1
<1>2. ps[1] \in S
  OBVIOUS
<1>3. PICK f : Recursive(f, 1, Len(ps), S, ps[1], step)
  <2> HIDE DEF step, S
  <2>1. QED BY <1>1, <1>2, Recursion
<1>4. /\ f \in [1..Len(ps) -> S]
      /\ \A i \in 1..Len(ps) : f[i] = IF i = 1 THEN ps[1] ELSE WovenStep(ps, gap, i, f[i - 1])
  <2> HIDE DEF S, step
  <2>1. ASSUME NEW i \in 1..Len(ps), i # 1 PROVE step[i][f[i - 1]] = WovenStep(ps, gap, i, f[i - 1])
    <3>1. i - 1 \in 1..Len(ps) /\ i \in 2..Len(ps) /\ i \in Nat
      BY <2>1
    <3>2. f \in [1..Len(ps) -> S]
      BY <1>3 DEF Recursive
    <3>3. f[i - 1] \in S
      BY <3>1, <3>2
    <3>4. QED BY <3>1, <3>3 DEF step
  <2>2. QED BY <1>3, <2>1 DEF Recursive
<1>5. f = F(f)
  BY <1>4 DEF WovenStep
<1>6. Woven(ps, gap) = CHOOSE g : g = F(g)
  BY DEF Woven
<1> HIDE DEF F
<1>7. Woven(ps, gap) = F(Woven(ps, gap))
  BY <1>5, <1>6
<1>8. QED BY <1>7 DEF F, WovenStep

\* What stands in u between the pieces of p.
Gaps(p, u) ==
  [i \in 1..(Len(Pieces(p)) - 1) |->
     SubSeq(u, Places(p, u)[i] + Len(Pieces(p)[i]), Places(p, u)[i + 1] - 1)]

\* If all pieces are found, they and the gaps between them are one part of u.
LEMMA Rebuild ==
  ASSUME NEW p \in Seq(T), NEW u \in Seq(T), Places(p, u)[Len(Pieces(p))] # 0
  PROVE  LET ps == Pieces(p)  at == Places(p, u)  n == Len(ps) IN
         Woven(ps, Gaps(p, u))[n] = SubSeq(u, at[1], at[n] + Len(ps[n]) - 1)
<1>1. PICK ps : ps = Pieces(p)
  OBVIOUS
<1>2. PICK n \in Nat \ {0} : n = Len(ps)
  BY <1>1, PiecesAre
<1>3. PICK at : at = Places(p, u)
  OBVIOUS
<1>4. PICK gap : gap = Gaps(p, u)
  OBVIOUS
<1>5. \A k \in 1..n : /\ at[k] \in 1..(Len(u) + 1) /\ at[k] + Len(ps[k]) - 1 <= Len(u)
                      /\ At(u, ps[k], at[k])
                      /\ k > 1 => at[k - 1] + Len(ps[k - 1]) <= at[k]
  BY <1>1, <1>2, <1>3, PlacesFound
<1>6. ps \in Seq(Seq(Text)) /\ \A k \in 1..n : ps[k] \in Seq(Text) /\ Len(ps[k]) \in Nat
  <2>1. ps \in Seq(Seq(Text))
    BY <1>1, PiecesAre
  <2>2. \A k \in 1..n : ps[k] \in Seq(Text)
    BY <1>2, <2>1
  <2>3. QED BY <2>1, <2>2
<1>7. \A k \in 1..(n - 1) : gap[k] = SubSeq(u, at[k] + Len(ps[k]), at[k + 1] - 1)
  BY <1>1, <1>2, <1>3, <1>4 DEF Gaps
<1>8. \A k \in 1..(n - 1) : gap[k] \in Seq(T)
  <2> SUFFICES ASSUME NEW k \in 1..(n - 1) PROVE gap[k] \in Seq(T)
    OBVIOUS
  <2>1. k \in 1..n /\ k + 1 \in 1..n
    OBVIOUS
  <2>2. at[k] \in 1..(Len(u) + 1) /\ at[k + 1] \in 1..(Len(u) + 1) /\ Len(ps[k]) \in Nat
    BY <1>5, <1>6, <2>1
  <2>3. PICK a \in Nat \ {0} : a = at[k] + Len(ps[k])
    BY <2>2
  <2>4. PICK b \in Nat : b = at[k + 1] - 1 /\ b <= Len(u)
    BY <2>2
  <2>5. \A i \in a..b : u[i] \in T
    BY <2>4
  <2>6. SubSeq(u, a, b) \in Seq(T)
    BY <2>5, SubSeqProperties
  <2>7. QED BY <1>7, <2>3, <2>4, <2>6
<1>9. PICK w : w = Woven(ps, gap)
  OBVIOUS
<1>10. \A k \in 1..n : w[k] = IF k = 1 THEN ps[1] ELSE w[k - 1] \o gap[k - 1] \o ps[k]
  <2>1. ps \in Seq(Seq(T))
    BY <1>6 DEF T
  <2>2. QED BY <1>2, <1>8, <1>9, <2>1, WovenIs DEF WovenStep
<1>11. \A k \in 1..n : ps[k] = SubSeq(u, at[k], at[k] + Len(ps[k]) - 1)
  BY <1>5 DEF At
<1> DEFINE Sofar(k) == at[1] <= at[k] /\ w[k] = SubSeq(u, at[1], at[k] + Len(ps[k]) - 1)
<1>12. Sofar(1)
  <2>1. 1 \in 1..n
    OBVIOUS
  <2>2. at[1] <= at[1] /\ w[1] = ps[1] /\ ps[1] = SubSeq(u, at[1], at[1] + Len(ps[1]) - 1)
    BY <1>5, <1>10, <1>11, <2>1
  <2>3. QED BY <2>2
<1>13. ASSUME NEW k \in 1..(n - 1), Sofar(k) PROVE Sofar(k + 1)
  <2>1. k \in 1..n /\ k + 1 \in 1..n /\ k + 1 - 1 = k /\ 1 \in 1..n /\ k + 1 > 1 /\ k + 1 # 1
    OBVIOUS
  <2>2. PICK a \in 1..(Len(u) + 1), b \in 1..(Len(u) + 1), c \in 1..(Len(u) + 1),
             d \in Nat, e \in Nat :
          a = at[1] /\ b = at[k] /\ c = at[k + 1] /\ d = Len(ps[k]) /\ e = Len(ps[k + 1])
    BY <1>5, <1>6, <2>1
  <2>3. a <= b /\ b + d <= c /\ b + d - 1 <= Len(u) /\ c + e - 1 <= Len(u)
    BY <1>5, <1>13, <2>1, <2>2
  <2>4. w[k] = SubSeq(u, a, b + d - 1) /\ gap[k] = SubSeq(u, b + d, c - 1)
    BY <1>7, <1>13, <2>2
  <2>5. ps[k + 1] = SubSeq(u, c, c + e - 1)
    BY <1>11, <2>1, <2>2
  <2>6. w[k + 1] = w[k] \o gap[k] \o ps[k + 1]
    <3>1. PICK j \in 1..n : j = k + 1 /\ j # 1 /\ k = j - 1
      BY <2>1
    <3>2. w[j] = w[j - 1] \o gap[j - 1] \o ps[j]
      BY <1>10, <3>1
    <3>3. QED BY <3>1, <3>2
  <2>7. SubSeq(u, a, b + d - 1) \o SubSeq(u, b + d, c - 1) = SubSeq(u, a, c - 1)
    <3>1. b + d - 1 \in (a - 1)..Len(u) /\ c - 1 \in (b + d - 1)..Len(u) /\ b + d = b + d - 1 + 1
      BY <2>3
    <3>2. PICK x \in (a - 1)..Len(u) : x = b + d - 1 /\ b + d = x + 1
      BY <3>1
    <3>3. PICK y \in x..Len(u) : y = c - 1
      BY <3>1, <3>2
    <3>4. SubSeq(u, a, x) \o SubSeq(u, x + 1, y) = SubSeq(u, a, y)
      BY ConcatAdjacentSubSeq
    <3>5. QED BY <3>2, <3>3, <3>4
  <2>8. SubSeq(u, a, c - 1) \o SubSeq(u, c, c + e - 1) = SubSeq(u, a, c + e - 1)
    <3>1. PICK x \in (a - 1)..Len(u) : x = c - 1 /\ c = x + 1
      BY <2>3
    <3>2. PICK y \in x..Len(u) : y = c + e - 1
      BY <2>3, <3>1
    <3>3. SubSeq(u, a, x) \o SubSeq(u, x + 1, y) = SubSeq(u, a, y)
      BY ConcatAdjacentSubSeq
    <3>4. QED BY <3>1, <3>2, <3>3
  <2>9. w[k + 1] = SubSeq(u, a, c + e - 1)
    BY <2>4, <2>5, <2>6, <2>7, <2>8
  <2>10. a <= c
    BY <2>3
  <2>11. QED BY <2>2, <2>9, <2>10
<1>14. Sofar(n)
  <2> DEFINE Good == {j \in Nat : j < n => Sofar(j + 1)}
  <2> HIDE DEF Sofar
  <2>1. 0 \in Good
    BY <1>12
  <2>2. ASSUME NEW j \in Nat, j \in Good PROVE j + 1 \in Good
    <3> SUFFICES ASSUME j + 1 < n PROVE Sofar(j + 1 + 1)
      OBVIOUS
    <3>1. j + 1 \in 1..(n - 1) /\ Sofar(j + 1)
      BY <2>2
    <3>2. QED BY <1>13, <3>1
  <2> HIDE DEF Good
  <2>3. n - 1 \in Good
    BY <2>1, <2>2, Induction
  <2>4. n - 1 < n /\ n - 1 + 1 = n
    OBVIOUS
  <2>5. QED BY <2>3, <2>4 DEF Good
<1>15. QED BY <1>1, <1>2, <1>3, <1>4, <1>9, <1>14

\* A pattern that ends in its {name} hands its handler none of the {names}, and
\* if it has but this one it is equal to no path at all: the condition in
\* ParamsRebuildPath and InstanceFound is where the code's promise ends.
THEOREM TrailingName ==
  ASSUME NEW p \in Seq(T), ~EndsInText(p), NEW u \in Seq(Text)
  PROVE  /\ PathParams(p, u) = <<>>
         /\ Len(Pieces(p)) = 1 => ~Equals(p, u)
<1>1. PICK l \in Nat \ {0} : l = Len(p)
  BY DEF EndsInText
<1>2. p[l] \in Var /\ l \in 0..Len(p) /\ l - 1 \in 0..Len(p) /\ l # 0
  BY <1>1 DEF EndsInText
<1>3. PICK c : c = Cut(p)[l - 1]
  OBVIOUS
<1>4. c \in Seq(Seq(Text)) /\ Len(c) \in Nat \ {0}
  BY <1>2, <1>3, CutSpreads DEF Spread
<1>5. Cut(p)[l] = Append(c, <<>>)
  BY <1>2, <1>3, CutIs DEF CutStep
<1>6. Names(p) \in Seq(Var) /\ Len(Names(p)) = Len(c)
  <2>1. Len(Append(c, <<>>)) = Len(c) + 1
    BY <1>4
  <2>2. Named(p)[l] \in Seq(Var) /\ Len(Named(p)[l]) = Len(Cut(p)[l]) - 1
    BY <1>2, CutSpreads
  <2>3. QED BY <1>1, <1>4, <1>5, <2>1, <2>2 DEF Names
<1>7. Len(Pieces(p)) = Len(c)
  <2>1. PICK all : all = Append(c, <<>>)
    OBVIOUS
  <2>2. all \in Seq(Seq(Text)) /\ Len(all) = Len(c) + 1 /\ all[Len(all)] = <<>>
    <3>1. <<>> \in Seq(Text)
      OBVIOUS
    <3>2. QED BY <1>4, <2>1, <3>1
  <2>3. Pieces(p) = SubSeq(all, 1, Len(all) - 1)
    BY <1>1, <1>4, <1>5, <2>1, <2>2 DEF Pieces
  <2>4. \A i \in 1..Len(c) : all[i] \in Seq(Text)
    BY <1>4, <2>2
  <2>5. Len(SubSeq(all, 1, Len(c))) = Len(c)
    BY <1>4, <2>4, SubSeqProperties
  <2>6. QED BY <1>4, <2>2, <2>3, <2>5
<1>8. PathParams(p, u) = <<>>
  <2>1. Len(Pieces(p)) - 1 # Len(Names(p))
    BY <1>4, <1>6, <1>7
  <2>2. QED BY <2>1 DEF PathParams
<1>9. ASSUME Len(Pieces(p)) = 1, Equals(p, u) PROVE FALSE
  <2>1. p = u
    BY <1>9 DEF Equals
  <2>2. p[l] \in Text
    BY <1>1, <2>1
  <2>3. QED BY <1>2, <2>2, RouterAssumption
<1>10. QED BY <1>8, <1>9

-----------------------------------------------------------------------------
(***************************************************************************)
(* Registration and dispatch.                                              *)
(***************************************************************************)
\* Every verb has a map.
LEMMA MapIsMap == \A m : HandlerMap(m) \in Maps
BY DEF HandlerMap, Maps

\* flat_map::find returns an entry that is equal to the key, if there is one.
LEMMA FirstHitIsHit ==
  ASSUME Tables, NEW m, NEW u, Hits(m, u) # {}
  PROVE  LET es == handlers[HandlerMap(m)]  i == FirstHit(m, u) IN
         i \in 1..Len(es) /\ es[i].method = m /\ Equals(es[i].path, u)
<1>1. handlers[HandlerMap(m)] \in Seq(Entry)
  BY MapIsMap DEF Tables
<1>2. Hits(m, u) \subseteq 1..Len(handlers[HandlerMap(m)])
  BY <1>1 DEF Hits
<1>3. Hits(m, u) \in SUBSET Nat
  BY <1>1, <1>2
<1>4. PICK i \in Hits(m, u) : \A j \in Hits(m, u) : i <= j
  BY <1>3, Least
<1>5. FirstHit(m, u) \in Hits(m, u)
  BY <1>4 DEF FirstHit
<1>6. QED BY <1>2, <1>5 DEF Hits

\* At first the maps are empty.
LEMMA InitInv == Init => IInv
BY DEF Init, IInv, Tables, RunsForItsKey, Silent

\* An entry stays sound when more is registered.
LEMMA StaysSound ==
  ASSUME Tables, NEW w \in Registration, wanted' = Append(wanted, w),
         NEW e \in Entry, Sound(e, wanted)
  PROVE  Sound(e, wanted')
<1>1. /\ Len(wanted) \in Nat /\ Len(wanted') = Len(wanted) + 1
      /\ \A i \in 1..Len(wanted) : wanted'[i] = wanted[i]
  BY DEF Tables
<1>2. e.handler \in 1..Len(wanted') /\ wanted'[e.handler] = wanted[e.handler]
  BY <1>1 DEF Sound
<1>3. QED BY <1>2 DEF Sound

\* Registration: a new entry has the new handler's own path, and one that is
\* taken over was found equal to it.
LEMMA RegisterKeeps ==
  ASSUME IInv, NEW p \in Pattern, NEW m \in Method, NEW b \in Body, Register(p, m, b)
  PROVE  IInv'
<1> DEFINE w == [path |-> p, method |-> m, body |-> b]
           n == Len(wanted) + 1
           es == handlers[HandlerMap(m)]
           i0 == FirstHit(m, p)
           fs == IF Hits(m, p) = {}
                   THEN Append(es, [path |-> p, method |-> m, handler |-> n])
                   ELSE [es EXCEPT ![i0].handler = n]
<1>1. /\ wanted' = Append(wanted, w) /\ w \in Registration /\ UNCHANGED <<request, reply>>
      /\ handlers' = [handlers EXCEPT ![HandlerMap(m)] = fs]
  BY DEF Register, Registration
<1>2. /\ wanted \in Seq(Registration) /\ es \in Seq(Entry) /\ HandlerMap(m) \in Maps
      /\ \A i \in 1..Len(es) : es[i] \in Entry /\ Sound(es[i], wanted)
      /\ n \in Nat /\ wanted' \in Seq(Registration) /\ Len(wanted') = n /\ wanted'[n] = w
  BY <1>1, MapIsMap DEF IInv, Tables
<1>3. fs \in Seq(Entry) /\ \A i \in 1..Len(fs) : Sound(fs[i], wanted')
  <2>1. CASE Hits(m, p) = {}
    <3> DEFINE e == [path |-> p, method |-> m, handler |-> n]
    <3>1. e \in Entry /\ n \in 1..Len(wanted')
      BY <1>2 DEF Entry
    <3>2. Sound(e, wanted')
      BY <1>2, <3>1 DEF Sound
    <3>3. fs = Append(es, e)
      BY <2>1
    <3>4. /\ fs \in Seq(Entry) /\ Len(fs) = Len(es) + 1 /\ Len(es) \in Nat /\ fs[Len(fs)] = e
          /\ \A i \in 1..Len(es) : fs[i] = es[i]
      BY <1>2, <3>1, <3>3
    <3>5. \A i \in 1..Len(es) : Sound(es[i], wanted')
      BY <1>1, <1>2, StaysSound DEF IInv
    <3>6. QED BY <3>2, <3>4, <3>5
  <2>2. CASE Hits(m, p) # {}
    <3>1. i0 \in 1..Len(es) /\ es[i0].method = m /\ Equals(es[i0].path, p)
      BY <2>2, FirstHitIsHit DEF IInv
    <3> DEFINE e == [es[i0] EXCEPT !.handler = n]
    <3>2. e \in Entry /\ e.handler = n /\ e.method = m /\ e.path = es[i0].path
      BY <1>2, <3>1 DEF Entry
    <3>3. Sound(e, wanted')
      BY <1>2, <3>1, <3>2 DEF Sound
    <3>4. fs = [es EXCEPT ![i0] = e]
      BY <2>2
    <3>5. /\ fs \in Seq(Entry) /\ Len(fs) = Len(es) /\ fs[i0] = e
          /\ \A i \in 1..Len(es) : i # i0 => fs[i] = es[i]
      BY <1>2, <3>1, <3>2, <3>4
    <3>6. \A i \in 1..Len(es) : Sound(es[i], wanted')
      BY <1>1, <1>2, StaysSound DEF IInv
    <3>7. QED BY <3>3, <3>5, <3>6
  <2>3. QED BY <2>1, <2>2
<1> HIDE DEF fs
<1>4. ASSUME NEW k \in Maps, NEW i \in 1..Len(handlers'[k]) PROVE Sound(handlers'[k][i], wanted')
  <2>1. CASE k = HandlerMap(m)
    BY <1>1, <1>2, <1>3, <1>4, <2>1 DEF IInv, Tables
  <2>2. CASE k # HandlerMap(m)
    <3>1. handlers'[k] = handlers[k] /\ handlers[k] \in Seq(Entry)
      BY <1>1, <1>4, <2>2 DEF IInv, Tables
    <3>2. handlers[k][i] \in Entry /\ Sound(handlers[k][i], wanted)
      BY <1>4, <3>1 DEF IInv, Tables
    <3>3. Sound(handlers[k][i], wanted')
      BY <1>1, <3>2, StaysSound DEF IInv
    <3>4. QED BY <3>1, <3>3
  <2>3. QED BY <2>1, <2>2
<1>5. Tables'
  <2>1. handlers' \in [Maps -> Seq(Entry)]
    BY <1>1, <1>2, <1>3 DEF IInv, Tables
  <2>2. QED BY <1>2, <1>4, <2>1 DEF Tables
<1>6. reply'.outcome = "none"
  BY <1>1 DEF Register, IInv
<1>7. QED BY <1>5, <1>6 DEF IInv, RunsForItsKey

\* Dispatch: what runs is the handler of an entry for the verb that is equal to
\* the path, and the entry is sound.
LEMMA ProcessKeeps ==
  ASSUME IInv, NEW u \in Url, NEW q \in Query, NEW m \in Method, ProcessRequest(u, q, m)
  PROVE  IInv'
<1>1. /\ UNCHANGED <<phase, handlers, wanted>> /\ phase = "serving"
      /\ request' = <<u, q, m>> /\ Asked' = NameOf(u, q)
  BY DEF ProcessRequest, Asked, NameOf
<1>2. Tables'
  BY <1>1 DEF IInv, Tables, Sound
<1>3. ASSUME reply'.outcome = "ran" PROVE RunsForItsKey'
  <2> DEFINE es == handlers[HandlerMap(m)]
             i0 == FirstHit(m, NameOf(u, q))
             e == es[i0]
  <2>1. /\ Hits(m, NameOf(u, q)) # {}
        /\ reply' = [outcome |-> "ran", by |-> e.handler, key |-> e.path,
                     params |-> QueryParams(q) \o PathParams(e.path, NameOf(u, q))]
    BY <1>3 DEF ProcessRequest, Silent
  <2>2. i0 \in 1..Len(es) /\ e.method = m /\ Equals(e.path, NameOf(u, q))
    BY <2>1, FirstHitIsHit DEF IInv
  <2>3. Sound(e, wanted)
    BY <2>2, MapIsMap DEF IInv, Tables
  <2>4. reply'.by = e.handler /\ reply'.key = e.path
    BY <2>1
  <2> HIDE DEF e
  <2>5. QED BY <1>1, <2>2, <2>3, <2>4 DEF Sound, RunsForItsKey
<1>4. QED BY <1>1, <1>2, <1>3 DEF IInv, RunsForItsKey

\* Every step keeps the tables sound and the dispatch right.
LEMMA StepInv == IInv /\ [Next]_vars => IInv'
<1> SUFFICES ASSUME IInv, [Next]_vars PROVE IInv'
  OBVIOUS
<1>1. CASE Start \/ Return \/ UNCHANGED vars
  <2>1. UNCHANGED <<handlers, wanted>>
    BY <1>1 DEF Start, Return, vars
  <2>2. Tables'
    BY <2>1 DEF IInv, Tables, Sound
  <2>3. CASE UNCHANGED <<request, reply>>
    BY <1>1, <2>1, <2>2, <2>3 DEF Start, Return, vars, IInv, RunsForItsKey, Asked
  <2>4. CASE Return
    BY <2>2, <2>4 DEF Return, Silent, IInv, RunsForItsKey
  <2>5. QED BY <1>1, <2>3, <2>4 DEF Start, vars
<1>2. QED BY <1>1, RegisterKeeps, ProcessKeeps DEF Next

\* The handler that runs was registered for the request's verb, and its path is
\* the key that matched the request or was itself matched by that key, whatever
\* registrations came in between.
THEOREM DispatchIsRight == Spec => []RunsForItsKey
<1>1. IInv => RunsForItsKey
  BY DEF IInv
<1>2. QED BY <1>1, InitInv, StepInv, PTL DEF Spec

-----------------------------------------------------------------------------
(***************************************************************************)
(* Types, and the parameters of a request.                                 *)
(***************************************************************************)
\* Patterns and paths are sequences of text and {names}.
LEMMA Paths ==
  /\ \A p \in Pattern : p \in Seq(T)
  /\ \A u \in Url, q \in Query : NameOf(u, q) \in Seq(Text) /\ NameOf(u, q) \in Seq(T)
<1>1. \A p \in Pattern : p \in Seq(T)
  BY RouterAssumption DEF T
<1>2. ASSUME NEW u \in Url, NEW q \in Query
      PROVE  NameOf(u, q) \in Seq(Text) /\ NameOf(u, q) \in Seq(T)
  <2>1. u \in Seq(Text) /\ u \o q.kept \in Seq(Text)
    BY RouterAssumption
  <2>2. NameOf(u, q) \in Seq(Text)
    BY <2>1 DEF NameOf
  <2>3. QED BY <2>2 DEF T
<1>3. QED BY <1>1, <1>2

\* The parameters from the query are text, as many as the query has.
LEMMA QueryParamsType ==
  ASSUME NEW q \in Query
  PROVE  QueryParams(q) \in Seq(Var \X Seq(Text))
<1>1. PICK ps : ps = q.params /\ ps \in Seq(Var \X Text)
  BY RouterAssumption
<1> DEFINE f == [i \in 1..Len(ps) |-> <<ps[i][1], <<ps[i][2]>>>>]
<1>2. QueryParams(q) = f
  BY <1>1 DEF QueryParams
<1>3. ASSUME NEW i \in 1..Len(ps) PROVE <<ps[i][1], <<ps[i][2]>>>> \in Var \X Seq(Text)
  <2>1. ps[i] \in Var \X Text
    BY <1>1
  <2>2. ps[i][1] \in Var /\ ps[i][2] \in Text
    BY <2>1
  <2>3. <<ps[i][2]>> \in Seq(Text)
    BY <2>2
  <2>4. QED BY <2>2, <2>3
<1>4. Len(ps) \in Nat
  BY <1>1
<1>5. f \in Seq(Var \X Seq(Text))
  BY <1>3, <1>4
<1>6. QED BY <1>2, <1>5

\* The parameters from the path are parts of it.
LEMMA PathParamsType ==
  ASSUME NEW p \in Seq(T), NEW u \in Seq(Text), u \in Seq(T), Equals(p, u)
  PROVE  PathParams(p, u) \in Seq(Var \X Seq(Text))
<1>1. PICK ps : ps = Pieces(p)
  OBVIOUS
<1>2. PICK n \in Nat : n = Len(ps) - 1
  <2>1. Len(ps) \in Nat \ {0}
    BY <1>1, PiecesAre
  <2>2. QED BY <2>1
<1>3. PICK at : at = Places(p, u)
  OBVIOUS
<1>4. PICK names : names = Names(p) /\ names \in Seq(Var)
  BY PiecesAre
<1>5. CASE n = 0 \/ n # Len(names)
  BY <1>1, <1>2, <1>4, <1>5 DEF PathParams
<1>6. CASE ~(n = 0 \/ n # Len(names))
  <2> DEFINE f == [i \in 1..n |-> <<names[i], SubSeq(u, at[i] + Len(ps[i]), at[i + 1] - 1)>>]
  <2>1. PathParams(p, u) = f
    BY <1>1, <1>2, <1>3, <1>4, <1>6 DEF PathParams
  <2>2. ASSUME NEW i \in 1..n
        PROVE  <<names[i], SubSeq(u, at[i] + Len(ps[i]), at[i + 1] - 1)>> \in Var \X Seq(Text)
    <3>1. names[i] \in Var
      BY <1>4, <1>6
    <3>2. /\ Places(p, u)[Len(Pieces(p))] # 0 /\ Pieces(p) \in Seq(Seq(Text))
          /\ i \in 1..Len(Pieces(p)) /\ i + 1 \in 1..Len(Pieces(p))
      BY <1>1, <1>2, PiecesAre DEF Equals
    <3>3. at[i] \in 1..(Len(u) + 1) /\ at[i + 1] \in 1..(Len(u) + 1)
      BY <1>3, <3>2, PlacesFound
    <3>4. Len(ps[i]) \in Nat
      BY <1>1, <3>2
    <3>5. PICK a \in Nat \ {0} : a = at[i] + Len(ps[i])
      BY <3>3, <3>4
    <3>6. PICK b \in Nat : b = at[i + 1] - 1 /\ b <= Len(u)
      BY <3>3
    <3>7. \A j \in a..b : u[j] \in Text
      BY <3>6
    <3>8. SubSeq(u, a, b) \in Seq(Text)
      BY <3>7, SubSeqProperties
    <3>9. QED BY <3>1, <3>5, <3>6, <3>8
  <2>3. f \in [1..n -> Var \X Seq(Text)]
    BY <2>2
  <2> HIDE DEF f
  <2>4. f \in Seq(Var \X Seq(Text))
    BY <2>3
  <2>5. QED BY <2>1, <2>4
<1>7. QED BY <1>5, <1>6

\* What ProcessRequest answers with when a handler runs.
LEMMA RanIs ==
  ASSUME IInv, NEW u \in Url, NEW q \in Query, NEW m \in Method, ProcessRequest(u, q, m),
         reply'.outcome = "ran"
  PROVE  /\ reply'.key \in Pattern /\ Equals(reply'.key, NameOf(u, q))
         /\ reply'.by \in 1..Len(wanted)
         /\ reply'.params = QueryParams(q) \o PathParams(reply'.key, NameOf(u, q))
<1> DEFINE es == handlers[HandlerMap(m)]
           i0 == FirstHit(m, NameOf(u, q))
           e == es[i0]
<1>1. /\ Hits(m, NameOf(u, q)) # {}
      /\ reply' = [outcome |-> "ran", by |-> e.handler, key |-> e.path,
                   params |-> QueryParams(q) \o PathParams(e.path, NameOf(u, q))]
  BY DEF ProcessRequest, Silent
<1>2. i0 \in 1..Len(es) /\ Equals(e.path, NameOf(u, q))
  BY <1>1, FirstHitIsHit DEF IInv
<1>3. e \in Entry /\ Sound(e, wanted)
  BY <1>2, MapIsMap DEF IInv, Tables
<1>4. e.path \in Pattern /\ e.handler \in 1..Len(wanted)
  BY <1>3 DEF Entry, Sound
<1> HIDE DEF e
<1>5. QED BY <1>1, <1>2, <1>4

\* The phase, the request under way and what became of it.
Exchange ==
  /\ phase \in {"registering", "serving"}
  /\ request = <<>> \/ request \in Url \X Query \X Method
  /\ reply.outcome \in Outcome /\ reply.by \in 0..Len(wanted)
  /\ reply.params \in Seq(Var \X Seq(Text))

\* At first there is no request.
LEMMA InitExchange == Init => Exchange
BY DEF Init, Exchange, Silent, Outcome

\* A request and its reply keep their types.
LEMMA StepExchange == IInv /\ Exchange /\ [Next]_vars => Exchange'
<1> SUFFICES ASSUME IInv, Exchange, [Next]_vars PROVE Exchange'
  OBVIOUS
<1>1. Len(wanted) \in Nat
  BY DEF IInv, Tables
<1>2. ASSUME UNCHANGED <<request, reply>>, phase' \in {"registering", "serving"},
             Len(wanted') \in Nat, Len(wanted) <= Len(wanted')
      PROVE  Exchange'
  BY <1>1, <1>2 DEF Exchange
<1>3. CASE Start \/ UNCHANGED vars
  BY <1>1, <1>2, <1>3 DEF Start, vars, Exchange
<1>4. ASSUME NEW p \in Pattern, NEW m \in Method, NEW b \in Body, Register(p, m, b)
      PROVE  Exchange'
  <2>1. /\ wanted' = Append(wanted, [path |-> p, method |-> m, body |-> b])
        /\ UNCHANGED <<phase, request, reply>> /\ wanted \in Seq(Registration)
    BY <1>4 DEF Register, IInv, Tables
  <2>2. Len(wanted') = Len(wanted) + 1
    BY <2>1
  <2>3. QED BY <1>1, <1>2, <2>1, <2>2 DEF Exchange
<1>5. ASSUME NEW u \in Url, NEW q \in Query, NEW m \in Method, ProcessRequest(u, q, m)
      PROVE  Exchange'
  <2>1. /\ request' \in Url \X Query \X Method /\ wanted' = wanted
        /\ phase' \in {"registering", "serving"}
    BY <1>5 DEF ProcessRequest
  <2>2. reply'.outcome = "ran" \/ reply' = Silent("notfound") \/ reply' = Silent("mismatch")
    BY <1>5 DEF ProcessRequest
  <2>3. CASE reply'.outcome = "ran"
    <3>1. /\ reply'.key \in Pattern /\ Equals(reply'.key, NameOf(u, q))
          /\ reply'.by \in 1..Len(wanted)
          /\ reply'.params = QueryParams(q) \o PathParams(reply'.key, NameOf(u, q))
      BY <1>5, <2>3, RanIs
    <3>2. PICK k \in Seq(T) : k = reply'.key
      BY <3>1, Paths
    <3>3. /\ PathParams(k, NameOf(u, q)) \in Seq(Var \X Seq(Text))
          /\ QueryParams(q) \in Seq(Var \X Seq(Text))
      BY <3>1, <3>2, Paths, PathParamsType, QueryParamsType
    <3>4. reply'.params \in Seq(Var \X Seq(Text))
      BY <3>1, <3>2, <3>3
    <3>5. QED BY <1>1, <2>1, <2>3, <3>1, <3>4 DEF Exchange, Outcome
  <2>4. CASE reply' = Silent("notfound") \/ reply' = Silent("mismatch")
    <3>1. reply'.outcome \in Outcome /\ reply'.by = 0 /\ reply'.params = <<>>
      BY <2>4 DEF Outcome, Silent
    <3>2. reply'.params \in Seq(Var \X Seq(Text))
      BY <3>1
    <3>3. QED BY <1>1, <2>1, <3>1, <3>2 DEF Exchange
  <2>5. QED BY <2>2, <2>3, <2>4
<1>6. CASE Return
  <2>1. reply'.outcome \in Outcome /\ reply'.by = 0 /\ reply'.params = <<>>
    BY <1>6 DEF Return, Outcome, Silent
  <2>2. reply'.params \in Seq(Var \X Seq(Text))
    BY <2>1
  <2>3. QED BY <1>1, <1>6, <2>1, <2>2 DEF Return, Exchange
<1>7. QED BY <1>3, <1>4, <1>5, <1>6 DEF Next

\* The router keeps its types; the parameters a handler is given are text.
THEOREM TypeCorrect == Spec => []TypeOK
<1>1. IInv /\ Exchange => TypeOK
  <2> SUFFICES ASSUME IInv, Exchange PROVE TypeOK
    OBVIOUS
  <2>1. phase \in {"registering", "serving"}
    BY DEF Exchange
  <2>2. ASSUME NEW m \in Maps, NEW i \in DOMAIN handlers[m]
        PROVE  /\ handlers[m][i].path \in Pattern /\ handlers[m][i].method \in Method
               /\ handlers[m][i].handler \in DOMAIN wanted
    <3>1. handlers[m] \in Seq(Entry) /\ wanted \in Seq(Registration)
      BY DEF IInv, Tables
    <3>2. i \in 1..Len(handlers[m])
      BY <3>1
    <3>3. handlers[m][i] \in Entry /\ Sound(handlers[m][i], wanted)
      BY <3>1, <3>2 DEF IInv, Tables
    <3>4. QED BY <3>1, <3>3 DEF Entry, Sound
  <2>3. QED BY <2>1, <2>2 DEF IInv, Tables, Exchange, TypeOK, Registration
<1>2. QED BY <1>1, InitInv, StepInv, InitExchange, StepExchange, PTL DEF Spec

\* The path parameters of a pattern that ends in text are the gaps between its
\* pieces, and the pieces woven with them are an end of the path.
LEMMA PathParamsRebuild ==
  ASSUME NEW p \in Seq(T), NEW u \in Seq(T), Equals(p, u), EndsInText(p), Names(p) # <<>>
  PROVE  /\ Len(Pieces(p)) = Len(Names(p)) + 1 /\ Len(Pieces(p)) \in Nat \ {0}
         /\ PathParams(p, u) = [i \in 1..(Len(Pieces(p)) - 1) |-> <<Names(p)[i], Gaps(p, u)[i]>>]
         /\ \E a \in 1..(Len(u) + 1) :
              Woven(Pieces(p), Gaps(p, u))[Len(Pieces(p))] = SubSeq(u, a, Len(u))
<1>1. PICK n \in Nat \ {0} : n = Len(Pieces(p))
  BY PiecesAre
<1>2. Names(p) \in Seq(Var) /\ Len(Names(p)) = n - 1 /\ n > 1
  <2>1. Names(p) \in Seq(Var) /\ Len(Names(p)) = n - 1
    BY <1>1, PiecesAre
  <2>2. Len(Names(p)) # 0
    BY <2>1
  <2>3. QED BY <2>1, <2>2
<1>3. PathParams(p, u) = [i \in 1..(n - 1) |-> <<Names(p)[i], Gaps(p, u)[i]>>]
  <2> DEFINE gap(i) == SubSeq(u, Places(p, u)[i] + Len(Pieces(p)[i]), Places(p, u)[i + 1] - 1)
  <2>1. PathParams(p, u) = [i \in 1..(n - 1) |-> <<Names(p)[i], gap(i)>>]
    <3>1. ~(n - 1 = 0 \/ n - 1 # Len(Names(p)))
      BY <1>2
    <3>2. QED BY <1>1, <3>1 DEF PathParams
  <2>2. Gaps(p, u) = [i \in 1..(n - 1) |-> gap(i)]
    BY <1>1 DEF Gaps
  <2> HIDE DEF gap
  <2>3. \A i \in 1..(n - 1) : Gaps(p, u)[i] = gap(i)
    BY <2>2
  <2>4. QED BY <2>1, <2>3
<1>4. Places(p, u)[n] # 0 /\ Places(p, u)[n] + Len(Pieces(p)[n]) - 1 = Len(u)
  BY <1>1, <1>2 DEF Equals
<1>5. Woven(Pieces(p), Gaps(p, u))[n] =
        SubSeq(u, Places(p, u)[1], Places(p, u)[n] + Len(Pieces(p)[n]) - 1)
  BY <1>1, <1>4, Rebuild
<1>6. 1 \in 1..n
  OBVIOUS
<1>7. Places(p, u)[1] \in 1..(Len(u) + 1)
  BY <1>1, <1>4, <1>6, PlacesFound
<1>8. Woven(Pieces(p), Gaps(p, u))[n] = SubSeq(u, Places(p, u)[1], Len(u))
  BY <1>4, <1>5
<1>9. n = Len(Names(p)) + 1
  BY <1>2
<1>10. QED BY <1>1, <1>3, <1>7, <1>8, <1>9

\* ProcessRequest gives a handler parameters that rebuild the path.
LEMMA RanRebuilds ==
  ASSUME IInv, NEW u \in Url, NEW q \in Query, NEW m \in Method, ProcessRequest(u, q, m)
  PROVE  ParamsRebuildPath'
<1> SUFFICES ASSUME reply'.outcome = "ran", EndsInText(reply'.key), Names(reply'.key) # <<>>
             PROVE  ParamsRebuildPath'
  BY DEF ParamsRebuildPath, EndsInText
<1>1. request' = <<u, q, m>> /\ Asked' = NameOf(u, q)
  BY DEF ProcessRequest, Asked, NameOf
<1>2. PICK v \in Seq(T) : v = NameOf(u, q) /\ v \in Seq(Text)
  BY Paths
<1>3. PICK k \in Seq(T) : k = reply'.key /\ Equals(k, v)
  BY <1>2, RanIs, Paths
<1>4. PICK pp : pp = PathParams(k, v) /\ pp \in Seq(Var \X Seq(Text))
  BY <1>2, <1>3, PathParamsType
<1>5. PICK qp : qp = QueryParams(q) /\ qp \in Seq(Var \X Seq(Text))
  BY QueryParamsType
<1>6. PICK ps : ps = Pieces(k)
  OBVIOUS
<1>7. PICK n \in Nat \ {0} : n = Len(ps) /\ n = Len(Names(k)) + 1
  BY <1>2, <1>3, <1>6, PathParamsRebuild
<1>8. PICK gap : gap = Gaps(k, v)
  OBVIOUS
<1>9. pp = [i \in 1..(n - 1) |-> <<Names(k)[i], gap[i]>>]
  <2>1. PathParams(k, v) = [i \in 1..(Len(Pieces(k)) - 1) |-> <<Names(k)[i], Gaps(k, v)[i]>>]
    BY <1>3, PathParamsRebuild
  <2>2. QED BY <1>4, <1>6, <1>7, <1>8, <2>1
<1>10. PICK a \in 1..(Len(v) + 1) : Woven(ps, gap)[n] = SubSeq(v, a, Len(v))
  BY <1>3, <1>6, <1>7, <1>8, PathParamsRebuild
<1>11. PICK all : all = reply'.params /\ all = qp \o pp
  BY <1>2, <1>3, <1>4, <1>5, RanIs
<1>12. PICK from \in Nat : from = Len(qp)
  BY <1>5
<1>13. Len(pp) = n - 1
  BY <1>4, <1>9
<1>14. Len(all) = from + n - 1 /\ \A i \in 1..(n - 1) : all[from + i] = pp[i]
  <2>1. Len(all) = from + (n - 1)
    BY <1>4, <1>5, <1>11, <1>12, <1>13, ConcatProperties
  <2>2. \A i \in 1..(from + (n - 1)) : all[i] = IF i <= from THEN qp[i] ELSE pp[i - from]
    BY <1>4, <1>5, <1>11, <1>12, <1>13, ConcatProperties
  <2>3. ASSUME NEW i \in 1..(n - 1) PROVE all[from + i] = pp[i]
    <3>1. from + i \in 1..(from + (n - 1)) /\ ~(from + i <= from) /\ from + i - from = i
      OBVIOUS
    <3>2. QED BY <2>2, <3>1
  <2>4. QED BY <2>1, <2>3
<1>15. [i \in 1..(n - 1) |-> all[from + i][2]] = gap
  <2>1. gap = [i \in 1..(n - 1) |-> gap[i]]
    BY <1>6, <1>7, <1>8 DEF Gaps
  <2>2. ASSUME NEW i \in 1..(n - 1) PROVE all[from + i][2] = gap[i]
    <3>1. all[from + i] = pp[i]
      BY <1>14
    <3>2. pp[i] = <<Names(k)[i], gap[i]>>
      BY <1>9
    <3>3. QED BY <3>1, <3>2
  <2>3. QED BY <2>1, <2>2
<1>16. PICK whole : whole = SubSeq(v, a, Len(v))
  OBVIOUS
<1>17. Len(whole) \in Nat /\ Len(whole) = Len(v) - a + 1
  <2>1. \A i \in a..Len(v) : v[i] \in T
    OBVIOUS
  <2>2. Len(whole) = IF a <= Len(v) THEN Len(v) - a + 1 ELSE 0
    BY <1>16, <2>1, SubSeqProperties
  <2>3. QED BY <2>2
<1>18. Len(whole) <= Len(v) /\ Len(v) - Len(whole) + 1 = a
  BY <1>17
<1>19. QED
  BY <1>1, <1>2, <1>3, <1>5, <1>6, <1>7, <1>10, <1>11, <1>12, <1>14, <1>15, <1>16, <1>18
     DEF ParamsRebuildPath

\* The path parameters a handler sees are the request's own text: put back
\* between the pieces of the pattern that matched, they give the path or an end
\* of it, for every pattern that ends in text and every path it matches.
THEOREM ParamsAreTheRequests == Spec => []ParamsRebuildPath
<1>1. Init => ParamsRebuildPath
  BY DEF Init, ParamsRebuildPath, Silent
<1>2. IInv /\ ParamsRebuildPath /\ [Next]_vars => ParamsRebuildPath'
  <2> SUFFICES ASSUME IInv, ParamsRebuildPath, [Next]_vars PROVE ParamsRebuildPath'
    OBVIOUS
  <2>1. CASE UNCHANGED <<request, reply>>
    BY <2>1 DEF ParamsRebuildPath, Asked, NameOf, QueryParams
  <2>2. CASE Return
    BY <2>2 DEF Return, Silent, ParamsRebuildPath
  <2>3. QED BY <2>1, <2>2, RanRebuilds DEF Next, vars, Register, Start
<1>3. QED BY <1>1, <1>2, InitInv, StepInv, PTL DEF Spec

-----------------------------------------------------------------------------
(***************************************************************************)
(* No registration loses another's requests.                               *)
(***************************************************************************)
\* An entry of hs leads to w: it is for w's verb and equal to w's path.
Covers(hs, w) ==
  EndsInText(w.path) =>
    \E j \in 1..Len(hs[HandlerMap(w.method)]) :
      LET e == hs[HandlerMap(w.method)][j] IN
      e.method = w.method /\ Equals(e.path, w.path)

Covered == \A i \in 1..Len(wanted) : Covers(handlers, wanted[i])

\* An entry keeps its key when more is registered; what is registered gets an
\* entry of its own or one that is equal to it.
LEMMA RegisterCovers ==
  ASSUME IInv, Covered, NEW p \in Pattern, NEW m \in Method, NEW b \in Body, Register(p, m, b)
  PROVE  Covered'
<1> DEFINE w == [path |-> p, method |-> m, body |-> b]
           n == Len(wanted) + 1
           es == handlers[HandlerMap(m)]
           i0 == FirstHit(m, p)
           e == [path |-> p, method |-> m, handler |-> n]
           fs == IF Hits(m, p) = {} THEN Append(es, e) ELSE [es EXCEPT ![i0].handler = n]
<1>1. /\ wanted' = Append(wanted, w) /\ w \in Registration
      /\ handlers' = [handlers EXCEPT ![HandlerMap(m)] = fs]
  BY DEF Register, Registration
<1>2. /\ wanted \in Seq(Registration) /\ es \in Seq(Entry) /\ HandlerMap(m) \in Maps
      /\ handlers \in [Maps -> Seq(Entry)] /\ Len(wanted) \in Nat /\ e \in Entry
  <2>1. /\ wanted \in Seq(Registration) /\ es \in Seq(Entry) /\ HandlerMap(m) \in Maps
        /\ handlers \in [Maps -> Seq(Entry)] /\ Len(wanted) \in Nat
    BY MapIsMap DEF IInv, Tables
  <2>2. e \in Entry
    BY <2>1 DEF Entry
  <2>3. QED BY <2>1, <2>2
<1>3. /\ Len(fs) \in Nat
      /\ \A j \in 1..Len(es) :
           j \in 1..Len(fs) /\ fs[j].path = es[j].path /\ fs[j].method = es[j].method
  <2>1. CASE Hits(m, p) = {}
    <3>1. fs = Append(es, e)
      BY <2>1
    <3>2. Len(fs) = Len(es) + 1 /\ Len(es) \in Nat /\ \A j \in 1..Len(es) : fs[j] = es[j]
      BY <1>2, <3>1
    <3>3. QED BY <3>2
  <2>2. CASE Hits(m, p) # {}
    <3>1. i0 \in 1..Len(es)
      BY <2>2, FirstHitIsHit DEF IInv
    <3> DEFINE g == [es[i0] EXCEPT !.handler = n]
    <3>2. g.path = es[i0].path /\ g.method = es[i0].method /\ g \in Entry
      <4>1. es[i0] \in Entry /\ n \in Nat
        BY <1>2, <3>1
      <4>2. QED BY <4>1 DEF Entry
    <3>3. fs = [es EXCEPT ![i0] = g]
      BY <2>2
    <3> HIDE DEF g
    <3>4. Len(fs) = Len(es) /\ fs[i0] = g /\ \A j \in 1..Len(es) : j # i0 => fs[j] = es[j]
      BY <1>2, <3>1, <3>2, <3>3
    <3>5. QED BY <1>2, <3>2, <3>4
  <2>3. QED BY <2>1, <2>2
<1>4. \E j \in 1..Len(fs) : fs[j].method = m /\ (EndsInText(p) => Equals(fs[j].path, p))
  <2>1. CASE Hits(m, p) = {}
    <3>1. fs = Append(es, e)
      BY <2>1
    <3>2. Len(fs) \in 1..Len(fs) /\ fs[Len(fs)] = e
      BY <1>2, <3>1
    <3>3. EndsInText(p) => Equals(p, p)
      BY Paths, SelfEqual
    <3>4. QED BY <3>2, <3>3
  <2>2. CASE Hits(m, p) # {}
    <3>1. i0 \in 1..Len(es) /\ es[i0].method = m /\ Equals(es[i0].path, p)
      BY <2>2, FirstHitIsHit DEF IInv
    <3>2. QED BY <1>3, <3>1
  <2>3. QED BY <2>1, <2>2
<1> HIDE DEF fs
<1>5. /\ handlers'[HandlerMap(m)] = fs
      /\ \A k \in Maps : k # HandlerMap(m) => handlers'[k] = handlers[k]
  BY <1>1, <1>2
<1>6. ASSUME NEW k \in Maps, NEW j \in 1..Len(handlers[k])
      PROVE  /\ j \in 1..Len(handlers'[k])
             /\ handlers'[k][j].path = handlers[k][j].path
             /\ handlers'[k][j].method = handlers[k][j].method
  BY <1>3, <1>5
<1>7. ASSUME NEW i \in 1..Len(wanted') PROVE Covers(handlers', wanted'[i])
  <2>1. CASE i = n
    <3>1. wanted'[i] = w
      BY <1>1, <1>2, <2>1
    <3>2. w.path = p /\ w.method = m
      OBVIOUS
    <3> HIDE DEF w
    <3>3. QED BY <1>4, <1>5, <3>1, <3>2 DEF Covers
  <2>2. CASE i # n
    <3>1. i \in 1..Len(wanted) /\ wanted'[i] = wanted[i]
      BY <1>1, <1>2, <1>7, <2>2
    <3>2. PICK x : x = wanted[i]
      OBVIOUS
    <3>3. Covers(handlers, x)
      BY <3>1, <3>2 DEF Covered
    <3>4. HandlerMap(x.method) \in Maps
      BY MapIsMap
    <3>5. Covers(handlers', x)
      BY <1>6, <3>3, <3>4 DEF Covers
    <3>6. QED BY <3>1, <3>2, <3>5
  <2>3. QED BY <2>1, <2>2
<1>8. QED BY <1>7 DEF Covered

\* A request without a handler is for no instance of a registered pattern.
LEMMA NotFoundIsForeign ==
  ASSUME IInv, Covered, NEW u \in Url, NEW q \in Query, NEW m \in Method, ProcessRequest(u, q, m)
  PROVE  InstanceFound'
<1>1. wanted' = wanted /\ request' = <<u, q, m>>
  BY DEF ProcessRequest
<1> SUFFICES ASSUME reply'.outcome = "notfound", q.kept = <<>>, NEW i \in 1..Len(wanted),
                    wanted[i].method = m, EndsInText(wanted[i].path), Instance(wanted[i].path, u)
             PROVE  FALSE
  <2>1. DOMAIN wanted = 1..Len(wanted)
    BY DEF IInv, Tables
  <2>2. QED BY <1>1, <2>1 DEF InstanceFound
<1>2. NameOf(u, q) = u /\ u \in Seq(Text)
  BY RouterAssumption DEF NameOf
<1>3. Hits(m, u) = {}
  BY <1>2 DEF ProcessRequest, Silent
<1>4. PICK p \in Seq(T) : p = wanted[i].path
  <2>1. wanted[i] \in Registration
    BY DEF IInv, Tables
  <2>2. wanted[i].path \in Pattern
    BY <2>1 DEF Registration
  <2>3. QED BY <2>2, Paths
<1>5. PICK j \in 1..Len(handlers[HandlerMap(m)]) :
        /\ handlers[HandlerMap(m)][j].method = m
        /\ Equals(handlers[HandlerMap(m)][j].path, p)
  BY <1>4 DEF Covered, Covers
<1>6. handlers[HandlerMap(m)] \in Seq(Entry) /\ handlers[HandlerMap(m)][j] \in Entry
  BY MapIsMap DEF IInv, Tables
<1>7. PICK k \in Seq(T) : k = handlers[HandlerMap(m)][j].path
  BY <1>6, Paths DEF Entry
<1>8. Equals(k, u)
  BY <1>2, <1>4, <1>5, <1>7, InstanceEqual
<1>9. j \in Hits(m, u)
  BY <1>5, <1>6, <1>7, <1>8 DEF Hits
<1>10. QED BY <1>3, <1>9

\* A request for an instance of a registered pattern that ends in text finds a
\* handler, whatever was registered after it: an entry that is taken over keeps
\* its key, and what is equal to a pattern is equal to its instances.
THEOREM InstancesAreFound == Spec => []InstanceFound
<1>1. Init => Covered /\ InstanceFound
  BY DEF Init, Covered, InstanceFound, Silent
<1>2. IInv /\ Covered /\ InstanceFound /\ [Next]_vars => Covered' /\ InstanceFound'
  <2> SUFFICES ASSUME IInv, Covered, InstanceFound, [Next]_vars PROVE Covered' /\ InstanceFound'
    OBVIOUS
  <2>1. CASE UNCHANGED vars \/ Start
    BY <2>1 DEF vars, Start, Covered, InstanceFound
  <2>2. ASSUME NEW p \in Pattern, NEW m \in Method, NEW b \in Body, Register(p, m, b)
        PROVE  Covered' /\ InstanceFound'
    <3>1. reply'.outcome = "none"
      BY <2>2 DEF Register, IInv
    <3>2. QED BY <2>2, <3>1, RegisterCovers DEF InstanceFound
  <2>3. ASSUME NEW u \in Url, NEW q \in Query, NEW m \in Method, ProcessRequest(u, q, m)
        PROVE  Covered' /\ InstanceFound'
    <3>1. Covered'
      BY <2>3 DEF ProcessRequest, Covered
    <3>2. QED BY <2>3, <3>1, NotFoundIsForeign
  <2>4. CASE Return
    BY <2>4 DEF Return, Silent, Covered, InstanceFound
  <2>5. QED BY <2>1, <2>2, <2>3, <2>4 DEF Next
<1>3. QED BY <1>1, <1>2, InitInv, StepInv, PTL DEF Spec
=============================================================================

--------------------------- MODULE InputDataProofs ---------------------------
(* Proofs about InputData for any files, readers, days and number of calls.  *)
EXTENDS InputData, SequenceTheorems, WellFoundedInduction, TLAPS

------------------------------------------------------------------------------
(* Loops.  The least number for which a claim fails has one before it for    *)
(* which it holds: that is how the loops over columns are reasoned about.    *)
LEMMA LessIsWellFounded ==
  IsWellFoundedOn({ss \in Nat \X Nat : ss[1] < ss[2]}, Nat)
BY NatLessThanWellFounded, Zenon DEF OpToRel

\* A set of numbers that is not empty has a least one.
LEMMA LeastNat ==
  ASSUME NEW T \in SUBSET Nat, T # {}
  PROVE \E n \in T : \A m \in T : n <= m
<1> DEFINE R == {ss \in Nat \X Nat : ss[1] < ss[2]}
<1>1. IsWellFoundedOn(R, Nat)
  BY LessIsWellFounded
<1>2. PICK n \in T : \A m \in T : ~(<<m, n>> \in R)
  <2> HIDE DEF R
  <2> QED BY <1>1, WFMin
<1>3. ASSUME NEW m \in T, m < n PROVE FALSE
  <2>1. <<m, n>> \in Nat \X Nat /\ <<m, n>>[1] < <<m, n>>[2]
    BY <1>3
  <2>2. <<m, n>> \in R
    BY <2>1
  <2> QED BY <2>2, <1>2
<1> QED BY <1>2, <1>3

\* A set of numbers with 0 and the successor of each member below n has n.
LEMMA UpTo ==
  ASSUME NEW n \in Nat, NEW S, 0 \in S, \A i \in 1 .. n : i - 1 \in S => i \in S
  PROVE \A i \in 0 .. n : i \in S
<1> DEFINE T == {i \in 0 .. n : i \notin S}
<1> SUFFICES ASSUME T # {} PROVE FALSE
  OBVIOUS
<1>1. T \in SUBSET Nat
  OBVIOUS
<1> HIDE DEF T
<1>2. PICK i \in T : \A m \in T : i <= m
  BY <1>1, LeastNat
<1>3. i \in 0 .. n /\ i \notin S
  BY <1>2 DEF T
<1>4. i \in 1 .. n /\ i - 1 \in 0 .. n
  BY <1>3
<1>5. i - 1 \in S
  BY <1>2, <1>4 DEF T
<1> QED BY <1>3, <1>4, <1>5

------------------------------------------------------------------------------
(* Chosen.                                                                   *)

ChosenStep(s, S, i, t) == IF s[i] \in S THEN Append(t, s[i]) ELSE t
ChosenUpTo(s, S, n) ==
  \E f : f = [i \in 0 .. n |-> IF i = 0 THEN <<>> ELSE ChosenStep(s, S, i, f[i - 1])]

\* The recursive function Chosen is defined with is there for any bound n.
LEMMA ChosenExists ==
  ASSUME NEW s, NEW S, NEW n \in Nat
  PROVE ChosenUpTo(s, S, n)
<1> DEFINE T == {m \in Nat : ChosenUpTo(s, S, m)}
<1>1. 0 \in T
  <2> DEFINE f == [i \in 0 .. 0 |-> <<>>]
  <2>1. f = [i \in 0 .. 0 |-> IF i = 0 THEN <<>> ELSE ChosenStep(s, S, i, f[i - 1])]
    OBVIOUS
  <2> QED BY <2>1 DEF ChosenUpTo
<1>2. ASSUME NEW m \in 1 .. n, m - 1 \in T PROVE m \in T
  <2>1. PICK f : f = [i \in 0 .. m - 1 |-> IF i = 0 THEN <<>> ELSE ChosenStep(s, S, i, f[i - 1])]
    BY <1>2 DEF ChosenUpTo
  <2> DEFINE g == [i \in 0 .. m |-> IF i = m THEN ChosenStep(s, S, m, f[m - 1]) ELSE f[i]]
  <2>2. \A i \in 0 .. m : g[i] = IF i = 0 THEN <<>> ELSE ChosenStep(s, S, i, g[i - 1])
    BY <2>1
  <2>3. g = [i \in 0 .. m |-> IF i = 0 THEN <<>> ELSE ChosenStep(s, S, i, g[i - 1])]
    BY <2>2
  <2> HIDE DEF g
  <2> QED BY <2>3 DEF ChosenUpTo
<1> HIDE DEF T
<1>3. n \in T
  BY <1>1, <1>2, UpTo
<1> QED BY <1>3 DEF T

\* What Chosen does, element by element.
LEMMA ChosenLoop ==
  ASSUME NEW s, Len(s) \in Nat, NEW S
  PROVE \E f : /\ f[0] = <<>>
               /\ \A i \in 1 .. Len(s) : f[i] = ChosenStep(s, S, i, f[i - 1])
               /\ Chosen(s, S) = f[Len(s)]
<1> DEFINE f == CHOOSE f : f = [i \in 0 .. Len(s) |-> IF i = 0 THEN <<>> ELSE ChosenStep(s, S, i, f[i - 1])]
<1>1. f = [i \in 0 .. Len(s) |-> IF i = 0 THEN <<>> ELSE ChosenStep(s, S, i, f[i - 1])]
  BY ChosenExists DEF ChosenUpTo
<1>2. Chosen(s, S) = f[Len(s)]
  BY Zenon DEF Chosen, ChosenStep
<1> HIDE DEF f
<1> QED BY <1>1, <1>2

ChosenSoFar(s, S, t, i) ==
  /\ \A j \in 1 .. Len(t) : t[j] \in S /\ \E k \in 1 .. i : t[j] = s[k]
  /\ \A k \in 1 .. i : s[k] \in S => \E j \in 1 .. Len(t) : t[j] = s[k]

\* Chosen(s, S) has the elements of s that are in S and no others, each as
\* often as s.
LEMMA ChosenFacts ==
  ASSUME NEW C, NEW s \in Seq(C), NEW S
  PROVE /\ Chosen(s, S) \in Seq(C)
        /\ ChosenSoFar(s, S, Chosen(s, S), Len(s))
        /\ (\A i, j \in 1 .. Len(s) : s[i] = s[j] => i = j)
           => \A i, j \in 1 .. Len(Chosen(s, S)) : Chosen(s, S)[i] = Chosen(s, S)[j] => i = j
<1>1. PICK f : /\ f[0] = <<>>
               /\ \A i \in 1 .. Len(s) : f[i] = ChosenStep(s, S, i, f[i - 1])
               /\ Chosen(s, S) = f[Len(s)]
  BY ChosenLoop
<1> DEFINE Single(t) == \A i, j \in 1 .. Len(t) : t[i] = t[j] => i = j
           T == {i \in 0 .. Len(s) : f[i] \in Seq(C) /\ ChosenSoFar(s, S, f[i], i)
                                     /\ (Single(s) => Single(f[i]))}
<1>2. 0 \in T
  <2>1. f[0] = <<>> /\ f[0] \in Seq(C) /\ Len(f[0]) = 0 /\ 0 \in 0 .. Len(s)
    BY <1>1
  <2>2. ChosenSoFar(s, S, f[0], 0)
    BY <2>1 DEF ChosenSoFar
  <2>3. Single(f[0])
    BY <2>1
  <2> HIDE DEF Single
  <2> QED BY <2>1, <2>2, <2>3
<1>3. ASSUME NEW i \in 1 .. Len(s), i - 1 \in T PROVE i \in T
  <2> DEFINE t == f[i - 1]  u == f[i]
  <2>1. /\ t \in Seq(C) /\ ChosenSoFar(s, S, t, i - 1) /\ (Single(s) => Single(t))
        /\ u = ChosenStep(s, S, i, t) /\ s[i] \in C
    <3> HIDE DEF Single
    <3>1. /\ t \in Seq(C) /\ ChosenSoFar(s, S, t, i - 1) /\ (Single(s) => Single(t))
      BY <1>3
    <3>2. u = ChosenStep(s, S, i, t) /\ s[i] \in C
      BY <1>1
    <3> QED BY <3>1, <3>2
  <2> HIDE DEF t, u
  <2>2. CASE s[i] \in S
    <3>1. /\ u \in Seq(C) /\ Len(u) = Len(t) + 1 /\ u[Len(u)] = s[i]
          /\ \A j \in 1 .. Len(t) : u[j] = t[j]
      BY <2>1, <2>2 DEF ChosenStep
    <3>2. ChosenSoFar(s, S, u, i)
      <4>1. ASSUME NEW j \in 1 .. Len(u) PROVE u[j] \in S /\ \E k \in 1 .. i : u[j] = s[k]
        <5>1. CASE j = Len(u)
          BY <5>1, <3>1, <2>2
        <5>2. CASE j \in 1 .. Len(t)
          BY <5>2, <3>1, <2>1 DEF ChosenSoFar
        <5> QED BY <5>1, <5>2, <3>1, <2>1
      <4>2. ASSUME NEW k \in 1 .. i, s[k] \in S PROVE \E j \in 1 .. Len(u) : u[j] = s[k]
        <5>1. CASE k = i
          BY <5>1, <3>1, <2>1
        <5>2. CASE k \in 1 .. i - 1
          <6>1. PICK j \in 1 .. Len(t) : t[j] = s[k]
            BY <5>2, <4>2, <2>1 DEF ChosenSoFar
          <6> QED BY <6>1, <3>1, <2>1
        <5> QED BY <5>1, <5>2
      <4> QED BY <4>1, <4>2 DEF ChosenSoFar
    <3>3. ASSUME Single(s) PROVE Single(u)
      <4>1. ASSUME NEW j \in 1 .. Len(t) PROVE t[j] # s[i]
        <5>1. PICK k \in 1 .. i - 1 : t[j] = s[k]
          BY <2>1 DEF ChosenSoFar
        <5> QED BY <5>1, <3>3
      <4> QED BY <4>1, <3>1, <3>3, <2>1
    <3> HIDE DEF Single
    <3> QED BY <3>1, <3>2, <3>3 DEF u
  <2>3. CASE s[i] \notin S
    <3>1. u = t
      BY <2>1, <2>3 DEF ChosenStep
    <3>2. ChosenSoFar(s, S, u, i)
      <4>1. ASSUME NEW j \in 1 .. Len(t) PROVE t[j] \in S /\ \E k \in 1 .. i : t[j] = s[k]
        BY <2>1 DEF ChosenSoFar
      <4>2. ASSUME NEW k \in 1 .. i, s[k] \in S PROVE \E j \in 1 .. Len(t) : t[j] = s[k]
        <5>1. k \in 1 .. i - 1
          BY <4>2, <2>3
        <5> QED BY <5>1, <4>2, <2>1 DEF ChosenSoFar
      <4> QED BY <4>1, <4>2, <3>1 DEF ChosenSoFar
    <3> HIDE DEF Single
    <3> QED BY <3>1, <3>2, <2>1 DEF u
  <2> QED BY <2>2, <2>3
<1> HIDE DEF T
<1>4. Len(s) \in Nat
  OBVIOUS
<1>5. \A i \in 0 .. Len(s) : i \in T
  BY <1>2, <1>3, <1>4, UpTo
<1>6. Len(s) \in T
  BY <1>4, <1>5
<1> QED BY <1>1, <1>6 DEF T

------------------------------------------------------------------------------
(* The vectors of an InputData: of the n that were made of kind k, each is   *)
(* once in use (l) or once in the pool (p).                                  *)
Vector == Kinds \X Nat
Vectors(k, n) == {<<k, i>> : i \in 1 .. n}
In(v, s) == \E j \in 1 .. Len(s) : s[j] = v
Once(s) == \A i, j \in 1 .. Len(s) : s[i] = s[j] => i = j

Owns(k, l, p, n) ==
  /\ Len(l) + Len(p) = n
  /\ \A v \in Vectors(k, n) : In(v, l) \/ In(v, p)
  /\ \A v : In(v, l) \/ In(v, p) => v \in Vectors(k, n)
  /\ \A v : ~(In(v, l) /\ In(v, p))
  /\ Once(l) /\ Once(p)

\* What is in a sequence to which v was appended.
LEMMA AppendFacts ==
  ASSUME NEW C, NEW s \in Seq(C), NEW v \in C
  PROVE /\ Append(s, v) \in Seq(C) /\ Len(Append(s, v)) = Len(s) + 1
        /\ \A w : In(w, Append(s, v)) <=> In(w, s) \/ w = v
        /\ Once(s) /\ ~In(v, s) => Once(Append(s, v))
<1> DEFINE t == Append(s, v)
<1>1. /\ t \in Seq(C) /\ Len(t) = Len(s) + 1 /\ t[Len(s) + 1] = v /\ Len(s) \in Nat
      /\ \A i \in 1 .. Len(s) : t[i] = s[i]
  OBVIOUS
<1> HIDE DEF t
<1>2. ASSUME NEW w PROVE In(w, t) <=> In(w, s) \/ w = v
  <2>1. In(w, s) => In(w, t)
    BY <1>1 DEF In
  <2>2. w = v => In(w, t)
    BY <1>1 DEF In
  <2>3. In(w, t) => In(w, s) \/ w = v
    BY <1>1 DEF In
  <2> QED BY <2>1, <2>2, <2>3
<1>3. ASSUME Once(s), ~In(v, s) PROVE Once(t)
  BY <1>1, <1>3 DEF Once, In
<1> QED BY <1>1, <1>2, <1>3 DEF t

\* A sequence has what is in its front, and its last element.
LEMMA FrontFacts ==
  ASSUME NEW C, NEW s \in Seq(C), s # <<>>
  PROVE /\ Front(s) \in Seq(C) /\ Len(Front(s)) = Len(s) - 1 /\ Len(s) \in Nat \ {0}
        /\ Last(s) \in C
        /\ \A w : In(w, s) <=> In(w, Front(s)) \/ w = Last(s)
        /\ Once(s) => Once(Front(s)) /\ ~In(Last(s), Front(s))
<1> DEFINE t == Front(s)
<1>1. /\ t \in Seq(C) /\ Len(t) = Len(s) - 1 /\ Len(s) \in Nat \ {0}
      /\ \A i \in 1 .. Len(t) : t[i] = s[i]
  <2>1. Len(s) \in Nat \ {0}
    OBVIOUS
  <2>2. t = SubSeq(s, 1, Len(s) - 1)
    BY DEF Front
  <2>3. /\ SubSeq(s, 1, Len(s) - 1) \in Seq(C) /\ Len(SubSeq(s, 1, Len(s) - 1)) = Len(s) - 1
        /\ \A i \in 1 .. Len(s) - 1 : SubSeq(s, 1, Len(s) - 1)[i] = s[i]
    <3>1. \A i \in 1 .. Len(s) - 1 : s[i] \in C
      BY <2>1
    <3>2. 1 \in Int /\ Len(s) - 1 \in Int
      BY <2>1
    <3> DEFINE n == Len(s) - 1
    <3>3. /\ SubSeq(s, 1, n) \in Seq(C) /\ Len(SubSeq(s, 1, n)) = IF 1 <= n THEN n - 1 + 1 ELSE 0
          /\ \A i \in 1 .. n - 1 + 1 : SubSeq(s, 1, n)[i] = s[1 + i - 1]
      <4> HIDE DEF n
      <4> QED BY <3>1, <3>2, SubSeqProperties DEF n
    <3>4. n \in Nat /\ n - 1 + 1 = n /\ \A i \in 1 .. n : 1 + i - 1 = i
      BY <2>1
    <3> QED BY <3>3, <3>4
  <2> HIDE DEF t
  <2> QED BY <2>1, <2>2, <2>3
<1>2. Last(s) = s[Len(s)] /\ Last(s) \in C
  BY <1>1 DEF Last
<1> HIDE DEF t
<1>3. ASSUME NEW w PROVE In(w, s) <=> In(w, t) \/ w = Last(s)
  <2>1. In(w, t) => In(w, s)
    BY <1>1 DEF In
  <2>2. w = Last(s) => In(w, s)
    BY <1>1, <1>2 DEF In
  <2>3. In(w, s) => In(w, t) \/ w = Last(s)
    BY <1>1, <1>2 DEF In
  <2> QED BY <2>1, <2>2, <2>3
<1>4. ASSUME Once(s) PROVE Once(t) /\ ~In(Last(s), t)
  BY <1>1, <1>2, <1>4 DEF Once, In
<1> QED BY <1>1, <1>2, <1>3, <1>4 DEF t

\* What is in two sequences put together.
LEMMA ConcatFacts ==
  ASSUME NEW C, NEW s \in Seq(C), NEW t \in Seq(C)
  PROVE /\ s \o t \in Seq(C) /\ Len(s \o t) = Len(s) + Len(t)
        /\ \A w : In(w, s \o t) <=> In(w, s) \/ In(w, t)
        /\ Once(s) /\ Once(t) /\ (\A w : ~(In(w, s) /\ In(w, t))) => Once(s \o t)
<1> DEFINE u == s \o t
<1>1. /\ u \in Seq(C) /\ Len(u) = Len(s) + Len(t) /\ Len(s) \in Nat /\ Len(t) \in Nat
      /\ \A i \in 1 .. Len(u) : u[i] = IF i <= Len(s) THEN s[i] ELSE t[i - Len(s)]
  OBVIOUS
<1> HIDE DEF u
<1>2. ASSUME NEW w PROVE In(w, u) <=> In(w, s) \/ In(w, t)
  <2>1. In(w, s) => In(w, u)
    BY <1>1 DEF In
  <2>2. ASSUME NEW j \in 1 .. Len(t), t[j] = w PROVE In(w, u)
    <3>1. j + Len(s) \in 1 .. Len(u) /\ u[j + Len(s)] = w
      <4>1. j + Len(s) \in 1 .. Len(u) /\ ~(j + Len(s) <= Len(s)) /\ (j + Len(s)) - Len(s) = j
        BY <1>1
      <4>2. u[j + Len(s)] = t[(j + Len(s)) - Len(s)]
        BY <1>1, <4>1
      <4> QED BY <4>1, <4>2, <2>2
    <3> QED BY <3>1 DEF In
  <2>3. ASSUME NEW j \in 1 .. Len(u), u[j] = w PROVE In(w, s) \/ In(w, t)
    <3>1. CASE j <= Len(s)
      BY <3>1, <2>3, <1>1 DEF In
    <3>2. CASE j > Len(s)
      <4>1. j - Len(s) \in 1 .. Len(t) /\ t[j - Len(s)] = w
        BY <3>2, <2>3, <1>1
      <4> QED BY <4>1 DEF In
    <3> QED BY <3>1, <3>2, <1>1
  <2> QED BY <2>1, <2>2, <2>3 DEF In
<1>3. ASSUME Once(s), Once(t), \A w : ~(In(w, s) /\ In(w, t)),
             NEW i \in 1 .. Len(u), NEW j \in 1 .. Len(u), u[i] = u[j]
      PROVE i = j
  <2>1. CASE i <= Len(s) /\ j <= Len(s)
    <3>1. i \in 1 .. Len(s) /\ j \in 1 .. Len(s) /\ s[i] = s[j]
      BY <2>1, <1>1, <1>3
    <3> QED BY <3>1, <1>3 DEF Once
  <2>2. CASE i > Len(s) /\ j > Len(s)
    <3>1. /\ i - Len(s) \in 1 .. Len(t) /\ j - Len(s) \in 1 .. Len(t)
          /\ t[i - Len(s)] = t[j - Len(s)]
      BY <2>2, <1>1, <1>3
    <3>2. i - Len(s) = j - Len(s)
      BY <3>1, <1>3 DEF Once
    <3> QED BY <3>2, <1>1
  <2>3. CASE i <= Len(s) /\ j > Len(s)
    <3>1. i \in 1 .. Len(s) /\ j - Len(s) \in 1 .. Len(t) /\ s[i] = t[j - Len(s)]
      BY <2>3, <1>1, <1>3
    <3> QED BY <3>1, <1>3 DEF In
  <2>4. CASE i > Len(s) /\ j <= Len(s)
    <3>1. j \in 1 .. Len(s) /\ i - Len(s) \in 1 .. Len(t) /\ s[j] = t[i - Len(s)]
      BY <2>4, <1>1, <1>3
    <3> QED BY <3>1, <1>3 DEF In
  <2> QED BY <2>1, <2>2, <2>3, <2>4, <1>1
<1> QED BY <1>1, <1>2, <1>3 DEF u, Once

\* Putting a vector in use, from the pool or newly made.
LEMMA OwnsTaken ==
  ASSUME NEW k \in Kinds, NEW l \in Seq(Vector), NEW p \in Seq(Vector), NEW n \in Nat,
         Owns(k, l, p, n), p # <<>>
  PROVE /\ Owns(k, Append(l, Last(p)), Front(p), n) /\ ~In(Last(p), l)
        /\ Last(p) \in Vectors(k, n)
<1>1. /\ Front(p) \in Seq(Vector) /\ Len(Front(p)) = Len(p) - 1 /\ Len(p) \in Nat \ {0}
      /\ Last(p) \in Vector /\ \A w : In(w, p) <=> In(w, Front(p)) \/ w = Last(p)
      /\ Once(Front(p)) /\ ~In(Last(p), Front(p))
  BY FrontFacts DEF Owns
<1>2. In(Last(p), p) /\ ~In(Last(p), l) /\ Last(p) \in Vectors(k, n)
  BY <1>1 DEF Owns
<1>3. /\ Len(Append(l, Last(p))) = Len(l) + 1 /\ Len(l) \in Nat
      /\ \A w : In(w, Append(l, Last(p))) <=> In(w, l) \/ w = Last(p)
      /\ Once(Append(l, Last(p)))
  BY <1>1, <1>2, AppendFacts DEF Owns
<1>4. Len(Append(l, Last(p))) + Len(Front(p)) = n
  BY <1>1, <1>3 DEF Owns
<1> QED BY <1>1, <1>2, <1>3, <1>4, Zenon DEF Owns

\* A vector made is in use from then on, and no other has its number.
LEMMA OwnsMade ==
  ASSUME NEW k \in Kinds, NEW l \in Seq(Vector), NEW n \in Nat, Owns(k, l, <<>>, n)
  PROVE /\ Owns(k, Append(l, <<k, n + 1>>), <<>>, n + 1) /\ ~In(<<k, n + 1>>, l)
        /\ <<k, n + 1>> \in Vectors(k, n + 1)
<1> DEFINE v == <<k, n + 1>>
<1>1. v \in Vector /\ v \in Vectors(k, n + 1) /\ v \notin Vectors(k, n)
  BY DEF Vector, Vectors
<1>2. \A w : w \in Vectors(k, n + 1) <=> w \in Vectors(k, n) \/ w = v
  BY DEF Vectors
<1> HIDE DEF v
<1>3. ~In(v, l)
  BY <1>1 DEF Owns
<1>4. /\ Len(Append(l, v)) = Len(l) + 1 /\ Len(l) \in Nat
      /\ \A w : In(w, Append(l, v)) <=> In(w, l) \/ w = v
      /\ Once(Append(l, v))
  BY <1>1, <1>3, AppendFacts DEF Owns
<1>5. Len(<<>>) = 0 /\ \A w : ~In(w, <<>>)
  BY DEF In
<1>6. Len(Append(l, v)) + Len(<<>>) = n + 1
  BY <1>4, <1>5 DEF Owns
<1>7. Owns(k, Append(l, v), <<>>, n + 1)
  BY <1>2, <1>4, <1>5, <1>6, Zenon DEF Owns
<1> QED BY <1>1, <1>3, <1>7 DEF v

\* Everything goes to the pool.
LEMMA OwnsCleared ==
  ASSUME NEW k \in Kinds, NEW l \in Seq(Vector), NEW p \in Seq(Vector), NEW n \in Nat,
         Owns(k, l, p, n)
  PROVE Owns(k, <<>>, p \o l, n)
<1>1. /\ Len(p \o l) = Len(p) + Len(l) /\ Len(p) \in Nat /\ Len(l) \in Nat
      /\ \A w : In(w, p \o l) <=> In(w, p) \/ In(w, l)
      /\ Once(p \o l)
  <2>1. Once(p) /\ Once(l) /\ \A w : ~(In(w, p) /\ In(w, l))
    BY DEF Owns
  <2> QED BY <2>1, ConcatFacts
<1>2. Len(<<>>) = 0 /\ Once(<<>>) /\ \A w : ~In(w, <<>>)
  BY DEF In, Once
<1>3. Len(<<>>) + Len(p \o l) = n
  BY <1>1, <1>2 DEF Owns
<1> QED BY <1>1, <1>2, <1>3, Zenon DEF Owns

------------------------------------------------------------------------------
(* InputData.                                                                *)

Column == [name : STRING, type : Kinds, vec : Vector]
Record(s) == s = [live |-> s.live, pool |-> s.pool, made |-> s.made, data |-> s.data, cols |-> s.cols]
IsLive(s, v) == In(v, s.live[v[1]])
Grown(s, t) == DOMAIN s.data \subseteq DOMAIN t.data

\* Every vector made is owned, has contents, and columns show live ones.
StoreOK(s) ==
  /\ Record(s)
  /\ s.live \in [Kinds -> Seq(Vector)] /\ s.pool \in [Kinds -> Seq(Vector)]
  /\ s.made \in [Kinds -> Nat]
  /\ \A k \in Kinds : Owns(k, s.live[k], s.pool[k], s.made[k])
  /\ \A k \in Kinds : Vectors(k, s.made[k]) \subseteq DOMAIN s.data
  /\ s.cols \in Seq(Column)
  /\ \A i \in 1 .. Len(s.cols) : s.cols[i].vec[1] = s.cols[i].type /\ IsLive(s, s.cols[i].vec)

\* A new InputData is well formed.
LEMMA NewStoreOK == StoreOK(NewStore)
<1>1. /\ Record(NewStore) /\ NewStore.live = [k \in Kinds |-> <<>>]
      /\ NewStore.pool = [k \in Kinds |-> <<>>] /\ NewStore.made = [k \in Kinds |-> 0]
      /\ NewStore.cols = <<>>
  BY DEF NewStore, Record
<1>2. <<>> \in Seq(Vector) /\ <<>> \in Seq(Column) /\ Len(<<>>) = 0
  OBVIOUS
<1>3. Once(<<>>) /\ \A w : ~In(w, <<>>)
  BY DEF In, Once
<1>4. ASSUME NEW k PROVE Vectors(k, 0) = {} /\ Owns(k, <<>>, <<>>, 0)
  <2>1. Vectors(k, 0) = {}
    BY DEF Vectors
  <2> QED BY <2>1, <1>2, <1>3 DEF Owns
<1> QED BY <1>1, <1>2, <1>4 DEF StoreOK

\* What new_type_vec changes: the vector it gives was not in use, and all
\* others that were keep their contents.
NewVecEffect(s, k, p, t) ==
  LET v == NextVec(s, k)
  IN /\ t.live = [s.live EXCEPT ![k] = Append(@, v)]
     /\ t.cols = s.cols /\ Grown(s, t)
     /\ v[1] = k /\ v \in Vector /\ ~IsLive(s, v) /\ IsLive(t, v) /\ t.data[v] = p
     /\ \A w : w[1] \in Kinds /\ IsLive(s, w) => IsLive(t, w) /\ t.data[w] = s.data[w]

\* new_type_vec keeps an InputData well formed and changes no vector in use.
LEMMA NewVecFacts ==
  ASSUME NEW s, StoreOK(s), NEW k \in Kinds, NEW p
  PROVE StoreOK(NewVec(s, k, p)) /\ NewVecEffect(s, k, p, NewVec(s, k, p))
<1> DEFINE v == NextVec(s, k)
           t == NewVec(s, k, p)
           q == IF s.pool[k] # <<>> THEN Front(s.pool[k]) ELSE s.pool[k]
           n == IF s.pool[k] # <<>> THEN s.made[k] ELSE s.made[k] + 1
<1>1. /\ Record(t)
      /\ t.live = [s.live EXCEPT ![k] = Append(@, v)]
      /\ t.pool = [s.pool EXCEPT ![k] = q]
      /\ t.made = [s.made EXCEPT ![k] = n]
      /\ t.data = Holding(s.data, v, p)
      /\ t.cols = s.cols
  <2>1. Record(s)
    BY DEF StoreOK
  <2>2. t = [live |-> [s.live EXCEPT ![k] = Append(@, v)], pool |-> [s.pool EXCEPT ![k] = q],
             made |-> [s.made EXCEPT ![k] = n], data |-> Holding(s.data, v, p), cols |-> s.cols]
    <3>1. PICK a, b, c, d, e : s = [live |-> a, pool |-> b, made |-> c, data |-> d, cols |-> e]
      BY <2>1 DEF Record
    <3>2. s.live = a /\ s.pool = b /\ s.made = c /\ s.data = d /\ s.cols = e
      BY <3>1
    <3> HIDE DEF v
    <3>3. t = [s EXCEPT !.live = [a EXCEPT ![k] = Append(@, v)],
                        !.pool = [b EXCEPT ![k] = q],
                        !.made = [c EXCEPT ![k] = n], !.data = Holding(d, v, p)]
      BY <3>1, <3>2 DEF NewVec, v
    <3> HIDE DEF q, n, t
    <3>4. t = [live |-> [a EXCEPT ![k] = Append(@, v)], pool |-> [b EXCEPT ![k] = q],
               made |-> [c EXCEPT ![k] = n], data |-> Holding(d, v, p), cols |-> e]
      BY <3>1, <3>3
    <3> QED BY <3>2, <3>4
  <2> HIDE DEF t
  <2> QED BY <2>2 DEF Record
<1>2. /\ s.live \in [Kinds -> Seq(Vector)] /\ s.pool \in [Kinds -> Seq(Vector)]
      /\ s.made \in [Kinds -> Nat] /\ Owns(k, s.live[k], s.pool[k], s.made[k])
  BY DEF StoreOK
<1>3. /\ q \in Seq(Vector) /\ n \in Nat /\ v \in Vectors(k, n) /\ ~In(v, s.live[k])
      /\ Owns(k, Append(s.live[k], v), q, n) /\ s.made[k] <= n
  <2>1. CASE s.pool[k] # <<>>
    <3>1. Front(s.pool[k]) \in Seq(Vector)
      BY <2>1, <1>2, FrontFacts
    <3> QED BY <3>1, <2>1, <1>2, OwnsTaken DEF NextVec
  <2>2. CASE s.pool[k] = <<>>
    BY <2>2, <1>2, OwnsMade DEF NextVec
  <2> QED BY <2>1, <2>2
<1> HIDE DEF v, t, q, n
<1>4. v \in Vector /\ v[1] = k
  BY <1>3 DEF Vector, Vectors
<1>5. /\ t.live \in [Kinds -> Seq(Vector)] /\ t.pool \in [Kinds -> Seq(Vector)]
      /\ t.made \in [Kinds -> Nat]
      /\ \A j \in Kinds : Owns(j, t.live[j], t.pool[j], t.made[j])
  <2>1. Append(s.live[k], v) \in Seq(Vector)
    BY <1>2, <1>4
  <2> QED BY <1>1, <1>2, <1>3, <2>1 DEF StoreOK
<1>6. \A w : w[1] \in Kinds /\ IsLive(s, w) => IsLive(t, w)
  BY <1>1, <1>2, <1>4, AppendFacts DEF IsLive
<1>7. ~IsLive(s, v) /\ IsLive(t, v)
  BY <1>1, <1>2, <1>3, <1>4, AppendFacts DEF IsLive
<1>8. t.data[v] = p /\ \A w \in DOMAIN s.data : w \in DOMAIN t.data /\ (w # v => t.data[w] = s.data[w])
  BY <1>1 DEF Holding
<1>9. ASSUME NEW w, w[1] \in Kinds, IsLive(s, w) PROVE t.data[w] = s.data[w]
  <2>1. w \in DOMAIN s.data /\ w # v
    BY <1>7, <1>9 DEF StoreOK, Owns, IsLive
  <2> QED BY <2>1, <1>8
<1>10. ASSUME NEW j \in Kinds PROVE Vectors(j, t.made[j]) \subseteq DOMAIN t.data
  <2>1. Vectors(j, s.made[j]) \subseteq DOMAIN t.data /\ v \in DOMAIN t.data
    BY <1>1, <1>8 DEF StoreOK, Holding
  <2>2. Vectors(j, t.made[j]) \subseteq Vectors(j, s.made[j]) \cup {v}
    <3>1. CASE j # k
      BY <3>1, <1>1, <1>2
    <3>2. CASE j = k /\ s.pool[k] # <<>>
      BY <3>2, <1>1, <1>2 DEF n
    <3>3. CASE j = k /\ s.pool[k] = <<>>
      <4>1. t.made[j] = s.made[k] + 1 /\ v = <<k, s.made[k] + 1>> /\ s.made[k] \in Nat
        BY <3>3, <1>1, <1>2 DEF n, v, NextVec
      <4> QED BY <4>1, <3>3 DEF Vectors
    <3> QED BY <3>1, <3>2, <3>3
  <2> QED BY <2>1, <2>2
<1>11. \A i \in 1 .. Len(t.cols) : t.cols[i].vec[1] = t.cols[i].type /\ IsLive(t, t.cols[i].vec)
  <2>1. ASSUME NEW i \in 1 .. Len(s.cols) PROVE s.cols[i].vec[1] \in Kinds /\ IsLive(s, s.cols[i].vec)
    <3>1. s.cols[i] \in Column /\ s.cols[i].vec[1] = s.cols[i].type
      BY DEF StoreOK
    <3> QED BY <3>1 DEF StoreOK, Column
  <2> QED BY <2>1, <1>1, <1>6 DEF StoreOK
<1>12. StoreOK(t)
  BY <1>1, <1>5, <1>10, <1>11 DEF StoreOK
<1>13. NewVecEffect(s, k, p, t)
  BY <1>1, <1>4, <1>6, <1>7, <1>8, <1>9 DEF NewVecEffect, Grown, v
<1> QED BY <1>12, <1>13 DEF t

\* clear keeps an InputData well formed and forgets no vector.
LEMMA ClearedFacts ==
  ASSUME NEW s, StoreOK(s)
  PROVE /\ StoreOK(Cleared(s))
        /\ Cleared(s).live = [k \in Kinds |-> <<>>] /\ Cleared(s).cols = <<>>
        /\ Cleared(s).made = s.made /\ Cleared(s).data = s.data /\ Grown(s, Cleared(s))
<1> DEFINE t == Cleared(s)
<1>1. PICK a, b, c, d, e : s = [live |-> a, pool |-> b, made |-> c, data |-> d, cols |-> e]
  BY DEF StoreOK, Record
<1>2. s.live = a /\ s.pool = b /\ s.made = c /\ s.data = d /\ s.cols = e
  BY <1>1
<1>3. t = [live |-> [k \in Kinds |-> <<>>], pool |-> [k \in Kinds |-> b[k] \o a[k]],
           made |-> c, data |-> d, cols |-> <<>>]
  <2> DEFINE p == [k \in Kinds |-> b[k] \o a[k]]
             l == [k \in Kinds |-> <<>>]
  <2>1. t = [s EXCEPT !.pool = p, !.live = l, !.cols = <<>>]
    BY <1>1, <1>2 DEF Cleared
  <2> HIDE DEF p, l, t
  <2>2. t = [live |-> l, pool |-> p, made |-> c, data |-> d, cols |-> <<>>]
    BY <1>1, <2>1
  <2> QED BY <2>2 DEF p, l
<1> HIDE DEF t
<1>4. /\ a \in [Kinds -> Seq(Vector)] /\ b \in [Kinds -> Seq(Vector)] /\ c \in [Kinds -> Nat]
      /\ \A k \in Kinds : Owns(k, a[k], b[k], c[k]) /\ Vectors(k, c[k]) \subseteq DOMAIN d
  BY <1>2 DEF StoreOK
<1>5. <<>> \in Seq(Vector) /\ <<>> \in Seq(Column) /\ Len(<<>>) = 0
  OBVIOUS
<1>6. ASSUME NEW k \in Kinds PROVE b[k] \o a[k] \in Seq(Vector) /\ Owns(k, <<>>, b[k] \o a[k], c[k])
  BY <1>4, OwnsCleared
<1>7. /\ t.live = [k \in Kinds |-> <<>>] /\ t.pool = [k \in Kinds |-> b[k] \o a[k]]
      /\ t.made = c /\ t.data = d /\ t.cols = <<>> /\ Record(t)
  BY <1>3 DEF Record
<1>8. StoreOK(t)
  BY <1>4, <1>5, <1>6, <1>7 DEF StoreOK
<1> QED BY <1>2, <1>7, <1>8 DEF t, Grown

\* ~InputData deletes each vector once.
LEMMA DeletedFacts ==
  ASSUME NEW s, StoreOK(s), NEW k \in Kinds
  PROVE Len(DeletedBy(s, k)) = s.made[k] /\ Range(DeletedBy(s, k)) = {<<k, i>> : i \in 1 .. s.made[k]}
<1> DEFINE p == DeletedBy(s, k)  n == s.made[k]
<1>1. p \in Seq(Vector) /\ n \in Nat /\ Owns(k, <<>>, p, n)
  <2>1. StoreOK(Cleared(s)) /\ Cleared(s).live[k] = <<>> /\ Cleared(s).made[k] = n
    BY ClearedFacts
  <2> QED BY <2>1 DEF StoreOK, DeletedBy
<1> HIDE DEF p, n
<1>2. Len(<<>>) = 0 /\ \A w : ~In(w, <<>>)
  BY DEF In
<1>3. Len(p) = n
  BY <1>1, <1>2 DEF Owns
<1>4. \A v : In(v, p) <=> v \in Vectors(k, n)
  BY <1>1, <1>2 DEF Owns
<1>5. Range(p) = Vectors(k, n)
  BY <1>1, <1>4 DEF Range, In
<1> QED BY <1>3, <1>5 DEF Vectors, p, n

------------------------------------------------------------------------------
(* Reading a file.                                                           *)

ReadStep(f, format, want, i, t) ==
  IF want = {} \/ Files[f].cols[i].name \in want THEN ReadColumn(t, f, format, Files[f].cols[i]) ELSE t
ReadUpTo(s, f, format, want, n) ==
  \E g : g = [i \in 0 .. n |-> IF i = 0 THEN s ELSE ReadStep(f, format, want, i, g[i - 1])]

\* The same for the loop of ReadFile.
LEMMA ReadExists ==
  ASSUME NEW s, NEW f, NEW format, NEW want, NEW n \in Nat
  PROVE ReadUpTo(s, f, format, want, n)
<1> DEFINE T == {m \in Nat : ReadUpTo(s, f, format, want, m)}
<1>1. 0 \in T
  <2> DEFINE g == [i \in 0 .. 0 |-> s]
  <2>1. g = [i \in 0 .. 0 |-> IF i = 0 THEN s ELSE ReadStep(f, format, want, i, g[i - 1])]
    OBVIOUS
  <2> QED BY <2>1 DEF ReadUpTo
<1>2. ASSUME NEW m \in 1 .. n, m - 1 \in T PROVE m \in T
  <2>1. PICK g : g = [i \in 0 .. m - 1 |-> IF i = 0 THEN s ELSE ReadStep(f, format, want, i, g[i - 1])]
    BY <1>2 DEF ReadUpTo
  <2> DEFINE h == [i \in 0 .. m |-> IF i = m THEN ReadStep(f, format, want, m, g[m - 1]) ELSE g[i]]
  <2>2. \A i \in 0 .. m : h[i] = IF i = 0 THEN s ELSE ReadStep(f, format, want, i, h[i - 1])
    BY <2>1
  <2>3. h = [i \in 0 .. m |-> IF i = 0 THEN s ELSE ReadStep(f, format, want, i, h[i - 1])]
    BY <2>2
  <2> HIDE DEF h
  <2> QED BY <2>3 DEF ReadUpTo
<1> HIDE DEF T
<1>3. \A i \in 0 .. n : i \in T
  BY <1>1, <1>2, UpTo
<1>4. n \in T
  BY <1>3
<1> QED BY <1>4 DEF T

\* ReadFile goes over the columns of the file in their order.
LEMMA ReadLoop ==
  ASSUME NEW s, NEW f, NEW format, NEW want, Len(Files[f].cols) \in Nat
  PROVE \E g : /\ g[0] = s
               /\ \A i \in 1 .. Len(Files[f].cols) : g[i] = ReadStep(f, format, want, i, g[i - 1])
               /\ ReadFile(s, f, format, want) = g[Len(Files[f].cols)]
<1> DEFINE g == CHOOSE g : g = [i \in 0 .. Len(Files[f].cols) |->
                                  IF i = 0 THEN s ELSE ReadStep(f, format, want, i, g[i - 1])]
<1>1. g = [i \in 0 .. Len(Files[f].cols) |-> IF i = 0 THEN s ELSE ReadStep(f, format, want, i, g[i - 1])]
  <2>1. ReadUpTo(s, f, format, want, Len(Files[f].cols))
    BY ReadExists
  <2> QED BY <2>1, Zenon DEF ReadUpTo
<1>2. ReadFile(s, f, format, want) = g[Len(Files[f].cols)]
  BY DEF ReadFile, ReadStep
<1> HIDE DEF g
<1>3. g[0] = s /\ \A i \in 1 .. Len(Files[f].cols) : g[i] = ReadStep(f, format, want, i, g[i - 1])
  BY <1>1
<1> QED BY <1>2, <1>3, Zenon

\* The columns read so far are columns of the file, each with a vector of its
\* own that shows it.
ColumnsRead(t, f, n) ==
  /\ \A i \in 1 .. Len(t.cols) : LET c == t.cols[i] IN
       /\ t.data[c.vec] = <<c.name, f>>
       /\ c.name \in Keys => c.type = "int"
       /\ \E m \in 1 .. n : c.name = Files[f].cols[m].name
  /\ \A i, j \in 1 .. Len(t.cols) :
       t.cols[i].name = t.cols[j].name \/ t.cols[i].vec = t.cols[j].vec => i = j

\* Reading a column, or passing it over.
LEMMA ReadStepKeeps ==
  ASSUME NEW f \in DOMAIN Files, NEW format \in Formats, NEW want,
         NEW n \in 1 .. Len(Files[f].cols), NEW t, StoreOK(t), ColumnsRead(t, f, n - 1)
  PROVE LET u == ReadStep(f, format, want, n, t)
        IN StoreOK(u) /\ ColumnsRead(u, f, n) /\ Grown(t, u)
<1> DEFINE c == Files[f].cols[n]
           k == TypeIn(format, c)
           a == NewVec(t, k, <<c.name, f>>)
           v == NextVec(t, k)
           new == [name |-> c.name, type |-> k, vec |-> v]
           u == ReadColumn(t, f, format, c)
<1>1. /\ c.name \in STRING /\ c.type \in Kinds /\ (c.name \in Keys => c.type = "int")
      /\ n \in Nat
      /\ \A m \in 1 .. n - 1 : Files[f].cols[m].name # c.name
  <2>1. /\ Files[f].cols \in Seq([name : STRING, type : Kinds])
        /\ \A i, j \in DOMAIN Files[f].cols : 
             /\ Files[f].cols[i].name = Files[f].cols[j].name => i = j
             /\ Files[f].cols[i].name \in Keys => Files[f].cols[i].type = "int"
    BY FilesAssumption
  <2>2. /\ n \in Nat /\ n \in DOMAIN Files[f].cols
        /\ \A m \in 1 .. n - 1 : m \in DOMAIN Files[f].cols /\ m # n
    BY <2>1
  <2>3. c \in [name : STRING, type : Kinds]
    BY <2>1, <2>2, ElementOfSeq
  <2> QED BY <2>1, <2>2, <2>3
<1>2. k \in Kinds /\ (c.name \in Keys => k = "int")
  BY <1>1 DEF TypeIn, Kinds
<1> HIDE DEF c, k
<1>3. StoreOK(a) /\ NewVecEffect(t, k, <<c.name, f>>, a)
  BY <1>2, NewVecFacts
<1>4. u = [a EXCEPT !.cols = Append(@, new)]
  BY DEF ReadColumn, k
<1> HIDE DEF a, u, new, v
<1>5. /\ Record(u) /\ u.live = a.live /\ u.pool = a.pool /\ u.made = a.made /\ u.data = a.data
      /\ u.cols = Append(t.cols, new)
  <2>1. PICK l, p, m, d, e : a = [live |-> l, pool |-> p, made |-> m, data |-> d, cols |-> e]
    BY <1>3 DEF StoreOK, Record
  <2>2. u = [live |-> l, pool |-> p, made |-> m, data |-> d, cols |-> Append(e, new)]
    BY <1>4, <2>1
  <2>3. a.live = l /\ a.pool = p /\ a.made = m /\ a.data = d /\ a.cols = e
    BY <2>1
  <2>4. t.cols = e
    BY <1>3, <2>3 DEF NewVecEffect
  <2> QED BY <2>2, <2>3, <2>4 DEF Record
<1>6. /\ v[1] = k /\ v \in Vector /\ ~IsLive(t, v) /\ IsLive(a, v) /\ a.data[v] = <<c.name, f>>
      /\ \A w : w[1] \in Kinds /\ IsLive(t, w) => IsLive(a, w) /\ a.data[w] = t.data[w]
  BY <1>3 DEF NewVecEffect, v
<1>7. /\ new \in Column /\ new.name = c.name /\ new.type = k /\ new.vec = v
  BY <1>1, <1>2, <1>6 DEF new, Column
<1>8. /\ t.cols \in Seq(Column) /\ Len(t.cols) \in Nat
      /\ u.cols \in Seq(Column) /\ Len(u.cols) = Len(t.cols) + 1 /\ u.cols[Len(u.cols)] = new
      /\ \A i \in 1 .. Len(t.cols) : u.cols[i] = t.cols[i]
  <2>1. t.cols \in Seq(Column)
    BY DEF StoreOK
  <2> QED BY <2>1, <1>5, <1>7
<1>9. ASSUME NEW i \in 1 .. Len(t.cols)
      PROVE /\ t.cols[i].vec[1] \in Kinds /\ t.cols[i].vec[1] = t.cols[i].type
            /\ IsLive(t, t.cols[i].vec) /\ t.cols[i].vec # v /\ t.cols[i].name # c.name
  <2>1. t.cols[i] \in Column /\ t.cols[i].vec[1] = t.cols[i].type /\ IsLive(t, t.cols[i].vec)
    BY <1>8 DEF StoreOK
  <2>2. PICK m \in 1 .. n - 1 : t.cols[i].name = Files[f].cols[m].name
    BY DEF ColumnsRead
  <2> QED BY <2>1, <2>2, <1>1, <1>6 DEF Column
<1>10. \A w : IsLive(u, w) <=> IsLive(a, w)
  BY <1>5 DEF IsLive
<1>11. StoreOK(u)
  <2>1. ASSUME NEW i \in 1 .. Len(u.cols)
        PROVE u.cols[i].vec[1] = u.cols[i].type /\ IsLive(u, u.cols[i].vec)
    <3>1. CASE i = Len(u.cols)
      BY <3>1, <1>8, <1>7, <1>6, <1>10
    <3>2. CASE i \in 1 .. Len(t.cols)
      BY <3>2, <1>8, <1>9, <1>6, <1>10
    <3> QED BY <3>1, <3>2, <1>8
  <2> QED BY <2>1, <1>3, <1>5, <1>8 DEF StoreOK
<1>12. ColumnsRead(u, f, n)
  <2>1. ASSUME NEW i \in 1 .. Len(u.cols)
        PROVE /\ u.data[u.cols[i].vec] = <<u.cols[i].name, f>>
              /\ u.cols[i].name \in Keys => u.cols[i].type = "int"
              /\ \E m \in 1 .. n : u.cols[i].name = Files[f].cols[m].name
    <3>1. CASE i = Len(u.cols)
      BY <3>1, <1>1, <1>2, <1>5, <1>6, <1>7, <1>8 DEF c
    <3>2. CASE i \in 1 .. Len(t.cols)
      <4>1. /\ t.data[t.cols[i].vec] = <<t.cols[i].name, f>>
            /\ t.cols[i].name \in Keys => t.cols[i].type = "int"
            /\ \E m \in 1 .. n - 1 : t.cols[i].name = Files[f].cols[m].name
        BY <3>2 DEF ColumnsRead
      <4>2. u.data[u.cols[i].vec] = t.data[t.cols[i].vec]
        BY <3>2, <1>5, <1>6, <1>8, <1>9
      <4>3. \A m \in 1 .. n - 1 : m \in 1 .. n
        BY <1>1
      <4> QED BY <4>1, <4>2, <4>3, <3>2, <1>8
    <3> QED BY <3>1, <3>2, <1>8
  <2>2. ASSUME NEW i \in 1 .. Len(u.cols), NEW j \in 1 .. Len(u.cols), i # j
        PROVE u.cols[i].name # u.cols[j].name /\ u.cols[i].vec # u.cols[j].vec
    <3>1. CASE i \in 1 .. Len(t.cols) /\ j \in 1 .. Len(t.cols)
      BY <3>1, <2>2, <1>8 DEF ColumnsRead
    <3>2. CASE i = Len(u.cols)
      <4>1. j \in 1 .. Len(t.cols)
        BY <3>2, <2>2, <1>8
      <4> QED BY <4>1, <3>2, <1>7, <1>8, <1>9
    <3>3. CASE j = Len(u.cols)
      <4>1. i \in 1 .. Len(t.cols)
        BY <3>3, <2>2, <1>8
      <4> QED BY <4>1, <3>3, <1>7, <1>8, <1>9
    <3> QED BY <3>1, <3>2, <3>3, <1>8
  <2> QED BY <2>1, <2>2 DEF ColumnsRead
<1>13. CASE want = {} \/ c.name \in want
  <2>1. ReadStep(f, format, want, n, t) = u
    BY <1>13 DEF ReadStep, u, c
  <2>2. Grown(t, u)
    BY <1>3, <1>5 DEF NewVecEffect, Grown
  <2> QED BY <2>1, <2>2, <1>11, <1>12
<1>14. CASE ~(want = {} \/ c.name \in want)
  <2>1. ReadStep(f, format, want, n, t) = t
    BY <1>14 DEF ReadStep, c
  <2>2. ColumnsRead(t, f, n)
    BY <1>1 DEF ColumnsRead
  <2> QED BY <2>1, <2>2 DEF Grown
<1> QED BY <1>13, <1>14

\* Reading a file into a cleared InputData gives it the columns of the file.
LEMMA ReadFacts ==
  ASSUME NEW s, StoreOK(s), s.cols = <<>>, NEW f \in DOMAIN Files, NEW format \in Formats, NEW want
  PROVE LET r == ReadFile(s, f, format, want)
        IN StoreOK(r) /\ ColumnsRead(r, f, Len(Files[f].cols)) /\ Grown(s, r)
<1> DEFINE n == Len(Files[f].cols)
<1>1. n \in Nat
  BY FilesAssumption
<1>2. PICK g : /\ g[0] = s
               /\ \A i \in 1 .. n : g[i] = ReadStep(f, format, want, i, g[i - 1])
               /\ ReadFile(s, f, format, want) = g[n]
  BY <1>1, ReadLoop
<1> DEFINE T == {i \in 0 .. n : StoreOK(g[i]) /\ ColumnsRead(g[i], f, i) /\ Grown(s, g[i])}
<1> HIDE DEF n
<1>3. 0 \in T
  BY <1>1, <1>2 DEF ColumnsRead, Grown
<1>4. ASSUME NEW i \in 1 .. n, i - 1 \in T PROVE i \in T
  <2>1. /\ StoreOK(g[i - 1]) /\ ColumnsRead(g[i - 1], f, i - 1) /\ Grown(s, g[i - 1])
        /\ g[i] = ReadStep(f, format, want, i, g[i - 1]) /\ i \in 1 .. Len(Files[f].cols)
    BY <1>2, <1>4 DEF n
  <2>2. StoreOK(g[i]) /\ ColumnsRead(g[i], f, i) /\ Grown(g[i - 1], g[i])
    BY <2>1, ReadStepKeeps
  <2> QED BY <2>1, <2>2 DEF Grown
<1> HIDE DEF T
<1>5. \A i \in 0 .. n : i \in T
  BY <1>1, <1>3, <1>4, UpTo
<1>6. n \in T
  BY <1>1, <1>5
<1> QED BY <1>2, <1>6 DEF T, n

------------------------------------------------------------------------------
(* New columns of doubles.                                                   *)

\* t has the live vectors of s, with their contents.
Kept(s, t) == \A w : w[1] \in Kinds /\ IsLive(s, w) => IsLive(t, w) /\ t.data[w] = s.data[w]

DoublesUpTo(s, ps, n) ==
  \E g : g = [i \in 0 .. n |-> IF i = 0 THEN s ELSE NewVec(g[i - 1], "double", ps[i])]

\* The same for the loop of NewDoubles.
LEMMA DoublesExist ==
  ASSUME NEW s, NEW ps, NEW n \in Nat
  PROVE DoublesUpTo(s, ps, n)
<1> DEFINE T == {m \in Nat : DoublesUpTo(s, ps, m)}
<1>1. 0 \in T
  <2> DEFINE g == [i \in 0 .. 0 |-> s]
  <2>1. g = [i \in 0 .. 0 |-> IF i = 0 THEN s ELSE NewVec(g[i - 1], "double", ps[i])]
    OBVIOUS
  <2> QED BY <2>1 DEF DoublesUpTo
<1>2. ASSUME NEW m \in 1 .. n, m - 1 \in T PROVE m \in T
  <2>1. PICK g : g = [i \in 0 .. m - 1 |-> IF i = 0 THEN s ELSE NewVec(g[i - 1], "double", ps[i])]
    BY <1>2 DEF DoublesUpTo
  <2> DEFINE h == [i \in 0 .. m |-> IF i = m THEN NewVec(g[m - 1], "double", ps[m]) ELSE g[i]]
  <2>2. \A i \in 0 .. m : h[i] = IF i = 0 THEN s ELSE NewVec(h[i - 1], "double", ps[i])
    BY <2>1
  <2>3. h = [i \in 0 .. m |-> IF i = 0 THEN s ELSE NewVec(h[i - 1], "double", ps[i])]
    BY <2>2
  <2> HIDE DEF h
  <2> QED BY <2>3 DEF DoublesUpTo
<1> HIDE DEF T
<1>3. \A i \in 0 .. n : i \in T
  BY <1>1, <1>2, UpTo
<1>4. n \in T
  BY <1>3
<1> QED BY <1>4 DEF T

\* NewDoubles takes one vector after the other.
LEMMA DoublesLoop ==
  ASSUME NEW s, NEW ps, Len(ps) \in Nat
  PROVE \E g : /\ g[0] = s
               /\ \A i \in 1 .. Len(ps) : g[i] = NewVec(g[i - 1], "double", ps[i])
               /\ NewDoubles(s, ps) = g[Len(ps)]
<1> DEFINE g == CHOOSE g : g = [i \in 0 .. Len(ps) |-> IF i = 0 THEN s ELSE NewVec(g[i - 1], "double", ps[i])]
<1>1. g = [i \in 0 .. Len(ps) |-> IF i = 0 THEN s ELSE NewVec(g[i - 1], "double", ps[i])]
  BY DoublesExist DEF DoublesUpTo
<1>2. NewDoubles(s, ps) = g[Len(ps)]
  BY DEF NewDoubles
<1> HIDE DEF g
<1>3. g[0] = s /\ \A i \in 1 .. Len(ps) : g[i] = NewVec(g[i - 1], "double", ps[i])
  BY <1>1
<1> QED BY <1>2, <1>3, Zenon

\* After n of them: the i-th is behind those s had, and holds the i-th path.
DoublesMade(s, t, ps, n) ==
  LET m == Len(s.live["double"])
  IN /\ StoreOK(t) /\ t.cols = s.cols /\ Kept(s, t) /\ Grown(s, t)
     /\ t.live["int"] = s.live["int"]
     /\ Len(t.live["double"]) = m + n
     /\ \A i \in 1 .. m : t.live["double"][i] = s.live["double"][i]
     /\ \A i \in 1 .. n : t.data[t.live["double"][m + i]] = ps[i]

\* One more vector of doubles.
LEMMA DoublesStep ==
  ASSUME NEW s, StoreOK(s), NEW ps, NEW n \in Nat \ {0}, NEW t, DoublesMade(s, t, ps, n - 1)
  PROVE DoublesMade(s, NewVec(t, "double", ps[n]), ps, n)
<1> DEFINE k == "double"
           u == NewVec(t, k, ps[n])
           v == NextVec(t, k)
           m == Len(s.live[k])
<1>1. k \in Kinds /\ "int" \in Kinds /\ StoreOK(t)
  BY DEF Kinds, DoublesMade
<1>2. StoreOK(u) /\ NewVecEffect(t, k, ps[n], u)
  BY <1>1, NewVecFacts
<1> HIDE DEF u, v
<1>3. /\ u.live = [t.live EXCEPT ![k] = Append(@, v)] /\ u.cols = t.cols
      /\ v \in Vector /\ v[1] = k /\ u.data[v] = ps[n] /\ Kept(t, u)
  BY <1>2 DEF NewVecEffect, Kept, v
<1>4. t.live \in [Kinds -> Seq(Vector)] /\ s.live \in [Kinds -> Seq(Vector)]
  BY <1>1 DEF StoreOK
<1>5. u.live["int"] = t.live["int"] /\ u.live[k] = Append(t.live[k], v)
  BY <1>1, <1>3, <1>4
<1>6. /\ m \in Nat /\ Len(t.live[k]) = m + (n - 1) /\ Len(u.live[k]) = m + n
      /\ u.live[k][m + n] = v
      /\ \A i \in 1 .. Len(t.live[k]) : u.live[k][i] = t.live[k][i] /\ t.live[k][i] \in Vector
  BY <1>1, <1>3, <1>4, <1>5 DEF DoublesMade
<1>7. Kept(s, u)
  BY <1>3 DEF DoublesMade, Kept
<1>8. ASSUME NEW i \in 1 .. m PROVE u.live[k][i] = s.live[k][i]
  BY <1>6 DEF DoublesMade
<1>9. ASSUME NEW i \in 1 .. n PROVE u.data[u.live[k][m + i]] = ps[i]
  <2>1. CASE i = n
    BY <2>1, <1>3, <1>6
  <2>2. CASE i \in 1 .. n - 1
    <3> DEFINE w == t.live[k][m + i]
    <3>1. m + i \in 1 .. Len(t.live[k])
      BY <2>2, <1>6
    <3>2. w \in Vector /\ u.live[k][m + i] = w /\ In(w, t.live[k])
      BY <3>1, <1>6 DEF In
    <3>3. w[1] = k
      <4>1. Owns(k, t.live[k], t.pool[k], t.made[k])
        BY <1>1 DEF StoreOK
      <4>2. w \in Vectors(k, t.made[k])
        BY <4>1, <3>2 DEF Owns
      <4> QED BY <4>2 DEF Vectors
    <3>4. IsLive(t, w) /\ w[1] \in Kinds
      BY <3>2, <3>3, <1>1 DEF IsLive
    <3>5. u.data[w] = t.data[w]
      BY <3>4, <1>3 DEF Kept
    <3> QED BY <3>2, <3>5, <2>2 DEF DoublesMade
  <2> QED BY <2>1, <2>2
<1>10. u.cols = s.cols /\ u.live["int"] = s.live["int"] /\ Grown(s, u)
  BY <1>2, <1>3, <1>5 DEF DoublesMade, NewVecEffect, Grown
<1> QED BY <1>2, <1>6, <1>7, <1>8, <1>9, <1>10 DEF DoublesMade, u

\* The vectors of NewDoubles are in use, hold the paths and were not in use.
LEMMA DoublesFacts ==
  ASSUME NEW s, StoreOK(s), NEW ps, Len(ps) \in Nat
  PROVE DoublesMade(s, NewDoubles(s, ps), ps, Len(ps))
<1>1. PICK g : /\ g[0] = s
               /\ \A i \in 1 .. Len(ps) : g[i] = NewVec(g[i - 1], "double", ps[i])
               /\ NewDoubles(s, ps) = g[Len(ps)]
  BY DoublesLoop
<1> DEFINE T == {i \in 0 .. Len(ps) : DoublesMade(s, g[i], ps, i)}
<1>2. 0 \in T
  <2>1. Len(s.live["double"]) \in Nat
    BY DEF StoreOK, Kinds
  <2>2. DoublesMade(s, s, ps, 0)
    BY <2>1 DEF DoublesMade, Kept, Grown
  <2> QED BY <1>1, <2>2
<1>3. ASSUME NEW i \in 1 .. Len(ps), i - 1 \in T PROVE i \in T
  BY <1>1, <1>3, DoublesStep
<1> HIDE DEF T
<1>4. \A i \in 0 .. Len(ps) : i \in T
  BY <1>2, <1>3, UpTo
<1>5. Len(ps) \in T
  BY <1>4
<1> QED BY <1>1, <1>5 DEF T

------------------------------------------------------------------------------
(* The days.  What is true of day y, whose InputData is d's, when the stores *)
(* are st and their lives lf.                                                *)
OwnersOf(d) == (Readers \X {"id", "mid"}) \cup {<<d, "id">>}
IsSeq(s) == \E S : s \in Seq(S)
PointersOf(y) == y.keys \cup Range(y.xs)

\* A pointer is into a vector that was made; while nobody has cleared it the
\* vector is in use and shows what it should, unless merge was asked to
\* overwrite columns.
PointerOK(st, lf, d, e) ==
  /\ e.owner \in OwnersOf(d) /\ e.life \in Nat /\ e.life <= lf[e.owner]
  /\ e.vec \in Vector /\ e.vec \in DOMAIN st[e.owner].data
  /\ e.life = lf[e.owner] =>
       /\ IsLive(st[e.owner], e.vec)
       /\ e.vec[1] = "int" \/ ~Overlap => st[e.owner].data[e.vec] = e.shows

DayTyped(y) ==
  /\ y = [keys |-> y.keys, xs |-> y.xs, x2data |-> y.x2data, index |-> y.index]
  /\ IsSeq(y.xs)
  /\ \A e \in y.keys : /\ e.vec[1] = "int"
                       /\ e.name = "ukey" => \E f \in DOMAIN Files : e.shows = <<"ukey", f>>
  /\ \A e \in Range(y.xs) : e.vec[1] = "double"
  /\ \A i, j \in DOMAIN y.xs : y.xs[i].name = y.xs[j].name => i = j
  /\ y.x2data \subseteq Names(y)
  /\ y.index \in DOMAIN Files \cup {NoIndex}

Apart(lf, y) ==
  \A e, g \in PointersOf(y) :
    e.life = lf[e.owner] /\ g.life = lf[g.owner] /\ e.owner = g.owner /\ e.vec = g.vec
    => e = g

DayOK(st, lf, d, y) ==
  DayTyped(y) /\ (\A e \in PointersOf(y) : PointerOK(st, lf, d, e)) /\ Apart(lf, y)

StoresOK(st, lf) ==
  /\ st = [o \in Owners |-> st[o]] /\ \A o \in Owners : StoreOK(st[o])
  /\ lf \in [Owners -> Nat]

(* The inductive invariant.                                                  *)
InputInv ==
  /\ StoresOK(store, life)
  /\ calls \in 0 .. MaxCalls /\ \A o \in Owners : life[o] <= calls
  /\ wants \in [Readers -> SUBSET Wanted]
  /\ day = [d \in Days |-> day[d]]
  /\ \A d \in Days : DayOK(store, life, d, day[d])
  /\ \A d \in Days : day[d] = NewDay => store[<<d, "id">>] = NewStore

\* A day has the InputData of the readers and its own.
LEMMA OwnersFacts ==
  /\ \A d \in Days : OwnersOf(d) \subseteq Owners /\ <<d, "id">> \in OwnersOf(d)
  /\ \A x \in Readers : <<x, "id">> \in Owners /\ <<x, "mid">> \in Owners
                        /\ <<x, "id">> # <<x, "mid">>
  /\ \A d, dd \in Days : d # dd => <<d, "id">> \notin OwnersOf(dd)
  /\ \A x \in Readers, d \in Days : <<x, "id">> # <<d, "id">> /\ <<x, "mid">> # <<d, "id">>
BY ObjectsAssumption DEF Owners, OwnersOf

\* From s and life l to t and life m: either cleared, or what was in use is.
KeptFor(s, t) ==
  \A w : w[1] \in Kinds /\ IsLive(s, w) =>
    IsLive(t, w) /\ (w[1] = "int" \/ ~Overlap => t.data[w] = s.data[w])
Evolves(s, l, t, m) == Grown(s, t) /\ l <= m /\ (l = m => KeptFor(s, t))

\* Standing still, being cleared and being filled are ways to evolve.
LEMMA EvolvesFacts ==
  ASSUME NEW s, NEW t, NEW l \in Nat
  PROVE /\ Evolves(s, l, s, l)
        /\ Grown(s, t) => Evolves(s, l, t, l + 1)
        /\ Grown(s, t) /\ Kept(s, t) => Evolves(s, l, t, l)
BY DEF Evolves, Grown, Kept, KeptFor

\* What happens to the stores a day does not lose keeps the day.
LEMMA DayStays ==
  ASSUME NEW st, NEW lf, NEW st2, NEW lf2, NEW d, NEW y, DayOK(st, lf, d, y),
         \A o \in OwnersOf(d) : lf[o] \in Nat /\ lf2[o] \in Nat
                                /\ Evolves(st[o], lf[o], st2[o], lf2[o])
  PROVE DayOK(st2, lf2, d, y)
<1>1. ASSUME NEW e \in PointersOf(y), e.life = lf2[e.owner] PROVE e.life = lf[e.owner]
  <2>1. /\ e.owner \in OwnersOf(d) /\ e.life \in Nat /\ e.life <= lf[e.owner]
    BY DEF DayOK, PointerOK
  <2>2. lf[e.owner] \in Nat /\ lf2[e.owner] \in Nat /\ lf[e.owner] <= lf2[e.owner]
    BY <2>1 DEF Evolves
  <2> QED BY <2>1, <2>2, <1>1
<1>2. ASSUME NEW e \in PointersOf(y) PROVE PointerOK(st2, lf2, d, e)
  <2> DEFINE o == e.owner
  <2>1. PointerOK(st, lf, d, e)
    BY DEF DayOK
  <2>2. o \in OwnersOf(d) /\ e.life \in Nat /\ e.life <= lf[o] /\ e.vec \in Vector /\ e.vec \in DOMAIN st[o].data
    BY <2>1 DEF PointerOK
  <2>3. lf[o] \in Nat /\ lf2[o] \in Nat /\ lf[o] <= lf2[o] /\ Grown(st[o], st2[o])
    BY <2>2 DEF Evolves
  <2>4. ASSUME e.life = lf2[o]
        PROVE /\ IsLive(st2[o], e.vec)
              /\ e.vec[1] = "int" \/ ~Overlap => st2[o].data[e.vec] = e.shows
    <3>1. e.life = lf[o] /\ KeptFor(st[o], st2[o])
      BY <1>1, <2>2, <2>3, <2>4 DEF Evolves
    <3>2. e.vec[1] \in Kinds
      BY <2>2 DEF Vector
    <3> QED BY <3>1, <3>2, <2>1 DEF PointerOK, KeptFor
  <2> QED BY <2>2, <2>3, <2>4 DEF PointerOK, Grown
<1>3. Apart(lf2, y)
  <2>1. ASSUME NEW e \in PointersOf(y), NEW g \in PointersOf(y),
               e.life = lf2[e.owner], g.life = lf2[g.owner], e.owner = g.owner, e.vec = g.vec
        PROVE e = g
    BY <1>1, <2>1 DEF DayOK, Apart
  <2> QED BY <2>1 DEF Apart
<1> QED BY <1>2, <1>3 DEF DayOK

\* A new DayData has no pointer that could be wrong.
LEMMA NewDayOK ==
  ASSUME NEW st, NEW lf, NEW d
  PROVE DayOK(st, lf, d, NewDay)
<1>1. NewDay.keys = {} /\ NewDay.xs = <<>> /\ NewDay.x2data = {} /\ NewDay.index = NoIndex
  BY DEF NewDay
<1>2. <<>> \in Seq({}) /\ DOMAIN <<>> = {} /\ Range(<<>>) = {}
  BY DEF Range
<1>3. PointersOf(NewDay) = {}
  BY <1>1, <1>2 DEF PointersOf
<1>4. DayTyped(NewDay)
  <2>1. NewDay = [keys |-> NewDay.keys, xs |-> NewDay.xs, x2data |-> NewDay.x2data, index |-> NewDay.index]
    BY DEF NewDay
  <2>2. IsSeq(NewDay.xs)
    BY <1>1, <1>2 DEF IsSeq
  <2> QED BY <2>1, <2>2, <1>1, <1>2 DEF DayTyped
<1> QED BY <1>3, <1>4 DEF DayOK, Apart

\* The live vectors have contents and are vectors.
LEMMA LiveFacts ==
  ASSUME NEW s, StoreOK(s), NEW w, w[1] \in Kinds, IsLive(s, w)
  PROVE w \in DOMAIN s.data /\ w \in Vector
<1>1. Owns(w[1], s.live[w[1]], s.pool[w[1]], s.made[w[1]]) /\ In(w, s.live[w[1]])
  BY DEF StoreOK, IsLive
<1>2. w \in Vectors(w[1], s.made[w[1]]) /\ s.made[w[1]] \in Nat
  BY <1>1 DEF Owns, StoreOK
<1> QED BY <1>2 DEF StoreOK, Vectors, Vector

------------------------------------------------------------------------------
(* The steps.                                                                 *)
\* The invariant holds at first.
LEMMA InitInputInv == Init => InputInv
<1> SUFFICES ASSUME Init PROVE InputInv
  OBVIOUS
<1>1. /\ store = [o \in Owners |-> NewStore] /\ life = [o \in Owners |-> 0] /\ calls = 0
      /\ day = [d \in Days |-> NewDay] /\ wants = [x \in Readers |-> Wanted]
  BY DEF Init
<1>2. StoresOK(store, life)
  BY <1>1, NewStoreOK DEF StoresOK
<1>3. calls \in 0 .. MaxCalls /\ \A o \in Owners : life[o] <= calls
  BY <1>1, BoundsAssumption
<1>4. wants \in [Readers -> SUBSET Wanted] /\ day = [d \in Days |-> day[d]]
  BY <1>1
<1>5. \A d \in Days : DayOK(store, life, d, day[d])
  BY <1>1, NewDayOK
<1>6. \A d \in Days : store[<<d, "id">>] = NewStore
  BY <1>1, OwnersFacts
<1> QED BY <1>2, <1>3, <1>4, <1>5, <1>6 DEF InputInv

\* A step that changes the days S, and for the others only what they can bear.
LEMMA StepKeeps ==
  ASSUME InputInv, Call, NEW S,
         StoresOK(store', life'), \A o \in Owners : life'[o] <= life[o] + 1,
         wants' \in [Readers -> SUBSET Wanted], day' = [d \in Days |-> day'[d]],
         \A d \in Days \ S :
           /\ day'[d] = day[d] /\ store'[<<d, "id">>] = store[<<d, "id">>]
           /\ \A o \in OwnersOf(d) : Evolves(store[o], life[o], store'[o], life'[o]),
         \A d \in Days \cap S :
           /\ DayOK(store', life', d, day'[d])
           /\ day'[d] = NewDay => store'[<<d, "id">>] = NewStore
  PROVE InputInv'
<1>1. calls' \in 0 .. MaxCalls /\ \A o \in Owners : life'[o] <= calls'
  <2>1. calls \in 0 .. MaxCalls /\ calls < MaxCalls /\ calls' = calls + 1 /\ MaxCalls \in Nat
    BY BoundsAssumption DEF InputInv, Call
  <2>2. \A o \in Owners : life[o] \in Nat /\ life'[o] \in Nat /\ life[o] <= calls
    BY DEF InputInv, StoresOK
  <2> QED BY <2>1, <2>2
<1>2. ASSUME NEW d \in Days \ S PROVE DayOK(store', life', d, day'[d])
  <2>1. DayOK(store, life, d, day[d])
    BY DEF InputInv
  <2>2. \A o \in OwnersOf(d) : life[o] \in Nat /\ life'[o] \in Nat
    BY OwnersFacts DEF InputInv, StoresOK
  <2>3. DayOK(store', life', d, day[d])
    BY <2>1, <2>2, DayStays
  <2> QED BY <2>3
<1>3. \A d \in Days : DayOK(store', life', d, day'[d])
  BY <1>2
<1>4. \A d \in Days : day'[d] = NewDay => store'[<<d, "id">>] = NewStore
  BY DEF InputInv
<1> QED BY <1>1, <1>3, <1>4 DEF InputInv

\* A usable day is not new and none of its pointers is stale.
LEMMA UsableFacts ==
  ASSUME InputInv, NEW d \in Days, Usable(d)
  PROVE /\ day[d] # NewDay /\ HasKeys(day[d])
        /\ \A e \in PointersOf(day[d]) : e.life = life[e.owner]
<1>1. HasKeys(day[d]) /\ \A e \in PointersOf(day[d]) : e.life = life[e.owner]
  BY DEF Usable, Pointers, PointersOf, Current
<1>2. day[d].keys # {}
  BY <1>1 DEF HasKeys, Keys
<1>3. NewDay.keys = {}
  BY DEF NewDay
<1> QED BY <1>1, <1>2, <1>3

\* build_index sets x2data and the index and nothing else.
LEMMA IndexedIs ==
  ASSUME NEW y, y = [keys |-> y.keys, xs |-> y.xs, x2data |-> y.x2data, index |-> y.index], NEW f
  PROVE Indexed(y, f) = [keys |-> y.keys, xs |-> y.xs, x2data |-> Names(y), index |-> f]
<1> DEFINE n == Names(y)
<1> HIDE DEF n
<1>1. PICK a, b, c, g : y = [keys |-> a, xs |-> b, x2data |-> c, index |-> g]
  OBVIOUS
<1>2. Indexed(y, f) = [y EXCEPT !.x2data = n, !.index = f]
  BY DEF Indexed, n
<1>3. Indexed(y, f) = [keys |-> a, xs |-> b, x2data |-> n, index |-> f]
  BY <1>1, <1>2
<1> QED BY <1>1, <1>3 DEF n

\* BuildIndex moves no pointer.
LEMMA BuildIndexKeeps ==
  ASSUME InputInv, NEW d \in Days, BuildIndex(d)
  PROVE InputInv'
<1>1. Call /\ Usable(d) /\ store' = store /\ wants' = wants /\ life' = life
  BY DEF BuildIndex
<1>2. PICK e \in day[d].keys : e.name = "ukey" /\ day' = [day EXCEPT ![d] = Indexed(@, Shown(e)[2])]
  BY DEF BuildIndex
<1> DEFINE y == day[d]  z == Indexed(y, Shown(e)[2])
<1>3. DayOK(store, life, d, y)
  BY DEF InputInv
<1>4. Shown(e)[2] \in DOMAIN Files
  <2>1. e \in PointersOf(y) /\ e.vec[1] = "int"
    BY <1>3 DEF DayOK, DayTyped, PointersOf
  <2>2. Shown(e) = e.shows
    BY <2>1, <1>1, <1>3, UsableFacts DEF DayOK, PointerOK, Shown
  <2> QED BY <2>2, <1>2, <1>3 DEF DayOK, DayTyped
<1>5. /\ z = [keys |-> y.keys, xs |-> y.xs, x2data |-> Names(y), index |-> Shown(e)[2]]
  BY <1>3, IndexedIs DEF DayOK, DayTyped
<1> HIDE DEF z
<1>6. z.keys = y.keys /\ z.xs = y.xs /\ z.x2data = Names(y) /\ z.index = Shown(e)[2]
  BY <1>5
<1>7. PointersOf(z) = PointersOf(y) /\ Names(z) = Names(y)
  BY <1>6 DEF PointersOf, Names
<1>8. DayTyped(z)
  BY <1>3, <1>4, <1>5, <1>6, <1>7 DEF DayOK, DayTyped
<1>9. DayOK(store, life, d, z)
  BY <1>3, <1>7, <1>8 DEF DayOK, Apart
<1>10. z # NewDay
  <2>1. z.keys # {}
    BY <1>2, <1>6
  <2>2. NewDay.keys = {}
    BY DEF NewDay
  <2> QED BY <2>1, <2>2
<1>11. day' = [dd \in Days |-> day'[dd]] /\ day'[d] = z /\ \A dd \in Days \ {d} : day'[dd] = day[dd]
  BY <1>2 DEF InputInv, z
<1>12. \A o \in Owners : life[o] \in Nat
  BY DEF InputInv, StoresOK
<1>13. \A o \in Owners : Evolves(store[o], life[o], store'[o], life'[o]) /\ life'[o] <= life[o] + 1
  BY <1>1, <1>12, EvolvesFacts
<1>14. StoresOK(store', life') /\ wants' \in [Readers -> SUBSET Wanted]
  BY <1>1 DEF InputInv
<1>15. \A dd \in Days \ {d} :
          /\ day'[dd] = day[dd] /\ store'[<<dd, "id">>] = store[<<dd, "id">>]
          /\ \A o \in OwnersOf(dd) : Evolves(store[o], life[o], store'[o], life'[o])
  BY <1>1, <1>11, <1>13, OwnersFacts
<1>16. DayOK(store', life', d, day'[d]) /\ (day'[d] = NewDay => store'[<<d, "id">>] = NewStore)
  BY <1>1, <1>9, <1>10, <1>11
<1>17. \A dd \in Days \cap {d} :
           /\ DayOK(store', life', dd, day'[dd])
           /\ day'[dd] = NewDay => store'[<<dd, "id">>] = NewStore
  BY <1>16
<1> QED BY <1>1, <1>11, <1>13, <1>14, <1>15, <1>17, StepKeeps

------------------------------------------------------------------------------
(* add_new_column.                                                            *)
\* What add_new_column and merge work on.
Added(a) == a = [store |-> a.store, day |-> a.day]
Merging(a) == a = [ok |-> a.ok, store |-> a.store, day |-> a.day]
DayIs(y) == y = [keys |-> y.keys, xs |-> y.xs, x2data |-> y.x2data, index |-> y.index]
NewPointer(a, d, n, p) == Pointer(<<d, "id">>, life[<<d, "id">>], n, NextVec(a.store[<<d, "id">>], "double"), p)

\* What add_new_column makes of the stores and the day.
LEMMA WithColumnIs ==
  ASSUME NEW a, Added(a) \/ Merging(a), DayIs(a.day), NEW d, NEW n, NEW p
  PROVE LET o == <<d, "id">>  b == WithColumn(a, d, n, p)
        IN /\ Added(a) => Added(b)
           /\ (Merging(a) => Merging(b) /\ b.ok = a.ok)
           /\ b.store = [a.store EXCEPT ![o] = NewVec(a.store[o], "double", p)]
           /\ DayIs(b.day) /\ b.day.keys = a.day.keys /\ b.day.index = a.day.index
           /\ b.day.xs = Append(a.day.xs, NewPointer(a, d, n, p))
           /\ b.day.x2data = a.day.x2data \cup {n}
<1> DEFINE o == <<d, "id">>  b == WithColumn(a, d, n, p)
           e == NewPointer(a, d, n, p)  t == NewVec(a.store[o], "double", p)
<1>1. b = [a EXCEPT !.store[o] = t, !.day.xs = Append(@, e), !.day.x2data = @ \cup {n}]
  BY DEF WithColumn, NewPointer
<1> HIDE DEF e, t, b, o
<1>2. PICK s, k, xs, x2, i, ok :
        /\ a.store = s /\ a.ok = ok
        /\ a.day = [keys |-> k, xs |-> xs, x2data |-> x2, index |-> i]
  BY DEF DayIs
<1>3. CASE Added(a)
  <2>1. a = [store |-> s, day |-> [keys |-> k, xs |-> xs, x2data |-> x2, index |-> i]]
    BY <1>2, <1>3 DEF Added
  <2>2. b = [store |-> [s EXCEPT ![o] = t],
             day |-> [keys |-> k, xs |-> Append(xs, e), x2data |-> x2 \cup {n}, index |-> i]]
    BY <1>1, <2>1
  <2>3. ~Merging(a)
    <3>1. DOMAIN a = {"store", "day"}
      BY <2>1
    <3>2. Merging(a) => "ok" \in DOMAIN a
      BY DEF Merging
    <3> QED BY <3>1, <3>2
  <2>4. /\ b.store = [a.store EXCEPT ![o] = t]
        /\ DayIs(b.day) /\ b.day.keys = a.day.keys /\ b.day.index = a.day.index
        /\ b.day.xs = Append(a.day.xs, e) /\ b.day.x2data = a.day.x2data \cup {n}
    <3> DEFINE z == b.day
    <3>1. b.store = [s EXCEPT ![o] = t] /\ z = [keys |-> k, xs |-> Append(xs, e), x2data |-> x2 \cup {n}, index |-> i]
      BY <2>2
    <3> HIDE DEF z
    <3>2. /\ z.keys = k /\ z.xs = Append(xs, e) /\ z.x2data = x2 \cup {n} /\ z.index = i
      BY <3>1
    <3>3. DayIs(z)
      BY <3>1, <3>2 DEF DayIs
    <3>4. a.day.keys = k /\ a.day.xs = xs /\ a.day.x2data = x2 /\ a.day.index = i
      BY <1>2
    <3> QED BY <1>2, <3>1, <3>2, <3>3, <3>4 DEF z
  <2>5. Added(b)
    BY <2>2 DEF Added
  <2> QED BY <2>3, <2>4, <2>5 DEF b, e, t, o
<1>4. CASE Merging(a)
  <2>1. a = [ok |-> ok, store |-> s, day |-> [keys |-> k, xs |-> xs, x2data |-> x2, index |-> i]]
    BY <1>2, <1>4 DEF Merging
  <2>2. b = [ok |-> ok, store |-> [s EXCEPT ![o] = t],
             day |-> [keys |-> k, xs |-> Append(xs, e), x2data |-> x2 \cup {n}, index |-> i]]
    BY <1>1, <2>1
  <2>3. Merging(b) /\ b.ok = a.ok
    BY <1>2, <2>2 DEF Merging
  <2>4. /\ b.store = [a.store EXCEPT ![o] = t]
        /\ DayIs(b.day) /\ b.day.keys = a.day.keys /\ b.day.index = a.day.index
        /\ b.day.xs = Append(a.day.xs, e) /\ b.day.x2data = a.day.x2data \cup {n}
    <3> DEFINE z == b.day
    <3>1. b.store = [s EXCEPT ![o] = t] /\ z = [keys |-> k, xs |-> Append(xs, e), x2data |-> x2 \cup {n}, index |-> i]
      BY <2>2
    <3> HIDE DEF z
    <3>2. /\ z.keys = k /\ z.xs = Append(xs, e) /\ z.x2data = x2 \cup {n} /\ z.index = i
      BY <3>1
    <3>3. DayIs(z)
      BY <3>1, <3>2 DEF DayIs
    <3>4. a.day.keys = k /\ a.day.xs = xs /\ a.day.x2data = x2 /\ a.day.index = i
      BY <1>2
    <3> QED BY <1>2, <3>1, <3>2, <3>3, <3>4 DEF z
  <2>5. ~Added(a)
    <3>1. "ok" \in DOMAIN a
      BY <2>1
    <3>2. Added(a) => "ok" \notin DOMAIN a
      BY DEF Added
    <3> QED BY <3>1, <3>2
  <2> QED BY <2>3, <2>4, <2>5 DEF b, e, t, o
<1> QED BY <1>3, <1>4

WorkOK(a, d) ==
  /\ Added(a) \/ Merging(a)
  /\ StoresOK(a.store, life) /\ DayOK(a.store, life, d, a.day)
  /\ \A e \in PointersOf(a.day) : e.life = life[e.owner]

\* The parts of a pointer.
LEMMA PointerIs ==
  ASSUME NEW o, NEW l, NEW n, NEW v, NEW p
  PROVE LET e == Pointer(o, l, n, v, p)
        IN e.owner = o /\ e.life = l /\ e.name = n /\ e.vec = v /\ e.shows = p
BY DEF Pointer

\* Changing one InputData leaves the others.
LEMMA StoreUpdate ==
  ASSUME NEW st, NEW lf, StoresOK(st, lf), NEW o \in Owners, NEW t, StoreOK(t)
  PROVE /\ StoresOK([st EXCEPT ![o] = t], lf)
        /\ [st EXCEPT ![o] = t][o] = t
        /\ \A q \in Owners \ {o} : [st EXCEPT ![o] = t][q] = st[q]
BY DEF StoresOK

Distinct(s) == \A i, j \in DOMAIN s : s[i].name = s[j].name => i = j
NamesIn(s) == {e.name : e \in Range(s)}

\* The names of a day are those of its columns.
LEMMA NamesAreIn ==
  ASSUME NEW y
  PROVE Names(y) = NamesIn(y.xs)
BY DEF Names, NamesIn, Range

\* Columns put behind others.
LEMMA ColumnsAppended ==
  ASSUME NEW C, NEW s \in Seq(C), NEW t \in Seq(C), Distinct(s), Distinct(t),
         NamesIn(s) \cap NamesIn(t) = {}
  PROVE /\ s \o t \in Seq(C) /\ Distinct(s \o t)
        /\ Range(s \o t) = Range(s) \cup Range(t)
        /\ NamesIn(s \o t) = NamesIn(s) \cup NamesIn(t)
<1> DEFINE u == s \o t  m == Len(s)  n == Len(t)
<1>1. /\ u \in Seq(C) /\ m \in Nat /\ n \in Nat
      /\ DOMAIN u = 1 .. m + n /\ DOMAIN s = 1 .. m /\ DOMAIN t = 1 .. n
      /\ \A i \in 1 .. m : u[i] = s[i]
      /\ \A i \in 1 .. n : u[m + i] = t[i]
  <2>1. /\ u \in Seq(C) /\ m \in Nat /\ n \in Nat /\ Len(u) = m + n
        /\ DOMAIN u = 1 .. Len(u) /\ DOMAIN s = 1 .. m /\ DOMAIN t = 1 .. n
        /\ \A i \in 1 .. Len(u) : u[i] = IF i <= m THEN s[i] ELSE t[i - m]
    OBVIOUS
  <2> HIDE DEF u, m, n
  <2>2. \A i \in 1 .. m : u[i] = s[i]
    BY <2>1
  <2>3. ASSUME NEW i \in 1 .. n PROVE u[m + i] = t[i]
    <3>1. m + i \in 1 .. Len(u) /\ ~(m + i <= m) /\ (m + i) - m = i
      BY <2>1
    <3>2. u[m + i] = t[(m + i) - m]
      BY <2>1, <3>1
    <3> QED BY <3>1, <3>2
  <2> QED BY <2>1, <2>2, <2>3
<1> HIDE DEF u, m, n
<1>2. ASSUME NEW i \in DOMAIN u
      PROVE (i \in 1 .. m /\ u[i] = s[i]) \/ \E j \in 1 .. n : i = m + j /\ u[i] = t[j]
  <2>1. CASE i <= m
    BY <2>1, <1>1
  <2>2. CASE i > m
    <3>1. i - m \in 1 .. n /\ i = m + (i - m)
      BY <2>2, <1>1
    <3> QED BY <3>1, <1>1
  <2> QED BY <2>1, <2>2, <1>1
<1>3. \A i \in 1 .. m : i \in DOMAIN u
  BY <1>1
<1>4. \A i \in 1 .. n : m + i \in DOMAIN u
  BY <1>1
<1>5. Range(u) = Range(s) \cup Range(t)
  <2>1. ASSUME NEW w \in Range(u) PROVE w \in Range(s) \cup Range(t)
    <3>1. PICK i \in DOMAIN u : w = u[i]
      BY DEF Range
    <3>2. CASE i \in 1 .. m /\ u[i] = s[i]
      BY <3>1, <3>2, <1>1 DEF Range
    <3>3. CASE \E j \in 1 .. n : i = m + j /\ u[i] = t[j]
      BY <3>1, <3>3, <1>1 DEF Range
    <3> QED BY <3>2, <3>3, <1>2
  <2>2. \A w \in Range(s) : w \in Range(u)
    BY <1>1, <1>3 DEF Range
  <2>3. \A w \in Range(t) : w \in Range(u)
    BY <1>1, <1>4 DEF Range
  <2> QED BY <2>1, <2>2, <2>3
<1>6. NamesIn(u) = NamesIn(s) \cup NamesIn(t)
  BY <1>5 DEF NamesIn
<1>7. ASSUME NEW i \in DOMAIN u, NEW j \in DOMAIN u, u[i].name = u[j].name PROVE i = j
  <2>1. CASE i \in 1 .. m /\ j \in 1 .. m
    BY <2>1, <1>1, <1>7 DEF Distinct
  <2>5. \A a \in 1 .. m, b \in 1 .. n : s[a].name # t[b].name
    <3>1. ASSUME NEW a \in 1 .. m, NEW b \in 1 .. n PROVE s[a].name # t[b].name
      <4>1. s[a] \in Range(s) /\ t[b] \in Range(t)
        BY <1>1 DEF Range
      <4>2. s[a].name \in NamesIn(s) /\ t[b].name \in NamesIn(t)
        BY <4>1 DEF NamesIn
      <4> QED BY <4>2
    <3> QED BY <3>1
  <2>2. CASE i \in 1 .. m /\ u[i] = s[i] /\ \E b \in 1 .. n : j = m + b /\ u[j] = t[b]
    BY <2>2, <2>5, <1>7
  <2>3. CASE j \in 1 .. m /\ u[j] = s[j] /\ \E b \in 1 .. n : i = m + b /\ u[i] = t[b]
    BY <2>3, <2>5, <1>7
  <2>4. ASSUME NEW a \in 1 .. n, NEW b \in 1 .. n, i = m + a, u[i] = t[a], j = m + b, u[j] = t[b]
        PROVE i = j
    <3>1. a = b
      <4>1. t[a].name = t[b].name
        BY <2>4, <1>7
      <4> QED BY <4>1, <1>1 DEF Distinct
    <3> QED BY <3>1, <2>4
  <2> QED BY <2>1, <2>2, <2>3, <2>4, <1>2
<1> QED BY <1>1, <1>5, <1>6, <1>7 DEF Distinct, u

\* The same for one column.
LEMMA ColumnAppended ==
  ASSUME NEW C, NEW s \in Seq(C), Distinct(s), NEW e, e.name \notin NamesIn(s)
  PROVE /\ Append(s, e) \in Seq(C \cup {e}) /\ Distinct(Append(s, e))
        /\ Range(Append(s, e)) = Range(s) \cup {e}
        /\ NamesIn(Append(s, e)) = NamesIn(s) \cup {e.name}
<1> DEFINE D == C \cup {e}  t == <<e>>
<1>1. s \in Seq(D) /\ t \in Seq(D) /\ Append(s, e) = s \o t
  <2>1. s \in Seq(D) /\ e \in D
    OBVIOUS
  <2> HIDE DEF D
  <2> QED BY <2>1, AppendIsConcat
<1>2. Distinct(t) /\ NamesIn(t) = {e.name} /\ Range(t) = {e}
  <2>1. DOMAIN t = {1} /\ t[1] = e
    OBVIOUS
  <2> HIDE DEF t
  <2> QED BY <2>1 DEF Distinct, NamesIn, Range
<1> HIDE DEF D, t
<1>3. NamesIn(s) \cap NamesIn(t) = {}
  BY <1>2
<1>4. /\ s \o t \in Seq(D) /\ Distinct(s \o t)
      /\ Range(s \o t) = Range(s) \cup Range(t)
      /\ NamesIn(s \o t) = NamesIn(s) \cup NamesIn(t)
  BY <1>1, <1>2, <1>3, ColumnsAppended
<1> QED BY <1>1, <1>2, <1>4, Zenon DEF D

\* A column under a new name keeps the day and changes no vector in use.
LEMMA WithColumnKeeps ==
  ASSUME NEW d \in Days, NEW a, WorkOK(a, d), NEW n, n \notin Names(a.day), NEW p
  PROVE LET b == WithColumn(a, d, n, p)
        IN /\ WorkOK(b, d)
           /\ Merging(a) => Merging(b) /\ b.ok = a.ok
           /\ b.day.keys = a.day.keys /\ b.day.index = a.day.index
           /\ b.day.x2data = a.day.x2data \cup {n} /\ Names(b.day) = Names(a.day) \cup {n}
           /\ \A q \in Owners : q # <<d, "id">> => b.store[q] = a.store[q]
           /\ \A q \in Owners : Evolves(a.store[q], life[q], b.store[q], life[q])
<1> DEFINE o == <<d, "id">>  b == WithColumn(a, d, n, p)  k == "double"
           e == NewPointer(a, d, n, p)  t == NewVec(a.store[o], k, p)
           s == a.store[o]  y == a.day  z == b.day  v == NextVec(s, k)
<1>1. DayTyped(y) /\ DayIs(y)
  BY DEF WorkOK, DayOK, DayTyped, DayIs
<1>2. /\ Merging(a) => Merging(b) /\ b.ok = a.ok
      /\ b.store = [a.store EXCEPT ![o] = t]
      /\ DayIs(z) /\ z.keys = y.keys /\ z.index = y.index
      /\ z.xs = Append(y.xs, e) /\ z.x2data = y.x2data \cup {n}
  BY <1>1, WithColumnIs DEF WorkOK
<1>3. o \in Owners /\ o \in OwnersOf(d) /\ k \in Kinds
  BY OwnersFacts DEF Kinds
<1>4. StoreOK(s) /\ life[o] \in Nat
  BY <1>3 DEF WorkOK, StoresOK
<1>5. StoreOK(t) /\ NewVecEffect(s, k, p, t)
  BY <1>3, <1>4, NewVecFacts
<1>6. e.owner = o /\ e.life = life[o] /\ e.name = n /\ e.vec = v /\ e.shows = p
  BY PointerIs DEF NewPointer
<1>7. Added(b) \/ Merging(b)
  BY WithColumnIs, <1>1 DEF WorkOK
<1> HIDE DEF b, e, t, s, y, z, v, o
<1>8. /\ StoresOK(b.store, life) /\ b.store[o] = t
      /\ \A q \in Owners : q # o => b.store[q] = a.store[q]
  BY <1>2, <1>3, <1>5, StoreUpdate DEF WorkOK
<1>9. /\ v[1] = k /\ v \in Vector /\ ~IsLive(s, v) /\ IsLive(t, v) /\ t.data[v] = p
      /\ Kept(s, t) /\ Grown(s, t)
  BY <1>5 DEF NewVecEffect, Kept, v
<1>22. \A q \in Owners : life[q] \in Nat /\ Evolves(a.store[q], life[q], b.store[q], life[q])
  <2>1. Evolves(s, life[o], t, life[o])
    BY <1>4, <1>9, EvolvesFacts
  <2>2. \A q \in Owners : life[q] \in Nat
    BY DEF WorkOK, StoresOK
  <2> QED BY <2>1, <2>2, <1>8, EvolvesFacts DEF s
<1>10. DayOK(b.store, life, d, y)
  <2>1. \A q \in OwnersOf(d) : life[q] \in Nat /\ Evolves(a.store[q], life[q], b.store[q], life[q])
    BY <1>22, OwnersFacts
  <2>2. DayOK(a.store, life, d, y)
    BY DEF WorkOK, y
  <2> QED BY <2>1, <2>2, DayStays
<1>11. PICK C : y.xs \in Seq(C)
  BY <1>1 DEF DayTyped, IsSeq, y
<1>12. /\ z.xs \in Seq(C \cup {e}) /\ Distinct(z.xs) /\ Range(z.xs) = Range(y.xs) \cup {e}
       /\ NamesIn(z.xs) = NamesIn(y.xs) \cup {n}
  <2>1. e.name \notin NamesIn(y.xs) /\ Distinct(y.xs)
    <3>1. Distinct(y.xs)
      BY <1>1 DEF Distinct, DayTyped, y
    <3> QED BY <3>1, <1>6, NamesAreIn DEF y
  <2> DEFINE q == y.xs
  <2> HIDE DEF q
  <2>2. /\ Append(q, e) \in Seq(C \cup {e}) /\ Distinct(Append(q, e))
        /\ Range(Append(q, e)) = Range(q) \cup {e}
        /\ NamesIn(Append(q, e)) = NamesIn(q) \cup {e.name}
    BY <2>1, <1>11, ColumnAppended DEF q
  <2> QED BY <2>2, <1>2, <1>6, Zenon DEF q
<1>13. Range(z.xs) = Range(y.xs) \cup {e} /\ Names(z) = Names(y) \cup {n}
  BY <1>12, NamesAreIn
<1>14. PointersOf(z) = PointersOf(y) \cup {e}
  BY <1>2, <1>13 DEF PointersOf
<1>15. DayTyped(z)
  <2>1. \A i, j \in DOMAIN z.xs : z.xs[i].name = z.xs[j].name => i = j
    BY <1>12 DEF Distinct
  <2>2. \A g \in Range(z.xs) : g.vec[1] = "double"
    BY <1>1, <1>6, <1>9, <1>13 DEF DayTyped, y
  <2>3. z.x2data \subseteq Names(z)
    BY <1>1, <1>2, <1>13 DEF DayTyped, y
  <2>4. IsSeq(z.xs)
    BY <1>12 DEF IsSeq
  <2> QED BY <1>1, <1>2, <2>1, <2>2, <2>3, <2>4 DEF DayTyped, DayIs, y
<1>16. ASSUME NEW g \in PointersOf(y) PROVE g.owner = o => g.vec # v
  <2>1. g.life = life[g.owner] /\ PointerOK(a.store, life, d, g)
    BY DEF WorkOK, DayOK, y
  <2> QED BY <2>1, <1>9 DEF PointerOK, s
<1>17. PointerOK(b.store, life, d, e)
  <2>1. v \in DOMAIN t.data
    <3>1. v[1] \in Kinds
      BY <1>3, <1>9
    <3> QED BY <3>1, <1>5, <1>9, LiveFacts
  <2> QED BY <2>1, <1>3, <1>4, <1>6, <1>8, <1>9 DEF PointerOK
<1>18. Apart(life, z)
  BY <1>6, <1>10, <1>14, <1>16 DEF DayOK, Apart
<1>19. DayOK(b.store, life, d, z)
  BY <1>10, <1>14, <1>15, <1>17, <1>18 DEF DayOK
<1>20. \A g \in PointersOf(z) : g.life = life[g.owner]
  BY <1>6, <1>14 DEF WorkOK, y
<1>21. WorkOK(b, d)
  BY <1>7, <1>8, <1>19, <1>20 DEF WorkOK, z
<1> QED BY <1>2, <1>8, <1>13, <1>21, <1>22 DEF z, y, o, b

\* What a call leaves alone of the stores stays as it is.
LEMMA Unchanged ==
  ASSUME InputInv, NEW o \in Owners
  PROVE life[o] \in Nat /\ StoreOK(store[o]) /\ Evolves(store[o], life[o], store[o], life[o])
BY EvolvesFacts DEF InputInv, StoresOK

\* A step on one day leaves the others.
LEMMA ChangedDay ==
  ASSUME InputInv, NEW d \in Days, NEW y, day' = [day EXCEPT ![d] = y]
  PROVE /\ day' = [dd \in Days |-> day'[dd]] /\ day'[d] = y
        /\ \A dd \in Days \ {d} : day'[dd] = day[dd]
BY DEF InputInv

\* AddNewColumn adds a column only under a name the day does not have.
LEMMA AddNewColumnKeeps ==
  ASSUME InputInv, NEW d \in Days, NEW n, AddNewColumn(d, n)
  PROVE InputInv'
<1> DEFINE now == [store |-> store, day |-> day[d]]
           a == IF n \in Names(day[d]) THEN now ELSE WithColumn(now, d, n, <<"nan">>)
           o == <<d, "id">>
<1>1. /\ Call /\ Usable(d) /\ store' = a.store /\ day' = [day EXCEPT ![d] = a.day]
      /\ wants' = wants /\ life' = life
  BY DEF AddNewColumn
<1>2. now.store = store /\ now.day = day[d] /\ Added(now)
  BY DEF Added
<1> HIDE DEF now
<1>3. day[d] # NewDay /\ \A e \in PointersOf(day[d]) : e.life = life[e.owner]
  BY <1>1, UsableFacts
<1>4. WorkOK(now, d)
  BY <1>2, <1>3 DEF WorkOK, InputInv
<1>5. day[d].keys # {}
  BY <1>1 DEF Usable, HasKeys, Keys
<1>6. /\ WorkOK(a, d) /\ a.day.keys = day[d].keys
      /\ \A q \in Owners : q # o => a.store[q] = store[q]
  BY <1>2, <1>4, WithColumnKeeps
<1> HIDE DEF a, o
<1>7. a.day # NewDay
  BY <1>5, <1>6 DEF NewDay
<1>8. /\ day' = [dd \in Days |-> day'[dd]] /\ day'[d] = a.day
      /\ \A dd \in Days \ {d} : day'[dd] = day[dd]
  BY <1>1, ChangedDay
<1>9. StoresOK(store', life') /\ DayOK(store', life', d, day'[d])
  BY <1>1, <1>6, <1>8 DEF WorkOK
<1>10. ASSUME NEW dd \in Days \ {d}
       PROVE /\ day'[dd] = day[dd] /\ store'[<<dd, "id">>] = store[<<dd, "id">>]
             /\ \A q \in OwnersOf(dd) : Evolves(store[q], life[q], store'[q], life'[q])
  <2>1. \A q \in OwnersOf(dd) : q \in Owners /\ q # o
    BY OwnersFacts DEF o
  <2>2. \A q \in OwnersOf(dd) : store'[q] = store[q] /\ Evolves(store[q], life[q], store[q], life[q])
    BY <2>1, <1>1, <1>6, Unchanged
  <2>3. <<dd, "id">> \in OwnersOf(dd)
    BY OwnersFacts
  <2> QED BY <1>1, <1>8, <2>2, <2>3
<1>11. \A q \in Owners : life'[q] <= life[q] + 1
  BY <1>1, Unchanged
<1>12. wants' \in [Readers -> SUBSET Wanted]
  BY <1>1 DEF InputInv
<1>13. \A dd \in Days \cap {d} : /\ DayOK(store', life', dd, day'[dd])
                                 /\ day'[dd] = NewDay => store'[<<dd, "id">>] = NewStore
  BY <1>7, <1>8, <1>9
<1> QED BY <1>1, <1>8, <1>9, <1>10, <1>11, <1>12, <1>13, StepKeeps

\* Drop: only the day itself has pointers into its InputData.
LEMMA DropKeeps ==
  ASSUME InputInv, NEW d \in Days, Drop(d)
  PROVE InputInv'
<1> DEFINE o == <<d, "id">>
<1>1. /\ Call /\ day' = [day EXCEPT ![d] = NewDay] /\ store' = [store EXCEPT ![o] = NewStore]
      /\ wants' = wants /\ life' = life
  BY DEF Drop
<1> HIDE DEF o
<1>2. /\ day' = [dd \in Days |-> day'[dd]] /\ day'[d] = NewDay
      /\ \A dd \in Days \ {d} : day'[dd] = day[dd]
  BY <1>1, ChangedDay
<1>3. o \in Owners
  BY OwnersFacts DEF o
<1>4. /\ StoresOK(store', life) /\ store'[o] = NewStore
      /\ \A q \in Owners \ {o} : store'[q] = store[q]
  <2>1. StoresOK(store, life)
    BY DEF InputInv
  <2> DEFINE t == NewStore
  <2>2. StoreOK(t)
    BY NewStoreOK
  <2> HIDE DEF t
  <2>3. /\ StoresOK([store EXCEPT ![o] = t], life) /\ [store EXCEPT ![o] = t][o] = t
        /\ \A q \in Owners \ {o} : [store EXCEPT ![o] = t][q] = store[q]
    BY <1>3, <2>1, <2>2, StoreUpdate
  <2>4. store' = [store EXCEPT ![o] = t]
    BY <1>1 DEF t
  <2> QED BY <2>3, <2>4, Zenon DEF t
<1>5. ASSUME NEW dd \in Days \ {d}
      PROVE /\ day'[dd] = day[dd] /\ store'[<<dd, "id">>] = store[<<dd, "id">>]
            /\ \A q \in OwnersOf(dd) : Evolves(store[q], life[q], store'[q], life'[q])
  <2>1. \A q \in OwnersOf(dd) : q \in Owners /\ q # o
    BY OwnersFacts DEF o
  <2>2. \A q \in OwnersOf(dd) : store'[q] = store[q] /\ Evolves(store[q], life[q], store[q], life[q])
    BY <2>1, <1>4, Unchanged
  <2>3. <<dd, "id">> \in OwnersOf(dd)
    BY OwnersFacts
  <2> QED BY <1>1, <1>2, <2>2, <2>3
<1>6. \A q \in Owners : life'[q] <= life[q] + 1
  BY <1>1, Unchanged
<1>7. StoresOK(store', life') /\ wants' \in [Readers -> SUBSET Wanted]
  BY <1>1, <1>4 DEF InputInv
<1>8. \A dd \in Days \cap {d} : /\ DayOK(store', life', dd, day'[dd])
                                /\ day'[dd] = NewDay => store'[<<dd, "id">>] = NewStore
  BY <1>2, <1>4, NewDayOK DEF o
<1> QED BY <1>1, <1>2, <1>5, <1>6, <1>7, <1>8, StepKeeps

\* Calls on a reader leave the InputData of the days alone; what they clear is
\* in a new life.
ReaderStep(x) ==
  /\ StoresOK(store', life')
  /\ \A q \in Owners : \/ store'[q] = store[q] /\ life'[q] = life[q]
                       \/ /\ q \in {<<x, "id">>, <<x, "mid">>}
                          /\ Grown(store[q], store'[q]) /\ life'[q] = life[q] + 1

\* Clearing and filling the InputData of a reader is seen by no other.
LEMMA ReaderStepFacts ==
  ASSUME InputInv, NEW x \in Readers, ReaderStep(x)
  PROVE /\ \A q \in Owners : /\ life'[q] <= life[q] + 1 /\ life[q] \in Nat /\ life'[q] \in Nat
                             /\ Evolves(store[q], life[q], store'[q], life'[q])
        /\ \A d \in Days : store'[<<d, "id">>] = store[<<d, "id">>]
<1>1. \A q \in Owners : life[q] \in Nat /\ life'[q] \in Nat
  BY DEF InputInv, StoresOK, ReaderStep
<1>2. \A q \in Owners : life'[q] <= life[q] + 1
  BY <1>1 DEF ReaderStep
<1>3. \A q \in Owners : Evolves(store[q], life[q], store'[q], life'[q])
  BY <1>1, EvolvesFacts DEF ReaderStep
<1>4. \A d \in Days : <<d, "id">> \in Owners /\ <<d, "id">> \notin {<<x, "id">>, <<x, "mid">>}
  BY OwnersFacts
<1> QED BY <1>1, <1>2, <1>3, <1>4 DEF ReaderStep

\* A call that only changes the InputData of a reader keeps the invariant.
LEMMA ReaderStepKeeps ==
  ASSUME InputInv, Call, NEW x \in Readers, ReaderStep(x), day' = day,
         wants' \in [Readers -> SUBSET Wanted]
  PROVE InputInv'
<1>1. day' = [d \in Days |-> day'[d]] /\ StoresOK(store', life')
  BY DEF InputInv, ReaderStep
<1>2. \A d \in Days \ {} :
           /\ day'[d] = day[d] /\ store'[<<d, "id">>] = store[<<d, "id">>]
           /\ \A o \in OwnersOf(d) : Evolves(store[o], life[o], store'[o], life'[o])
  BY ReaderStepFacts, OwnersFacts
<1>3. \A o \in Owners : life'[o] <= life[o] + 1
  BY ReaderStepFacts
<1> DEFINE S == {}
<1>4. \A d \in Days \ S :
           /\ day'[d] = day[d] /\ store'[<<d, "id">>] = store[<<d, "id">>]
           /\ \A o \in OwnersOf(d) : Evolves(store[o], life[o], store'[o], life'[o])
  BY <1>2
<1>5. Days \cap S = {}
  OBVIOUS
<1> HIDE DEF S
<1> QED BY <1>1, <1>3, <1>4, <1>5, StepKeeps

\* Changing one InputData and counting its life.
LEMMA LifeUpdate ==
  ASSUME NEW st, NEW lf, StoresOK(st, lf), NEW o \in Owners, NEW t, StoreOK(t)
  PROVE StoresOK([st EXCEPT ![o] = t], [lf EXCEPT ![o] = @ + 1])
BY DEF StoresOK

\* ReadMissing makes the pointers into the reader's id stale and moves none.
LEMMA ReadMissingKeeps ==
  ASSUME InputInv, NEW x \in Readers, ReadMissing(x)
  PROVE InputInv'
<1> DEFINE o == <<x, "id">>  t == Cleared(store[o])
<1>1. /\ Call /\ store' = [store EXCEPT ![o] = t] /\ life' = [life EXCEPT ![o] = @ + 1]
      /\ day' = day /\ wants' = wants
  BY DEF ReadMissing
<1>2. o \in Owners /\ StoresOK(store, life) /\ StoreOK(store[o])
  BY OwnersFacts, Unchanged DEF InputInv
<1>3. StoreOK(t) /\ Grown(store[o], t)
  BY <1>2, ClearedFacts
<1> HIDE DEF t
<1>4. ReaderStep(x)
  <2>1. StoresOK(store', life')
    BY <1>1, <1>2, <1>3, LifeUpdate
  <2>2. \A q \in Owners : life[q] \in Nat
    BY Unchanged
  <2>3. /\ store'[o] = t /\ life'[o] = life[o] + 1
        /\ \A q \in Owners : q # o => store'[q] = store[q] /\ life'[q] = life[q]
    BY <1>1, <1>2 DEF StoresOK
  <2> QED BY <1>3, <2>1, <2>3 DEF ReaderStep
<1>5. wants' \in [Readers -> SUBSET Wanted]
  BY <1>1 DEF InputInv
<1> QED BY <1>1, <1>4, <1>5, ReaderStepKeeps

\* Clear does so for both InputData of the reader.
LEMMA ClearKeeps ==
  ASSUME InputInv, NEW x \in Readers, Clear(x)
  PROVE InputInv'
<1> DEFINE o == <<x, "id">>  m == <<x, "mid">>  t == Cleared(store[o])  u == Cleared(store[m])
<1>1. /\ Call /\ store' = [store EXCEPT ![o] = Cleared(@), ![m] = Cleared(@)]
      /\ life' = [life EXCEPT ![o] = @ + 1, ![m] = @ + 1]
      /\ day' = day /\ wants' = [wants EXCEPT ![x] = {}]
  BY DEF Clear
<1>2. /\ o \in Owners /\ m \in Owners /\ o # m
      /\ StoresOK(store, life) /\ StoreOK(store[o]) /\ StoreOK(store[m])
  BY OwnersFacts, Unchanged DEF InputInv
<1>3. StoreOK(t) /\ Grown(store[o], t) /\ StoreOK(u) /\ Grown(store[m], u)
  BY <1>2, ClearedFacts
<1> HIDE DEF o, m
<1>4. /\ store' = [[store EXCEPT ![o] = t] EXCEPT ![m] = u]
      /\ life' = [[life EXCEPT ![o] = @ + 1] EXCEPT ![m] = @ + 1]
  BY <1>1, <1>2 DEF StoresOK
<1> HIDE DEF t, u
<1>5. StoresOK(store', life')
  BY <1>2, <1>3, <1>4, LifeUpdate
<1>6. /\ store'[o] = t /\ life'[o] = life[o] + 1 /\ store'[m] = u /\ life'[m] = life[m] + 1
      /\ \A q \in Owners : q # o /\ q # m => store'[q] = store[q] /\ life'[q] = life[q]
  BY <1>2, <1>4 DEF StoresOK
<1>7. ReaderStep(x)
  BY <1>3, <1>5, <1>6 DEF ReaderStep, o, m
<1>8. wants' \in [Readers -> SUBSET Wanted]
  BY <1>1 DEF InputInv
<1> QED BY <1>1, <1>7, <1>8, ReaderStepKeeps

------------------------------------------------------------------------------
(* merge.                                                                     *)
MergeStep(d, dd, i, a) == MergeColumn(a, d, dd, day[dd].xs[i])
MergeStart(d) == [ok |-> TRUE, store |-> store, day |-> day[d]]
MergeUpTo(d, dd, n) ==
  \E g : g = [i \in 0 .. n |-> IF i = 0 THEN MergeStart(d) ELSE MergeStep(d, dd, i, g[i - 1])]

\* The same for the loop of Merged.
LEMMA MergeExists ==
  ASSUME NEW d, NEW dd, NEW n \in Nat
  PROVE MergeUpTo(d, dd, n)
<1> DEFINE T == {m \in Nat : MergeUpTo(d, dd, m)}
<1>1. 0 \in T
  <2> DEFINE g == [i \in 0 .. 0 |-> MergeStart(d)]
  <2>1. g = [i \in 0 .. 0 |-> IF i = 0 THEN MergeStart(d) ELSE MergeStep(d, dd, i, g[i - 1])]
    OBVIOUS
  <2> QED BY <2>1 DEF MergeUpTo
<1>2. ASSUME NEW m \in 1 .. n, m - 1 \in T PROVE m \in T
  <2>1. PICK g : g = [i \in 0 .. m - 1 |-> IF i = 0 THEN MergeStart(d) ELSE MergeStep(d, dd, i, g[i - 1])]
    BY <1>2 DEF MergeUpTo
  <2> DEFINE h == [i \in 0 .. m |-> IF i = m THEN MergeStep(d, dd, m, g[m - 1]) ELSE g[i]]
  <2>2. \A i \in 0 .. m : h[i] = IF i = 0 THEN MergeStart(d) ELSE MergeStep(d, dd, i, h[i - 1])
    BY <2>1
  <2>3. h = [i \in 0 .. m |-> IF i = 0 THEN MergeStart(d) ELSE MergeStep(d, dd, i, h[i - 1])]
    BY <2>2
  <2> HIDE DEF h
  <2> QED BY <2>3 DEF MergeUpTo
<1> HIDE DEF T
<1>3. \A i \in 0 .. n : i \in T
  BY <1>1, <1>2, UpTo
<1>4. n \in T
  BY <1>3
<1> QED BY <1>4 DEF T

\* Merged goes over the columns of dd in their order.
LEMMA MergeLoop ==
  ASSUME NEW d, NEW dd, Len(day[dd].xs) \in Nat
  PROVE \E g : /\ g[0] = MergeStart(d)
               /\ \A i \in 1 .. Len(day[dd].xs) : g[i] = MergeStep(d, dd, i, g[i - 1])
               /\ Merged(d, dd) = g[Len(day[dd].xs)]
<1> DEFINE n == Len(day[dd].xs)
           g == CHOOSE g : g = [i \in 0 .. n |-> IF i = 0 THEN MergeStart(d) ELSE MergeStep(d, dd, i, g[i - 1])]
<1>1. g = [i \in 0 .. n |-> IF i = 0 THEN MergeStart(d) ELSE MergeStep(d, dd, i, g[i - 1])]
  <2>1. MergeUpTo(d, dd, n)
    BY MergeExists
  <2> HIDE DEF n
  <2> QED BY <2>1, Zenon DEF MergeUpTo
<1>2. Merged(d, dd) = g[n]
  BY DEF Merged, MergeStep, MergeStart
<1> HIDE DEF g
<1>3. g[0] = MergeStart(d) /\ \A i \in 1 .. n : g[i] = MergeStep(d, dd, i, g[i - 1])
  BY <1>1
<1> QED BY <1>2, <1>3, Zenon

\* What merge writes over a column of this day.
LEMMA OverwriteFacts ==
  ASSUME NEW s, StoreOK(s), NEW v, NEW p
  PROVE LET t == [s EXCEPT !.data[v] = p]
        IN /\ StoreOK(t) /\ Grown(s, t) /\ t.live = s.live
           /\ \A w \in DOMAIN s.data : w # v => t.data[w] = s.data[w]
<1> DEFINE t == [s EXCEPT !.data[v] = p]
<1>1. PICK a, b, c, d, e : s = [live |-> a, pool |-> b, made |-> c, data |-> d, cols |-> e]
  BY DEF StoreOK, Record
<1>2. t = [live |-> a, pool |-> b, made |-> c, data |-> [d EXCEPT ![v] = p], cols |-> e]
  BY <1>1
<1> HIDE DEF t
<1>3. /\ s.live = a /\ s.pool = b /\ s.made = c /\ s.data = d /\ s.cols = e
      /\ t.live = a /\ t.pool = b /\ t.made = c /\ t.data = [d EXCEPT ![v] = p] /\ t.cols = e
      /\ Record(t)
  BY <1>1, <1>2 DEF Record
<1>4. DOMAIN t.data = DOMAIN s.data /\ \A w \in DOMAIN s.data : w # v => t.data[w] = s.data[w]
  BY <1>3
<1>5. StoreOK(t)
  BY <1>3, <1>4 DEF StoreOK, IsLive
<1> QED BY <1>3, <1>4, <1>5 DEF Grown, t

MergeOK(a, d, dd) ==
  /\ WorkOK(a, d) /\ Merging(a) /\ a.day.keys = day[d].keys
  /\ \A q \in Owners : Evolves(store[q], life[q], a.store[q], life[q])
  /\ \A q \in Owners \ OwnersOf(d) : a.store[q] = store[q]
  /\ Overlap \/ Names(day[dd]) \cap Names(a.day) \subseteq a.day.x2data

\* Evolving twice within a life is evolving.
LEMMA EvolvesOn ==
  ASSUME NEW s, NEW t, NEW u, NEW l, Evolves(s, l, t, l), Evolves(t, l, u, l)
  PROVE Evolves(s, l, u, l)
<1>1. KeptFor(s, t) /\ KeptFor(t, u)
  BY DEF Evolves
<1>2. KeptFor(s, u)
  BY <1>1 DEF KeptFor
<1> QED BY <1>2 DEF Evolves, Grown

\* Merging a column, refusing it or passing it over after a refusal.
LEMMA MergeColumnKeeps ==
  ASSUME NEW d \in Days, NEW dd \in Days, NEW a, MergeOK(a, d, dd),
         \A q \in Owners : life[q] \in Nat,
         NEW e, e.name \in Names(day[dd])
  PROVE MergeOK(MergeColumn(a, d, dd, e), d, dd)
<1> DEFINE mine == {m \in Range(a.day.xs) : m.name = e.name}
           b == MergeColumn(a, d, dd, e)
           p == Append(Shown(e), day[d].index)
           m == CHOOSE m \in mine : TRUE
<1>1. PICK ok, st, y : a = [ok |-> ok, store |-> st, day |-> y]
  BY DEF MergeOK, Merging
<1>2. a.ok = ok /\ a.store = st /\ a.day = y
  BY <1>1
<1>3. CASE ~a.ok \/ e.name \notin day[dd].x2data \/ e.name \in a.day.x2data
  <2>1. b = [a EXCEPT !.ok = FALSE]
    BY <1>3 DEF MergeColumn
  <2>2. b = [ok |-> FALSE, store |-> st, day |-> y]
    BY <1>1, <2>1
  <2> HIDE DEF b
  <2>3. b.store = a.store /\ b.day = a.day /\ Merging(b)
    BY <1>2, <2>2 DEF Merging
  <2>4. WorkOK(b, d)
    BY <2>3 DEF WorkOK, MergeOK
  <2> QED BY <2>3, <2>4 DEF MergeOK, b
<1>4. CASE ~(~a.ok \/ e.name \notin day[dd].x2data \/ e.name \in a.day.x2data) /\ mine = {}
  <2>1. b = WithColumn(a, d, e.name, p)
    BY <1>4 DEF MergeColumn
  <2>2. e.name \notin Names(a.day)
    BY <1>4 DEF Names, Range
  <2> HIDE DEF b, p, mine
  <2>3. /\ WorkOK(b, d) /\ Merging(b) /\ b.day.keys = a.day.keys
        /\ b.day.x2data = a.day.x2data \cup {e.name} /\ Names(b.day) = Names(a.day) \cup {e.name}
        /\ \A q \in Owners : q # <<d, "id">> => b.store[q] = a.store[q]
        /\ \A q \in Owners : Evolves(a.store[q], life[q], b.store[q], life[q])
    <3> DEFINE n == e.name
    <3>1. WorkOK(a, d) /\ Merging(a) /\ n \notin Names(a.day) /\ b = WithColumn(a, d, n, p)
      BY <2>1, <2>2 DEF MergeOK
    <3> HIDE DEF n
    <3>2. /\ WorkOK(b, d) /\ Merging(b) /\ b.day.keys = a.day.keys
          /\ b.day.x2data = a.day.x2data \cup {n} /\ Names(b.day) = Names(a.day) \cup {n}
          /\ \A q \in Owners : q # <<d, "id">> => b.store[q] = a.store[q]
          /\ \A q \in Owners : Evolves(a.store[q], life[q], b.store[q], life[q])
      BY <3>1, WithColumnKeeps
    <3> QED BY <3>2, Zenon DEF n
  <2>4. \A q \in Owners : Evolves(store[q], life[q], b.store[q], life[q])
    BY <2>3, EvolvesOn DEF MergeOK
  <2>5. \A q \in Owners \ OwnersOf(d) : b.store[q] = store[q]
    BY <2>3, OwnersFacts DEF MergeOK
  <2>6. Overlap \/ Names(day[dd]) \cap Names(b.day) \subseteq b.day.x2data
    BY <2>3 DEF MergeOK
  <2>7. b.day.keys = day[d].keys
    BY <2>3 DEF MergeOK
  <2> QED BY <2>3, <2>4, <2>5, <2>6, <2>7 DEF MergeOK, b
<1>5. CASE ~(~a.ok \/ e.name \notin day[dd].x2data \/ e.name \in a.day.x2data) /\ mine # {}
  <2>1. m \in mine
    BY <1>5
  <2>2. b = [a EXCEPT !.store[m.owner].data[m.vec] = p]
    BY <1>5 DEF MergeColumn
  <2> HIDE DEF b, p, m
  <2>3. m \in Range(a.day.xs) /\ m.name = e.name
    BY <2>1
  <2> HIDE DEF mine
  <2>4. m \in PointersOf(a.day) /\ e.name \in Names(a.day)
    BY <2>3 DEF PointersOf, Names, Range
  <2>5. Overlap
    BY <1>5, <2>4 DEF MergeOK
  <2> DEFINE o == m.owner  v == m.vec  s == st[o]  t == [s EXCEPT !.data[v] = p]
  <2>6. o \in OwnersOf(d) /\ v[1] = "double" /\ o \in Owners
    <3>1. PointerOK(a.store, life, d, m)
      BY <2>4 DEF MergeOK, WorkOK, DayOK
    <3>2. m.vec[1] = "double"
      BY <2>3 DEF MergeOK, WorkOK, DayOK, DayTyped
    <3> QED BY <3>1, <3>2, OwnersFacts DEF PointerOK
  <2>7. b = [ok |-> ok, store |-> [st EXCEPT ![o] = t], day |-> y]
    <3>1. b = [a EXCEPT !.store[o].data[v] = p]
      BY <2>2
    <3> HIDE DEF o, v
    <3> QED BY <3>1, <1>1
  <2> HIDE DEF o, v
  <2>8. StoresOK(st, life) /\ StoreOK(s)
    BY <1>2, <2>6 DEF MergeOK, WorkOK, StoresOK
  <2>9. StoreOK(t) /\ Grown(s, t) /\ t.live = s.live /\ \A w \in DOMAIN s.data : w # v => t.data[w] = s.data[w]
    BY <2>8, OverwriteFacts
  <2> HIDE DEF t
  <2>10. KeptFor(s, t)
    <3>1. ASSUME NEW w, w[1] \in Kinds, IsLive(s, w)
          PROVE IsLive(t, w) /\ (w[1] = "int" \/ ~Overlap => t.data[w] = s.data[w])
      <4>1. w \in DOMAIN s.data
        BY <2>8, <3>1, LiveFacts
      <4>2. IsLive(t, w)
        BY <2>9, <3>1 DEF IsLive
      <4>3. w[1] = "int" => w # v
        BY <2>6
      <4> QED BY <2>5, <2>9, <4>1, <4>2, <4>3
    <3> QED BY <3>1 DEF KeptFor
  <2>11. Evolves(s, life[o], t, life[o])
    BY <2>6, <2>9, <2>10 DEF Evolves
  <2>12. b.store = [st EXCEPT ![o] = t] /\ b.day = a.day /\ Merging(b)
    BY <1>2, <2>7 DEF Merging
  <2>13. /\ StoresOK(b.store, life) /\ b.store[o] = t
         /\ \A q \in Owners \ {o} : b.store[q] = st[q]
    BY <2>6, <2>8, <2>9, <2>12, StoreUpdate
  <2>14. \A q \in Owners : Evolves(a.store[q], life[q], b.store[q], life[q])
    BY <1>2, <2>11, <2>13, EvolvesFacts DEF s
  <2>15. \A q \in Owners : Evolves(store[q], life[q], b.store[q], life[q])
    BY <2>14, EvolvesOn DEF MergeOK
  <2>16. DayOK(b.store, life, d, b.day)
    <3>1. DayOK(a.store, life, d, a.day)
      BY DEF MergeOK, WorkOK
    <3>2. \A q \in OwnersOf(d) : life[q] \in Nat /\ Evolves(a.store[q], life[q], b.store[q], life[q])
      BY <2>14, OwnersFacts
    <3>3. DayOK(b.store, life, d, a.day)
      BY <3>1, <3>2, DayStays
    <3> QED BY <2>12, <3>3
  <2>17. WorkOK(b, d)
    BY <2>12, <2>13, <2>16 DEF MergeOK, WorkOK
  <2>18. \A q \in Owners \ OwnersOf(d) : b.store[q] = store[q]
    BY <1>2, <2>6, <2>13 DEF MergeOK
  <2> QED BY <2>5, <2>12, <2>15, <2>17, <2>18 DEF MergeOK, b
<1> QED BY <1>3, <1>4, <1>5

\* So does the whole of merge.
LEMMA MergedOK ==
  ASSUME InputInv, NEW d \in Days, NEW dd \in Days, Usable(d),
         Overlap \/ Names(day[dd]) \cap Names(day[d]) \subseteq day[d].x2data
  PROVE MergeOK(Merged(d, dd), d, dd)
<1> DEFINE xs == day[dd].xs  n == Len(xs)
<1>1. n \in Nat /\ DOMAIN xs = 1 .. n
  BY DEF InputInv, DayOK, DayTyped, IsSeq
<1>2. PICK g : /\ g[0] = MergeStart(d)
               /\ \A i \in 1 .. n : g[i] = MergeStep(d, dd, i, g[i - 1])
               /\ Merged(d, dd) = g[n]
  BY <1>1, MergeLoop
<1> DEFINE T == {i \in 0 .. n : MergeOK(g[i], d, dd)}
<1>3. 0 \in T
  <2> DEFINE a == MergeStart(d)
  <2>1. a.store = store /\ a.day = day[d] /\ Merging(a)
    BY DEF MergeStart, Merging
  <2> HIDE DEF a
  <2>2. \A e \in PointersOf(day[d]) : e.life = life[e.owner]
    BY UsableFacts
  <2>3. WorkOK(a, d)
    BY <2>1, <2>2 DEF WorkOK, InputInv
  <2>4. \A q \in Owners : Evolves(store[q], life[q], store[q], life[q])
    BY Unchanged
  <2>5. MergeOK(a, d, dd)
    BY <2>1, <2>3, <2>4 DEF MergeOK
  <2> QED BY <1>1, <1>2, <2>5 DEF a
<1>4. ASSUME NEW i \in 1 .. n, i - 1 \in T PROVE i \in T
  <2>1. xs[i].name \in Names(day[dd])
    BY <1>1 DEF Names
  <2>2. \A q \in Owners : life[q] \in Nat
    BY Unchanged
  <2>3. MergeOK(MergeColumn(g[i - 1], d, dd, xs[i]), d, dd)
    BY <1>4, <2>1, <2>2, MergeColumnKeeps
  <2> QED BY <1>1, <1>2, <2>3 DEF MergeStep
<1> HIDE DEF T, n
<1>5. \A i \in 0 .. n : i \in T
  BY <1>1, <1>3, <1>4, UpTo
<1>6. n \in T
  BY <1>1, <1>5
<1> QED BY <1>2, <1>6 DEF T

\* Merge adds the columns of dd the day does not have, up to a refusal.
LEMMA MergeKeeps ==
  ASSUME InputInv, NEW d \in Days, NEW dd \in Days, Merge(d, dd)
  PROVE InputInv'
<1> DEFINE a == Merged(d, dd)
<1>1. /\ Call /\ Usable(d) /\ store' = a.store /\ day' = [day EXCEPT ![d] = a.day]
      /\ Overlap \/ Names(day[dd]) \cap Names(day[d]) \subseteq day[d].x2data
      /\ wants' = wants /\ life' = life
  BY DEF Merge
<1>2. MergeOK(a, d, dd)
  BY <1>1, MergedOK
<1> HIDE DEF a
<1>3. a.day # NewDay
  <2>1. day[d].keys # {} /\ NewDay.keys = {}
    BY <1>1 DEF Usable, HasKeys, Keys, NewDay
  <2> QED BY <2>1, <1>2 DEF MergeOK
<1>4. /\ day' = [q \in Days |-> day'[q]] /\ day'[d] = a.day
      /\ \A q \in Days \ {d} : day'[q] = day[q]
  BY <1>1, ChangedDay
<1>5. StoresOK(store', life') /\ DayOK(store', life', d, day'[d])
  BY <1>1, <1>2, <1>4 DEF WorkOK, MergeOK
<1>6. ASSUME NEW d2 \in Days \ {d}
      PROVE /\ day'[d2] = day[d2] /\ store'[<<d2, "id">>] = store[<<d2, "id">>]
            /\ \A q \in OwnersOf(d2) : Evolves(store[q], life[q], store'[q], life'[q])
  <2>1. <<d2, "id">> \in Owners \ OwnersOf(d) /\ OwnersOf(d2) \subseteq Owners
    BY OwnersFacts
  <2> QED BY <1>1, <1>2, <1>4, <2>1 DEF MergeOK
<1>7. \A q \in Owners : life'[q] <= life[q] + 1
  BY <1>1, Unchanged
<1>8. wants' \in [Readers -> SUBSET Wanted]
  BY <1>1 DEF InputInv
<1>9. \A q \in Days \cap {d} : /\ DayOK(store', life', q, day'[q])
                               /\ day'[q] = NewDay => store'[<<q, "id">>] = NewStore
  BY <1>3, <1>4, <1>5
<1> QED BY <1>1, <1>4, <1>5, <1>6, <1>7, <1>8, <1>9, StepKeeps

\* A function on 1 .. n is a sequence.
LEMMA ListOf ==
  ASSUME NEW n \in Nat, NEW g, g = [i \in 1 .. n |-> g[i]]
  PROVE Len(g) = n /\ DOMAIN g = 1 .. n /\ IsSeq(g)
<1> DEFINE S == {g[i] : i \in 1 .. n}
<1>1. g \in [1 .. n -> S]
  OBVIOUS
<1>2. g \in Seq(S)
  <2> HIDE DEF S
  <2> QED BY <1>1
<1>3. DOMAIN g = 1 .. n
  BY <1>1
<1> HIDE DEF S
<1> QED BY <1>2, <1>3 DEF IsSeq

\* The columns a store shows after a read, as a set.
LEMMA ColumnFacts ==
  ASSUME NEW r, StoreOK(r), NEW f, ColumnsRead(r, f, Len(Files[f].cols))
  PROVE /\ \A c \in Range(r.cols) :
             /\ c \in Column /\ c.vec \in Vector /\ c.vec[1] = c.type /\ c.type \in Kinds
             /\ IsLive(r, c.vec) /\ r.data[c.vec] = <<c.name, f>>
             /\ c.name \in Keys => c.type = "int"
        /\ \A c, g \in Range(r.cols) : c.name = g.name \/ c.vec = g.vec => c = g
        /\ r.cols \in Seq(Column) /\ \A i, j \in 1 .. Len(r.cols) : r.cols[i] = r.cols[j] => i = j
<1>1. r.cols \in Seq(Column) /\ DOMAIN r.cols = 1 .. Len(r.cols)
  BY DEF StoreOK
<1>2. ASSUME NEW i \in 1 .. Len(r.cols)
      PROVE LET c == r.cols[i] IN
             /\ c \in Column /\ c.vec \in Vector /\ c.vec[1] = c.type /\ c.type \in Kinds
             /\ IsLive(r, c.vec) /\ r.data[c.vec] = <<c.name, f>>
             /\ c.name \in Keys => c.type = "int"
  <2>1. r.cols[i] \in Column
    BY <1>1
  <2>2. r.cols[i].vec \in Vector /\ r.cols[i].type \in Kinds
    BY <2>1 DEF Column
  <2> QED BY <2>1, <2>2 DEF StoreOK, ColumnsRead
<1>3. \A i, j \in 1 .. Len(r.cols) :
        r.cols[i].name = r.cols[j].name \/ r.cols[i].vec = r.cols[j].vec => i = j
  BY DEF ColumnsRead
<1>4. \A c \in Range(r.cols) : \E i \in 1 .. Len(r.cols) : c = r.cols[i]
  BY <1>1 DEF Range
<1>5. \A c \in Range(r.cols) :
             /\ c \in Column /\ c.vec \in Vector /\ c.vec[1] = c.type /\ c.type \in Kinds
             /\ IsLive(r, c.vec) /\ r.data[c.vec] = <<c.name, f>>
             /\ c.name \in Keys => c.type = "int"
  BY <1>2, <1>4
<1>6. ASSUME NEW c \in Range(r.cols), NEW g \in Range(r.cols), c.name = g.name \/ c.vec = g.vec
      PROVE c = g
  <2>1. PICK i \in 1 .. Len(r.cols) : c = r.cols[i]
    BY <1>4
  <2>2. PICK j \in 1 .. Len(r.cols) : g = r.cols[j]
    BY <1>4
  <2> QED BY <1>3, <1>6, <2>1, <2>2
<1> QED BY <1>1, <1>3, <1>5, <1>6

\* Pointer e is to a vector of kind k that is in use in t, and shows what it holds.
Shows(o, l, t, k, e) ==
  /\ e.owner = o /\ e.life = l /\ e.vec \in Vector /\ e.vec[1] = k
  /\ IsLive(t, e.vec) /\ t.data[e.vec] = e.shows

KeysOK(K, o, l, t, f) ==
  /\ \A e \in K : Shows(o, l, t, "int", e) /\ (e.name = "ukey" => e.shows = <<"ukey", f>>)
  /\ \A e, g \in K : e.vec = g.vec => e = g

XsOK(xs, o, l, t) ==
  /\ IsSeq(xs) /\ Distinct(xs)
  /\ \A i \in DOMAIN xs : Shows(o, l, t, "double", xs[i])
  /\ \A i, j \in DOMAIN xs : xs[i].vec = xs[j].vec => i = j

\* A day made of keys and columns that show what they should is well formed.
LEMMA BuiltDayOK ==
  ASSUME NEW d, NEW o \in OwnersOf(d), NEW st, NEW lf, lf[o] \in Nat, StoreOK(st[o]),
         NEW f \in DOMAIN Files, NEW K, KeysOK(K, o, lf[o], st[o], f),
         NEW xs, XsOK(xs, o, lf[o], st[o]),
         NEW x2, x2 \subseteq NamesIn(xs), NEW i, i \in DOMAIN Files \cup {NoIndex},
         NEW y, y = [keys |-> K, xs |-> xs, x2data |-> x2, index |-> i]
  PROVE DayOK(st, lf, d, y)
<1>1. y.keys = K /\ y.xs = xs /\ y.x2data = x2 /\ y.index = i
  OBVIOUS
<1>2. \A e \in Range(xs) : \E j \in DOMAIN xs : e = xs[j]
  BY DEF Range
<1>3. \A e \in Range(xs) : Shows(o, lf[o], st[o], "double", e)
  BY <1>2 DEF XsOK
<1>4. \A e, g \in Range(xs) : e.vec = g.vec => e = g
  BY <1>2 DEF XsOK
<1>5. DayTyped(y)
  <2>1. \A e \in K : e.vec[1] = "int" /\ (e.name = "ukey" => \E g \in DOMAIN Files : e.shows = <<"ukey", g>>)
    BY DEF KeysOK, Shows
  <2>2. \A e \in Range(xs) : e.vec[1] = "double"
    BY <1>3 DEF Shows
  <2>3. IsSeq(xs) /\ \A j, k \in DOMAIN xs : xs[j].name = xs[k].name => j = k
    BY DEF XsOK, Distinct
  <2>4. x2 \subseteq Names(y)
    BY <1>1, NamesAreIn
  <2> QED BY <1>1, <2>1, <2>2, <2>3, <2>4 DEF DayTyped
<1>6. \A e \in PointersOf(y) : Shows(o, lf[o], st[o], e.vec[1], e) /\ e.vec[1] \in Kinds
  BY <1>1, <1>3 DEF PointersOf, KeysOK, Shows, Kinds
<1>7. ASSUME NEW e \in PointersOf(y) PROVE PointerOK(st, lf, d, e)
  <2>1. Shows(o, lf[o], st[o], e.vec[1], e) /\ e.vec[1] \in Kinds
    BY <1>6
  <2>2. e.vec \in DOMAIN st[o].data
    BY <2>1, LiveFacts DEF Shows
  <2> QED BY <2>1, <2>2 DEF PointerOK, Shows
<1>8. Apart(lf, y)
  <2>1. ASSUME NEW e \in PointersOf(y), NEW g \in PointersOf(y), e.vec = g.vec PROVE e = g
    <3>1. CASE e \in K /\ g \in K
      BY <3>1, <2>1 DEF KeysOK
    <3>2. CASE e \in Range(xs) /\ g \in Range(xs)
      BY <3>2, <2>1, <1>4
    <3>3. \A h \in K : h.vec[1] = "int"
      BY DEF KeysOK, Shows
    <3>4. \A h \in Range(xs) : h.vec[1] = "double"
      BY <1>3 DEF Shows
    <3>5. ~(e \in K /\ g \in Range(xs)) /\ ~(g \in K /\ e \in Range(xs))
      BY <2>1, <3>3, <3>4
    <3> QED BY <3>1, <3>2, <3>5, <1>1 DEF PointersOf
  <2> QED BY <2>1 DEF Apart
<1> QED BY <1>5, <1>7, <1>8 DEF DayOK

\* The keys of a day, and the default tick of a file that has none.
WithTick(s, addsTick) == IF addsTick THEN NewVec(s, "int", DefaultTick) ELSE s
AllKeys(o, l, r, s, addsTick) ==
  KeyPointers(o, l, r) \cup (IF addsTick THEN {TickPointer(o, l, s)} ELSE {})

\* The vector of the supplied tick is a new one.
LEMMA WithTickFacts ==
  ASSUME NEW s, StoreOK(s), NEW addsTick
  PROVE LET t == WithTick(s, addsTick)
            v == NextVec(s, "int")
        IN /\ StoreOK(t) /\ Kept(s, t) /\ Grown(s, t)
           /\ addsTick => /\ v[1] = "int" /\ v \in Vector /\ ~IsLive(s, v)
                          /\ IsLive(t, v) /\ t.data[v] = DefaultTick
<1>1. CASE ~addsTick
  BY <1>1 DEF WithTick, Kept, Grown
<1>2. CASE addsTick
  <2>1. "int" \in Kinds
    BY DEF Kinds
  <2>2. StoreOK(NewVec(s, "int", DefaultTick)) /\ NewVecEffect(s, "int", DefaultTick, NewVec(s, "int", DefaultTick))
    BY <2>1, NewVecFacts
  <2> QED BY <1>2, <2>2 DEF WithTick, NewVecEffect, Kept
<1> QED BY <1>1, <1>2

\* The keys of a day that was just filled show what they should.
LEMMA AllKeysOK ==
  ASSUME NEW r, StoreOK(r), NEW f, ColumnsRead(r, f, Len(Files[f].cols)),
         NEW s, StoreOK(s), Kept(r, s), NEW o, NEW l, NEW addsTick
  PROVE KeysOK(AllKeys(o, l, r, s, addsTick), o, l, WithTick(s, addsTick), f)
<1> DEFINE t == WithTick(s, addsTick)  v == NextVec(s, "int")
           g == TickPointer(o, l, s)
           K == KeyPointers(o, l, r)
           C == {c \in Range(r.cols) : c.name \in Keys}
           P(c) == Pointer(o, l, c.name, c.vec, r.data[c.vec])
<1>1. /\ Kept(s, t)
      /\ addsTick => /\ v[1] = "int" /\ v \in Vector /\ ~IsLive(s, v)
                     /\ IsLive(t, v) /\ t.data[v] = DefaultTick
  BY WithTickFacts
<1>2. g.owner = o /\ g.life = l /\ g.vec = v /\ g.shows = DefaultTick /\ g.name = "tick"
  BY PointerIs DEF TickPointer
<1>3. /\ \A c \in C : /\ P(c).owner = o /\ P(c).life = l /\ P(c).name = c.name
                      /\ P(c).vec = c.vec /\ P(c).shows = r.data[c.vec]
  BY PointerIs
<1>4. \A c \in C : /\ c.vec \in Vector /\ c.vec[1] = "int" /\ IsLive(r, c.vec)
                   /\ r.data[c.vec] = <<c.name, f>>
  BY ColumnFacts
<1>5. \A c, h \in C : c.vec = h.vec => c = h
  BY ColumnFacts
<1>6. K = {P(c) : c \in C}
  BY DEF KeyPointers
<1> HIDE DEF t, v, g, K, C, P
<1>7. \A c \in C : IsLive(s, c.vec) /\ IsLive(t, c.vec) /\ t.data[c.vec] = r.data[c.vec]
  <2>1. "int" \in Kinds
    BY DEF Kinds
  <2> QED BY <2>1, <1>1, <1>4 DEF Kept
<1>8. ASSUME NEW c \in C
      PROVE Shows(o, l, t, "int", P(c)) /\ (P(c).name = "ukey" => P(c).shows = <<"ukey", f>>)
  BY <1>3, <1>4, <1>7 DEF Shows
<1>9. ASSUME addsTick
      PROVE Shows(o, l, t, "int", g) /\ g.name # "ukey" /\ \A c \in C : P(c).vec # g.vec
  <2>1. \A c \in C : c.vec # v
    BY <1>1, <1>7, <1>9
  <2> QED BY <2>1, <1>1, <1>2, <1>3, <1>9 DEF Shows
<1>10. AllKeys(o, l, r, s, addsTick) = K \cup (IF addsTick THEN {g} ELSE {})
  BY DEF AllKeys, K, g
<1>11. \A e \in AllKeys(o, l, r, s, addsTick) : (\E c \in C : e = P(c)) \/ (addsTick /\ e = g)
  BY <1>6, <1>10
<1>12. ASSUME NEW e \in AllKeys(o, l, r, s, addsTick), NEW h \in AllKeys(o, l, r, s, addsTick), e.vec = h.vec
       PROVE e = h
  <2>1. CASE (\E c \in C : e = P(c)) /\ (\E c \in C : h = P(c))
    <3>1. PICK a \in C : e = P(a)
      BY <2>1
    <3>2. PICK b \in C : h = P(b)
      BY <2>1
    <3>3. a = b
      BY <1>3, <1>5, <1>12, <3>1, <3>2
    <3> QED BY <3>1, <3>2, <3>3
  <2>2. CASE (\E c \in C : e = P(c)) /\ addsTick /\ h = g
    BY <2>2, <1>9, <1>12
  <2>3. CASE (\E c \in C : h = P(c)) /\ addsTick /\ e = g
    BY <2>3, <1>9, <1>12
  <2> QED BY <2>1, <2>2, <2>3, <1>11
<1> QED BY <1>8, <1>9, <1>11, <1>12 DEF KeysOK, t

\* The columns of a file that are in S.
LEMMA ChosenColumns ==
  ASSUME NEW r, StoreOK(r), NEW f, ColumnsRead(r, f, Len(Files[f].cols)), NEW S
  PROVE LET t == Chosen(r.cols, S)
        IN /\ t \in Seq(Column) /\ Len(t) \in Nat /\ DOMAIN t = 1 .. Len(t)
           /\ \A i \in 1 .. Len(t) : t[i] \in S /\ t[i] \in Range(r.cols)
           /\ \A c \in Range(r.cols) : c \in S => \E i \in 1 .. Len(t) : t[i] = c
           /\ \A i, j \in 1 .. Len(t) : t[i].name = t[j].name \/ t[i].vec = t[j].vec => i = j
<1> DEFINE t == Chosen(r.cols, S)
<1>1. /\ r.cols \in Seq(Column) /\ \A i, j \in 1 .. Len(r.cols) : r.cols[i] = r.cols[j] => i = j
      /\ \A c, g \in Range(r.cols) : c.name = g.name \/ c.vec = g.vec => c = g
  BY ColumnFacts
<1>2. /\ t \in Seq(Column) /\ ChosenSoFar(r.cols, S, t, Len(r.cols))
      /\ \A i, j \in 1 .. Len(t) : t[i] = t[j] => i = j
  BY <1>1, ChosenFacts
<1> HIDE DEF t
<1>3. DOMAIN r.cols = 1 .. Len(r.cols) /\ Len(t) \in Nat /\ DOMAIN t = 1 .. Len(t)
  BY <1>1, <1>2
<1>4. \A i \in 1 .. Len(t) : t[i] \in S /\ t[i] \in Range(r.cols)
  BY <1>2, <1>3 DEF ChosenSoFar, Range
<1>5. \A c \in Range(r.cols) : c \in S => \E i \in 1 .. Len(t) : t[i] = c
  BY <1>2, <1>3 DEF ChosenSoFar, Range
<1>6. \A i, j \in 1 .. Len(t) : t[i].name = t[j].name \/ t[i].vec = t[j].vec => i = j
  BY <1>1, <1>2, <1>4
<1> QED BY <1>2, <1>3, <1>4, <1>5, <1>6 DEF t

\* A list of pointers is a column each.
LEMMA XsMade ==
  ASSUME NEW n \in Nat, NEW xs, xs = [i \in 1 .. n |-> xs[i]], NEW o, NEW l, NEW t,
         \A i \in 1 .. n : Shows(o, l, t, "double", xs[i]),
         \A i, j \in 1 .. n : xs[i].name = xs[j].name \/ xs[i].vec = xs[j].vec => i = j
  PROVE XsOK(xs, o, l, t) /\ DOMAIN xs = 1 .. n
<1>1. DOMAIN xs = 1 .. n /\ IsSeq(xs)
  BY ListOf
<1> QED BY <1>1 DEF XsOK, Distinct

\* Setting the keys and columns of a day sets nothing else.
LEMMA FilledIs ==
  ASSUME NEW y, DayIs(y), NEW K, NEW xs
  PROVE [y EXCEPT !.keys = K, !.xs = xs] = [keys |-> K, xs |-> xs, x2data |-> y.x2data, index |-> y.index]
<1>1. PICK a, b, c, g : y = [keys |-> a, xs |-> b, x2data |-> c, index |-> g]
  BY DEF DayIs
<1>2. y.x2data = c /\ y.index = g
  BY <1>1
<1> DEFINE z == [y EXCEPT !.keys = K, !.xs = xs]
<1>3. z = [y EXCEPT !.keys = K, !.xs = xs]
  OBVIOUS
<1> HIDE DEF z
<1>4. z = [keys |-> K, xs |-> xs, x2data |-> c, index |-> g]
  BY <1>1, <1>3
<1>5. z = [keys |-> K, xs |-> xs, x2data |-> y.x2data, index |-> y.index]
  BY <1>2, <1>4
<1> QED BY <1>5, Zenon DEF z

\* Load fills a new day from its own InputData.
LEMMA LoadKeeps ==
  ASSUME InputInv, NEW d \in Days, NEW f \in DOMAIN Files, NEW format \in Formats, Load(d, f, format)
  PROVE InputInv'
<1> DEFINE o == <<d, "id">>
           r == ReadFile(store[o], f, format, {})
           doubles == Chosen(r.cols, {c \in Range(r.cols) : c.type = "double"})
           addsTick == format = "feather" /\ LacksTick(r)
           K == AllKeys(o, life[o], r, r, addsTick)
           xs == [i \in DOMAIN doubles |->
                        Pointer(o, life[o], doubles[i].name, doubles[i].vec, <<doubles[i].name, f>>)]
           y == [NewDay EXCEPT !.keys = K, !.xs = xs]
           t == WithTick(r, addsTick)
           z == Indexed(y, f)
<1>1. /\ Call /\ Fresh(d) /\ HasKeys(y)
      /\ store' = [store EXCEPT ![o] = t] /\ day' = [day EXCEPT ![d] = z]
      /\ wants' = wants /\ life' = life
  BY DEF Load, WithTick, AllKeys
<1>2. o \in Owners /\ o \in OwnersOf(d) /\ life[o] \in Nat
  BY OwnersFacts, Unchanged
<1>3. store[o] = NewStore /\ StoreOK(store[o]) /\ store[o].cols = <<>>
  <2>1. store[o] = NewStore
    BY <1>1 DEF Fresh, InputInv
  <2>2. NewStore.cols = <<>>
    BY DEF NewStore
  <2> QED BY <2>1, <2>2, NewStoreOK
<1>4. StoreOK(r) /\ ColumnsRead(r, f, Len(Files[f].cols))
  BY <1>3, ReadFacts
<1> HIDE DEF o, r
<1>5. KeysOK(K, o, life[o], t, f)
  <2>1. Kept(r, r)
    BY DEF Kept
  <2> QED BY <1>4, <2>1, AllKeysOK
<1>6. StoreOK(t) /\ Kept(r, t)
  BY <1>4, WithTickFacts
<1>7. /\ Len(doubles) \in Nat /\ DOMAIN doubles = 1 .. Len(doubles)
      /\ \A i \in 1 .. Len(doubles) : doubles[i].type = "double" /\ doubles[i] \in Range(r.cols)
      /\ \A i, j \in 1 .. Len(doubles) :
           doubles[i].name = doubles[j].name \/ doubles[i].vec = doubles[j].vec => i = j
  <2> DEFINE S == {c \in Range(r.cols) : c.type = "double"}
  <2>1. \A c \in S : c.type = "double"
    OBVIOUS
  <2>2. doubles = Chosen(r.cols, S)
    OBVIOUS
  <2> HIDE DEF S, doubles
  <2> QED BY <1>4, <2>1, <2>2, ChosenColumns
<1> HIDE DEF doubles, K, t, addsTick
<1>8. XsOK(xs, o, life[o], t)
  <2> DEFINE n == Len(doubles)
  <2>1. \A i \in 1 .. n : /\ xs[i].owner = o /\ xs[i].life = life[o] /\ xs[i].name = doubles[i].name
                          /\ xs[i].vec = doubles[i].vec /\ xs[i].shows = <<doubles[i].name, f>>
    BY <1>7, PointerIs
  <2>2. xs = [i \in 1 .. n |-> xs[i]]
    BY <1>7
  <2> HIDE DEF xs
  <2>3. ASSUME NEW i \in 1 .. n PROVE Shows(o, life[o], t, "double", xs[i])
    <3> DEFINE c == doubles[i]
    <3>1. c \in Range(r.cols) /\ c.type = "double"
      BY <1>7
    <3> HIDE DEF c
    <3>2. c.vec \in Vector /\ c.vec[1] = "double" /\ IsLive(r, c.vec) /\ r.data[c.vec] = <<c.name, f>>
          /\ c.vec[1] \in Kinds
      BY <3>1, <1>4, ColumnFacts
    <3>3. IsLive(t, c.vec) /\ t.data[c.vec] = <<c.name, f>>
      BY <3>2, <1>6 DEF Kept
    <3>4. /\ xs[i].owner = o /\ xs[i].life = life[o] /\ xs[i].vec = c.vec /\ xs[i].shows = <<c.name, f>>
      BY <2>1 DEF c
    <3> QED BY <3>2, <3>3, <3>4 DEF Shows
  <2>4. \A i, j \in 1 .. n : xs[i].name = xs[j].name \/ xs[i].vec = xs[j].vec => i = j
    BY <1>7, <2>1
  <2> HIDE DEF n
  <2>5. n \in Nat
    BY <1>7 DEF n
  <2> QED BY <2>2, <2>3, <2>4, <2>5, XsMade
<1> HIDE DEF xs
<1>9. y = [keys |-> K, xs |-> xs, x2data |-> {}, index |-> NoIndex]
  <2>1. DayIs(NewDay) /\ NewDay.x2data = {} /\ NewDay.index = NoIndex
    BY DEF DayIs, NewDay
  <2>2. y = [keys |-> K, xs |-> xs, x2data |-> NewDay.x2data, index |-> NewDay.index]
    BY <2>1, FilledIs, Zenon
  <2> QED BY <2>1, <2>2
<1> HIDE DEF y
<1>10. y.keys = K /\ y.xs = xs /\ y.x2data = {} /\ y.index = NoIndex
  BY <1>9
<1>11. z = [keys |-> K, xs |-> xs, x2data |-> Names(y), index |-> f]
  <2>1. y = [keys |-> y.keys, xs |-> y.xs, x2data |-> y.x2data, index |-> y.index]
    BY <1>9, <1>10
  <2>2. z = [keys |-> y.keys, xs |-> y.xs, x2data |-> Names(y), index |-> f]
    BY <2>1, IndexedIs
  <2> QED BY <2>2, <1>10
<1> HIDE DEF z
<1>12. z # NewDay
  <2>1. K # {}
    BY <1>1, <1>10 DEF HasKeys, Keys
  <2>2. z.keys = K /\ NewDay.keys = {}
    BY <1>11 DEF NewDay
  <2> QED BY <2>1, <2>2
<1>13. /\ StoresOK(store', life) /\ store'[o] = t
       /\ \A q \in Owners \ {o} : store'[q] = store[q]
  <2>1. StoresOK(store, life)
    BY DEF InputInv
  <2>2. /\ StoresOK([store EXCEPT ![o] = t], life) /\ [store EXCEPT ![o] = t][o] = t
        /\ \A q \in Owners \ {o} : [store EXCEPT ![o] = t][q] = store[q]
    BY <1>2, <1>6, <2>1, StoreUpdate
  <2> QED BY <1>1, <2>2, Zenon
<1>14. DayOK(store', life, d, z)
  <2>1. Names(y) \subseteq NamesIn(xs)
    BY <1>10, NamesAreIn
  <2>2. KeysOK(K, o, life[o], store'[o], f) /\ XsOK(xs, o, life[o], store'[o]) /\ StoreOK(store'[o])
    BY <1>5, <1>6, <1>8, <1>13
  <2> DEFINE st == store'  x2 == Names(y)
  <2> HIDE DEF st, x2
  <2>3. DayOK(st, life, d, z)
    BY <1>2, <1>11, <2>1, <2>2, BuiltDayOK DEF st, x2
  <2> QED BY <2>3 DEF st
<1>15. /\ day' = [dd \in Days |-> day'[dd]] /\ day'[d] = z
       /\ \A dd \in Days \ {d} : day'[dd] = day[dd]
  BY <1>1, ChangedDay
<1>16. ASSUME NEW dd \in Days \ {d}
       PROVE /\ day'[dd] = day[dd] /\ store'[<<dd, "id">>] = store[<<dd, "id">>]
             /\ \A q \in OwnersOf(dd) : Evolves(store[q], life[q], store'[q], life'[q])
  <2>1. \A q \in OwnersOf(dd) : q \in Owners /\ q # o
    <3>1. OwnersOf(dd) \subseteq Owners /\ o \notin OwnersOf(dd)
      BY OwnersFacts DEF o
    <3> QED BY <3>1
  <2>2. \A q \in OwnersOf(dd) : store'[q] = store[q] /\ Evolves(store[q], life[q], store[q], life[q])
    BY <2>1, <1>13, Unchanged
  <2>3. <<dd, "id">> \in OwnersOf(dd)
    BY OwnersFacts
  <2> QED BY <1>1, <1>15, <2>2, <2>3
<1>17. \A q \in Owners : life'[q] <= life[q] + 1
  BY <1>1, Unchanged
<1>18. StoresOK(store', life') /\ wants' \in [Readers -> SUBSET Wanted]
  BY <1>1, <1>13 DEF InputInv
<1>19. \A dd \in Days \cap {d} : /\ DayOK(store', life', dd, day'[dd])
                                 /\ day'[dd] = NewDay => store'[<<dd, "id">>] = NewStore
  BY <1>1, <1>12, <1>14, <1>15
<1> QED BY <1>1, <1>15, <1>16, <1>17, <1>18, <1>19, StepKeeps

\* Where read puts column c of r: a column of ints is copied, the i-th of them
\* behind the doubles of r.
CopyAt(r, copied, s, c) ==
  s.live["double"][Len(r.live["double"]) + (CHOOSE i \in DOMAIN copied : copied[i] = c)]
VecOf(r, copied, s, c) == IF IsCopied(c) THEN CopyAt(r, copied, s, c) ELSE c.vec
Copied(r) == Chosen(r.cols, {c \in Range(r.cols) : IsCopied(c)})
Copies(r) == NewDoubles(r, [i \in DOMAIN Copied(r) |-> r.data[Copied(r)[i].vec]])

\* After read has copied the columns of ints, every column shows its own data
\* in a vector of doubles of its own.
LEMMA CopiesMade ==
  ASSUME NEW r, StoreOK(r), NEW f, ColumnsRead(r, f, Len(Files[f].cols))
  PROVE /\ StoreOK(Copies(r)) /\ Kept(r, Copies(r)) /\ Grown(r, Copies(r))
        /\ \A c \in Range(r.cols) : c.name \notin Keys =>
             LET v == VecOf(r, Copied(r), Copies(r), c)
             IN /\ v \in Vector /\ v[1] = "double" /\ IsLive(Copies(r), v)
                /\ Copies(r).data[v] = <<c.name, f>>
        /\ \A c, g \in Range(r.cols) :
             c.name \notin Keys /\ g.name \notin Keys
             /\ VecOf(r, Copied(r), Copies(r), c) = VecOf(r, Copied(r), Copies(r), g) => c = g
<1> DEFINE k == "double"
           m == Len(r.live[k])
           copied == Copied(r)
           n == Len(copied)
           ps == [i \in DOMAIN copied |-> r.data[copied[i].vec]]
           s == Copies(r)
           W == s.live[k]
           idx(c) == CHOOSE i \in DOMAIN copied : copied[i] = c
           v(c) == VecOf(r, copied, s, c)
           C == {c \in Range(r.cols) : c.name \notin Keys}
<1>1. /\ n \in Nat /\ DOMAIN copied = 1 .. n
      /\ \A i \in 1 .. n : IsCopied(copied[i]) /\ copied[i] \in Range(r.cols)
      /\ \A c \in Range(r.cols) : IsCopied(c) => \E i \in 1 .. n : copied[i] = c
  <2> DEFINE S == {c \in Range(r.cols) : IsCopied(c)}  q == Chosen(r.cols, S)
  <2>1. copied = q
    BY DEF Copied
  <2> HIDE DEF S
  <2>2. /\ q \in Seq(Column) /\ Len(q) \in Nat /\ DOMAIN q = 1 .. Len(q)
        /\ \A i \in 1 .. Len(q) : q[i] \in S /\ q[i] \in Range(r.cols)
        /\ \A c \in Range(r.cols) : c \in S => \E i \in 1 .. Len(q) : q[i] = c
        /\ \A i, j \in 1 .. Len(q) : q[i].name = q[j].name \/ q[i].vec = q[j].vec => i = j
    BY ChosenColumns, Zenon
  <2>3. \A c \in Range(r.cols) : c \in S <=> IsCopied(c)
    BY DEF S
  <2> HIDE DEF q, copied
  <2> QED BY <2>1, <2>2, <2>3
<1>2. \A c \in C : /\ c.vec \in Vector /\ c.vec[1] = c.type /\ c.type \in Kinds
                   /\ IsLive(r, c.vec) /\ r.data[c.vec] = <<c.name, f>>
  BY ColumnFacts
<1>3. \A c, g \in C : c.vec = g.vec => c = g
  BY ColumnFacts
<1>4. /\ Len(ps) = n /\ \A i \in 1 .. n : ps[i] = r.data[copied[i].vec]
  <2>1. ps = [i \in 1 .. n |-> ps[i]] /\ \A i \in 1 .. n : ps[i] = r.data[copied[i].vec]
    BY <1>1
  <2> HIDE DEF ps, n
  <2> QED BY <1>1, <2>1, ListOf
<1>5. DoublesMade(r, s, ps, n)
  <2>1. s = NewDoubles(r, ps)
    BY DEF Copies
  <2> HIDE DEF s, ps
  <2> QED BY <1>1, <1>4, <2>1, DoublesFacts
<1> HIDE DEF s, ps, copied, n
<1>6. /\ StoreOK(s) /\ Kept(r, s) /\ Grown(r, s) /\ Len(W) = m + n /\ m \in Nat
      /\ \A i \in 1 .. m : W[i] = r.live[k][i]
      /\ \A i \in 1 .. n : s.data[W[m + i]] = ps[i]
  <2>1. r.live[k] \in Seq(Vector)
    BY DEF StoreOK, Kinds
  <2> QED BY <1>5, <2>1 DEF DoublesMade
<1>7. W \in Seq(Vector) /\ Once(W) /\ \A j \in 1 .. Len(W) : W[j] \in Vector /\ W[j][1] = k /\ IsLive(s, W[j])
  <2>1. k \in Kinds
    BY DEF Kinds
  <2>2. W \in Seq(Vector) /\ Owns(k, W, s.pool[k], s.made[k])
    BY <1>6, <2>1 DEF StoreOK
  <2> HIDE DEF W
  <2>3. ASSUME NEW j \in 1 .. Len(W) PROVE W[j] \in Vector /\ W[j][1] = k /\ In(W[j], W)
    <3>1. W[j] \in Vector
      BY <2>2
    <3>2. In(W[j], W)
      BY DEF In
    <3>3. W[j] \in Vectors(k, s.made[k])
      BY <2>2, <3>2 DEF Owns
    <3> QED BY <3>1, <3>2, <3>3 DEF Vectors
  <2> QED BY <2>2, <2>3 DEF Owns, IsLive, W
<1>8. ASSUME NEW c \in C, IsCopied(c)
      PROVE /\ idx(c) \in 1 .. n /\ copied[idx(c)] = c /\ v(c) = W[m + idx(c)]
            /\ m + idx(c) \in 1 .. Len(W) /\ m + idx(c) > m
  <2>1. idx(c) \in 1 .. n /\ copied[idx(c)] = c
    <3>1. \E i \in DOMAIN copied : copied[i] = c
      BY <1>1, <1>8
    <3> QED BY <3>1, <1>1
  <2>2. v(c) = W[m + idx(c)]
    BY <1>8 DEF VecOf, CopyAt
  <2> HIDE DEF idx, v, m, W
  <2> QED BY <1>1, <1>6, <2>1, <2>2
<1>9. ASSUME NEW c \in C, ~IsCopied(c)
      PROVE v(c) = c.vec /\ c.vec[1] = k /\ \E j \in 1 .. m : W[j] = c.vec
  <2>1. v(c) = c.vec
    BY <1>9 DEF VecOf
  <2>2. c.type = k
    BY <1>2, <1>9 DEF IsCopied, Kinds
  <2>3. In(c.vec, r.live[k])
    BY <1>2, <2>2 DEF IsLive
  <2> QED BY <1>2, <1>6, <2>1, <2>2, <2>3 DEF In
<1>10. ASSUME NEW c \in C
       PROVE /\ v(c) \in Vector /\ v(c)[1] = k /\ IsLive(s, v(c)) /\ s.data[v(c)] = <<c.name, f>>
  <2>1. CASE IsCopied(c)
    <3> DEFINE i == idx(c)
    <3>1. i \in 1 .. n /\ copied[i] = c /\ v(c) = W[m + i] /\ m + i \in 1 .. Len(W)
      BY <1>8, <2>1
    <3> HIDE DEF i, v, W, m
    <3>2. s.data[W[m + i]] = r.data[c.vec]
      BY <1>4, <1>6, <3>1
    <3> QED BY <1>2, <1>7, <3>1, <3>2
  <2>2. CASE ~IsCopied(c)
    <3>1. v(c) = c.vec /\ c.vec[1] = k
      BY <1>9, <2>2
    <3>2. c.vec[1] \in Kinds
      BY <3>1 DEF Kinds
    <3> HIDE DEF v
    <3> QED BY <1>2, <1>6, <3>1, <3>2 DEF Kept
  <2> QED BY <2>1, <2>2
<1>11. ASSUME NEW c \in C, NEW g \in C, v(c) = v(g) PROVE c = g
  <2> HIDE DEF v, W, m, idx
  <2>1. CASE IsCopied(c) /\ IsCopied(g)
    <3> DEFINE i == idx(c)  j == idx(g)
    <3>1. i \in 1 .. n /\ copied[i] = c /\ v(c) = W[m + i] /\ m + i \in 1 .. Len(W)
      BY <1>8, <2>1
    <3>2. j \in 1 .. n /\ copied[j] = g /\ v(g) = W[m + j] /\ m + j \in 1 .. Len(W)
      BY <1>8, <2>1
    <3> HIDE DEF i, j
    <3>3. m + i = m + j
      BY <1>7, <1>11, <3>1, <3>2 DEF Once
    <3>4. i = j
      BY <1>1, <1>6, <3>1, <3>2, <3>3
    <3> QED BY <3>1, <3>2, <3>4
  <2>2. CASE ~IsCopied(c) /\ ~IsCopied(g)
    BY <1>3, <1>9, <1>11, <2>2
  <2>3. ASSUME NEW a \in C, NEW b \in C, IsCopied(a), ~IsCopied(b), v(a) = v(b) PROVE FALSE
    <3> DEFINE i == idx(a)
    <3>1. v(a) = W[m + i] /\ m + i \in 1 .. Len(W) /\ m + i > m
      BY <1>8, <2>3
    <3>2. PICK j \in 1 .. m : W[j] = v(b)
      BY <1>9, <2>3
    <3> HIDE DEF i
    <3>3. j \in 1 .. Len(W)
      BY <1>1, <1>6, <3>2
    <3>4. j = m + i
      BY <1>7, <2>3, <3>1, <3>2, <3>3 DEF Once
    <3> QED BY <1>6, <3>1, <3>2, <3>4
  <2> QED BY <1>11, <2>1, <2>2, <2>3
<1> QED BY <1>6, <1>10, <1>11 DEF s, copied

\* Read fills a new day from the reader's id, which it clears first.
LEMMA ReadKeeps ==
  ASSUME InputInv, NEW x \in Readers, NEW d \in Days, NEW f \in DOMAIN Files, NEW format \in Formats,
         Read(x, d, f, format)
  PROVE InputInv'
<1> DEFINE o == <<x, "id">>
           l == life[o] + 1
           r == ReadFile(Cleared(store[o]), f, format, wants[x])
           s == Copies(r)
           S == {c \in Range(r.cols) : c.name \notin Keys}
           cols == Chosen(r.cols, S)
           addsTick == format = "csv" /\ LacksTick(r)
           t == WithTick(s, addsTick)
           K == AllKeys(o, l, r, s, addsTick)
           xs == [i \in DOMAIN cols |->
                    Pointer(o, l, cols[i].name, VecOf(r, Copied(r), s, cols[i]), <<cols[i].name, f>>)]
           x2 == {c.name : c \in Range(cols)}
           z == [keys |-> K, xs |-> xs, x2data |-> x2, index |-> NoIndex]
<1>1. /\ Call /\ Fresh(d)
      /\ store' = [store EXCEPT ![o] = t] /\ life' = [life EXCEPT ![o] = l]
      /\ day' = [day EXCEPT ![d].keys = K, ![d].xs = xs, ![d].x2data = x2]
      /\ wants' = wants
  BY Zenon DEF Read, WithTick, AllKeys, Copies, Copied, VecOf, CopyAt
<1>2. o \in Owners /\ o \in OwnersOf(d) /\ life[o] \in Nat /\ l \in Nat
  <2>1. o \in Owners /\ o \in OwnersOf(d)
    BY OwnersFacts DEF OwnersOf
  <2> QED BY <2>1, Unchanged
<1>3. StoreOK(store[o]) /\ StoreOK(Cleared(store[o])) /\ Cleared(store[o]).cols = <<>> /\ Grown(store[o], Cleared(store[o]))
  BY <1>2, Unchanged, ClearedFacts
<1>4. StoreOK(r) /\ ColumnsRead(r, f, Len(Files[f].cols)) /\ Grown(Cleared(store[o]), r)
  BY <1>3, ReadFacts
<1> HIDE DEF o, r, l
<1>5. /\ StoreOK(s) /\ Kept(r, s) /\ Grown(r, s)
      /\ \A c \in Range(r.cols) : c.name \notin Keys =>
             LET v == VecOf(r, Copied(r), s, c)
             IN /\ v \in Vector /\ v[1] = "double" /\ IsLive(s, v)
                /\ s.data[v] = <<c.name, f>>
      /\ \A c, g \in Range(r.cols) :
             c.name \notin Keys /\ g.name \notin Keys
             /\ VecOf(r, Copied(r), s, c) = VecOf(r, Copied(r), s, g) => c = g
  BY <1>4, CopiesMade, Zenon
<1> HIDE DEF s
<1>6. KeysOK(K, o, l, t, f)
  BY <1>4, <1>5, AllKeysOK
<1>7. StoreOK(t) /\ Kept(s, t) /\ Grown(s, t)
  BY <1>5, WithTickFacts
<1> HIDE DEF S, t, K, addsTick
<1>8. /\ cols \in Seq(Column) /\ Len(cols) \in Nat /\ DOMAIN cols = 1 .. Len(cols)
      /\ \A i \in 1 .. Len(cols) : cols[i] \in S /\ cols[i] \in Range(r.cols)
      /\ \A c \in Range(r.cols) : c \in S => \E i \in 1 .. Len(cols) : cols[i] = c
      /\ \A i, j \in 1 .. Len(cols) : cols[i].name = cols[j].name \/ cols[i].vec = cols[j].vec => i = j
  BY <1>4, ChosenColumns, Zenon
<1> HIDE DEF cols
<1>9. XsOK(xs, o, l, t) /\ x2 \subseteq NamesIn(xs)
  <2> DEFINE n == Len(cols)
             V(c) == VecOf(r, Copied(r), s, c)
  <2>1. \A i \in 1 .. n : /\ xs[i].owner = o /\ xs[i].life = l /\ xs[i].name = cols[i].name
                          /\ xs[i].vec = V(cols[i]) /\ xs[i].shows = <<cols[i].name, f>>
    BY <1>8, PointerIs
  <2>2. xs = [i \in 1 .. n |-> xs[i]]
    BY <1>8
  <2> HIDE DEF xs, V
  <2>3. \A i \in 1 .. n : cols[i] \in Range(r.cols) /\ cols[i].name \notin Keys
    BY <1>8 DEF S
  <2>4. ASSUME NEW i \in 1 .. n PROVE Shows(o, l, t, "double", xs[i])
    <3> DEFINE c == cols[i]
    <3>1. c \in Range(r.cols) /\ c.name \notin Keys
      BY <2>3
    <3>2. /\ xs[i].owner = o /\ xs[i].life = l /\ xs[i].vec = V(c) /\ xs[i].shows = <<c.name, f>>
      BY <2>1
    <3> HIDE DEF c
    <3>3. V(c) \in Vector /\ V(c)[1] = "double" /\ IsLive(s, V(c)) /\ s.data[V(c)] = <<c.name, f>>
      BY <1>5, <3>1 DEF V
    <3>4. V(c)[1] \in Kinds
      BY <3>3 DEF Kinds
    <3>5. IsLive(t, V(c)) /\ t.data[V(c)] = <<c.name, f>>
      BY <1>7, <3>3, <3>4 DEF Kept
    <3> QED BY <3>2, <3>3, <3>5 DEF Shows
  <2>5. ASSUME NEW i \in 1 .. n, NEW j \in 1 .. n, xs[i].name = xs[j].name \/ xs[i].vec = xs[j].vec
        PROVE i = j
    <3>1. CASE xs[i].name = xs[j].name
      BY <1>8, <2>1, <3>1
    <3>2. CASE xs[i].vec = xs[j].vec
      <4>1. V(cols[i]) = V(cols[j])
        BY <2>1, <3>2
      <4>2. cols[i] = cols[j]
        BY <1>5, <2>3, <4>1 DEF V
      <4> QED BY <1>8, <4>2
    <3> QED BY <2>5, <3>1, <3>2
  <2>6. x2 \subseteq NamesIn(xs)
    <3>1. ASSUME NEW c \in Range(cols) PROVE c.name \in NamesIn(xs)
      <4>1. PICK i \in 1 .. n : c = cols[i]
        BY <1>8 DEF Range
      <4>2. xs[i] \in Range(xs) /\ xs[i].name = c.name
        BY <2>1, <2>2, <4>1 DEF Range
      <4> QED BY <4>2 DEF NamesIn
    <3> QED BY <3>1
  <2> HIDE DEF n, x2
  <2>7. n \in Nat
    BY <1>8 DEF n
  <2> QED BY <2>2, <2>4, <2>5, <2>6, <2>7, XsMade
<1> HIDE DEF xs, x2
<1>10. day' = [day EXCEPT ![d] = z]
  <2>1. DayIs(day[d]) /\ day[d].index = NoIndex
    <3>1. day[d] = NewDay
      BY <1>1 DEF Fresh
    <3>2. DayIs(NewDay) /\ NewDay.index = NoIndex
      BY DEF DayIs, NewDay
    <3> QED BY <3>1, <3>2
  <2> DEFINE y == day[d]  w == [y EXCEPT !.keys = K, !.xs = xs, !.x2data = x2]
  <2>2. day' = [day EXCEPT ![d] = w]
    BY <1>1, Zenon
  <2>3. w = [keys |-> K, xs |-> xs, x2data |-> x2, index |-> y.index]
    <3>1. w = [y EXCEPT !.keys = K, !.xs = xs, !.x2data = x2]
      OBVIOUS
    <3> HIDE DEF w
    <3>2. PICK a, b, c, g : y = [keys |-> a, xs |-> b, x2data |-> c, index |-> g]
      BY <2>1 DEF DayIs
    <3>3. y.index = g
      BY <3>2
    <3> HIDE DEF y
    <3>4. w = [keys |-> K, xs |-> xs, x2data |-> x2, index |-> g]
      BY <3>1, <3>2
    <3> QED BY <3>3, <3>4
  <2> HIDE DEF w
  <2> QED BY <2>1, <2>2, <2>3
<1>11. /\ StoresOK(store', life') /\ store'[o] = t /\ life'[o] = l
       /\ \A q \in Owners : q # o => store'[q] = store[q] /\ life'[q] = life[q]
  <2>1. StoresOK(store, life)
    BY DEF InputInv
  <2>2. StoresOK([store EXCEPT ![o] = t], [life EXCEPT ![o] = @ + 1])
    BY <1>2, <1>7, <2>1, LifeUpdate
  <2>3. [life EXCEPT ![o] = @ + 1] = [life EXCEPT ![o] = l]
    BY DEF l
  <2>4. StoresOK(store', life')
    BY <1>1, <2>2, <2>3
  <2> QED BY <1>1, <1>2, <2>1, <2>4 DEF StoresOK
<1>12. ReaderStep(x)
  <2>1. Grown(store[o], t)
    BY <1>3, <1>4, <1>5, <1>7 DEF Grown
  <2> QED BY <1>11, <2>1 DEF ReaderStep, o, l
<1>13. DayOK(store', life', d, z)
  <2> DEFINE st == store'  lf == life'
  <2>1. lf[o] = l /\ st[o] = t
    BY <1>11
  <2> HIDE DEF st, lf
  <2>2. KeysOK(K, o, lf[o], st[o], f) /\ XsOK(xs, o, lf[o], st[o]) /\ StoreOK(st[o]) /\ lf[o] \in Nat
    BY <1>2, <1>6, <1>7, <1>9, <2>1
  <2>3. DayOK(st, lf, d, z)
    BY <1>2, <1>9, <2>2, BuiltDayOK
  <2> QED BY <2>3 DEF st, lf
<1> HIDE DEF z
<1>14. /\ day' = [dd \in Days |-> day'[dd]] /\ day'[d] = z
       /\ \A dd \in Days \ {d} : day'[dd] = day[dd]
  BY <1>10, ChangedDay
<1>15. \A dd \in Days : store'[<<dd, "id">>] = store[<<dd, "id">>]
  BY <1>12, ReaderStepFacts
<1>16. \A q \in Owners : life'[q] <= life[q] + 1 /\ Evolves(store[q], life[q], store'[q], life'[q])
  BY <1>12, ReaderStepFacts
<1>17. \A dd \in Days \ {d} :
          /\ day'[dd] = day[dd] /\ store'[<<dd, "id">>] = store[<<dd, "id">>]
          /\ \A q \in OwnersOf(dd) : Evolves(store[q], life[q], store'[q], life'[q])
  BY <1>14, <1>15, <1>16, OwnersFacts
<1>18. store[<<d, "id">>] = NewStore
  BY <1>1 DEF Fresh, InputInv
<1>19. \A dd \in Days \cap {d} : /\ DayOK(store', life', dd, day'[dd])
                                 /\ day'[dd] = NewDay => store'[<<dd, "id">>] = NewStore
  BY <1>13, <1>14, <1>15, <1>18
<1>20. wants' \in [Readers -> SUBSET Wanted]
  BY <1>1 DEF InputInv
<1> QED BY <1>1, <1>11, <1>14, <1>16, <1>17, <1>19, <1>20, StepKeeps

\* Columns put behind those a day has keep it, when their names are new and
\* their vectors were not in use.
LEMMA DayExtended ==
  ASSUME NEW d \in Days, NEW st, NEW lf, NEW y, DayOK(st, lf, d, y),
         NEW o \in OwnersOf(d), lf[o] \in Nat, StoreOK(st[o]),
         \A e \in PointersOf(y) : e.owner = o => e.life # lf[o],
         NEW xs, XsOK(xs, o, lf[o], st[o]), NamesIn(y.xs) \cap NamesIn(xs) = {},
         NEW z, z = [keys |-> y.keys, xs |-> y.xs \o xs, x2data |-> y.x2data, index |-> y.index]
  PROVE DayOK(st, lf, d, z)
<1>1. z.keys = y.keys /\ z.xs = y.xs \o xs /\ z.x2data = y.x2data /\ z.index = y.index
  OBVIOUS
<1>2. DayTyped(y) /\ Distinct(y.xs)
  BY DEF DayOK, DayTyped, Distinct
<1>3. PICK A : y.xs \in Seq(A)
  BY <1>2 DEF DayTyped, IsSeq
<1>4. PICK B : xs \in Seq(B)
  BY DEF XsOK, IsSeq
<1> DEFINE C == A \cup B  ys == y.xs
<1>5. ys \in Seq(C) /\ xs \in Seq(C)
  BY <1>3, <1>4
<1> HIDE DEF C
<1>6. /\ ys \o xs \in Seq(C) /\ Distinct(ys \o xs)
      /\ Range(ys \o xs) = Range(ys) \cup Range(xs)
      /\ NamesIn(ys \o xs) = NamesIn(ys) \cup NamesIn(xs)
  <2>1. Distinct(ys) /\ Distinct(xs) /\ NamesIn(ys) \cap NamesIn(xs) = {}
    BY <1>2 DEF XsOK
  <2> HIDE DEF ys
  <2> QED BY <1>5, <2>1, ColumnsAppended
<1>7. /\ IsSeq(z.xs) /\ Distinct(z.xs) /\ Range(z.xs) = Range(y.xs) \cup Range(xs)
      /\ NamesIn(z.xs) = NamesIn(y.xs) \cup NamesIn(xs)
  BY <1>1, <1>6 DEF IsSeq
<1>8. \A e \in Range(xs) : Shows(o, lf[o], st[o], "double", e)
  BY DEF Range, XsOK
<1>9. DayTyped(z)
  <2>1. z.x2data \subseteq Names(z)
    BY <1>1, <1>2, <1>7, NamesAreIn DEF DayTyped
  <2>2. \A e \in Range(z.xs) : e.vec[1] = "double"
    BY <1>2, <1>7, <1>8 DEF DayTyped, Shows
  <2>3. z = [keys |-> z.keys, xs |-> z.xs, x2data |-> z.x2data, index |-> z.index]
    BY <1>1
  <2>4. \A i, j \in DOMAIN z.xs : z.xs[i].name = z.xs[j].name => i = j
    BY <1>7 DEF Distinct
  <2> QED BY <1>1, <1>2, <1>7, <2>1, <2>2, <2>3, <2>4 DEF DayTyped
<1>10. PointersOf(z) = PointersOf(y) \cup Range(xs)
  BY <1>1, <1>7 DEF PointersOf
<1>11. ASSUME NEW e \in Range(xs) PROVE PointerOK(st, lf, d, e)
  <2>1. Shows(o, lf[o], st[o], "double", e) /\ "double" \in Kinds
    BY <1>8 DEF Kinds
  <2>2. e.vec \in DOMAIN st[o].data
    BY <2>1, LiveFacts DEF Shows
  <2> QED BY <2>1, <2>2 DEF PointerOK, Shows
<1>12. \A e \in PointersOf(z) : PointerOK(st, lf, d, e)
  BY <1>10, <1>11 DEF DayOK
<1>13. ASSUME NEW e \in PointersOf(z), NEW g \in PointersOf(z),
              e.life = lf[e.owner], g.life = lf[g.owner], e.owner = g.owner, e.vec = g.vec
       PROVE e = g
  <2>1. CASE e \in PointersOf(y) /\ g \in PointersOf(y)
    BY <1>13, <2>1 DEF DayOK, Apart
  <2>2. CASE e \in Range(xs) /\ g \in Range(xs)
    BY <1>13, <2>2 DEF Range, XsOK
  <2>3. \A h \in Range(xs) : h.owner = o
    BY <1>8 DEF Shows
  <2>4. ~(e \in Range(xs) /\ g \in PointersOf(y)) /\ ~(g \in Range(xs) /\ e \in PointersOf(y))
    BY <1>13, <2>3
  <2> QED BY <1>10, <2>1, <2>2, <2>4
<1> QED BY <1>9, <1>12, <1>13 DEF DayOK, Apart

\* The vectors merge_read lays its columns out in.
LEMMA LaidFacts ==
  ASSUME NEW c, StoreOK(c), c.live = [k \in Kinds |-> <<>>], NEW n \in Nat,
         NEW ps, Len(ps) = n, NEW m, m = NewDoubles(c, ps)
  PROVE /\ StoreOK(m) /\ Grown(c, m)
        /\ \A i \in 1 .. n : LET v == m.live["double"][i]
                            IN v \in Vector /\ v[1] = "double" /\ IsLive(m, v) /\ m.data[v] = ps[i]
        /\ \A i, j \in 1 .. n : m.live["double"][i] = m.live["double"][j] => i = j
<1> DEFINE k == "double"  W == m.live[k]
<1>1. k \in Kinds /\ Len(c.live[k]) = 0
  BY DEF Kinds
<1>2. DoublesMade(c, m, ps, n)
  BY DoublesFacts
<1>3. /\ StoreOK(m) /\ Grown(c, m) /\ Len(W) = n
      /\ \A i \in 1 .. n : m.data[W[i]] = ps[i]
  <2>1. \A i \in 1 .. n : 0 + i = i
    OBVIOUS
  <2>2. \A i \in 1 .. n : m.data[W[0 + i]] = ps[i]
    BY <1>1, <1>2 DEF DoublesMade
  <2>3. \A i \in 1 .. n : m.data[W[i]] = ps[i]
    BY <2>1, <2>2
  <2> QED BY <1>1, <1>2, <2>3 DEF DoublesMade
<1>4. W \in Seq(Vector) /\ Owns(k, W, m.pool[k], m.made[k])
  BY <1>1, <1>3 DEF StoreOK
<1>5. ASSUME NEW i \in 1 .. n PROVE W[i] \in Vector /\ W[i][1] = k /\ In(W[i], W)
  <2>1. W[i] \in Vector /\ In(W[i], W)
    BY <1>3, <1>4 DEF In
  <2>2. W[i] \in Vectors(k, m.made[k])
    BY <1>4, <2>1 DEF Owns
  <2> QED BY <2>1, <2>2 DEF Vectors
<1> QED BY <1>3, <1>4, <1>5 DEF Owns, Once, IsLive

\* MergeRead refuses a name the day has; otherwise the columns are in mid, which
\* it has just cleared, so that none of the day's pointers of this life leads there.
LEMMA MergeReadKeeps ==
  ASSUME InputInv, NEW x \in Readers, NEW d \in Days, NEW f \in DOMAIN Files, MergeRead(x, d, f)
  PROVE InputInv'
<1> DEFINE o == <<x, "id">>
           mid == <<x, "mid">>
           r == ReadFile(Cleared(store[o]), f, "feather", {})
           toMerge == Chosen(r.cols, {c \in Range(r.cols) : c.type = "double" /\ c.name \in wants[x]})
           merges == /\ ~HasDupe(d, toMerge)
                     /\ Keys \subseteq {c.name : c \in Range(r.cols)}
                     /\ toMerge # <<>> /\ Files[f].rows # 0
           laid(c) == <<c.name, f, day[d].index>>
           ps == [i \in DOMAIN toMerge |-> laid(toMerge[i])]
           c0 == Cleared(store[mid])
           m == NewDoubles(c0, ps)
           added == [i \in DOMAIN toMerge |->
                       Pointer(mid, life[mid] + 1, toMerge[i].name, m.live["double"][i], laid(toMerge[i]))]
           y == day[d]
           z == [keys |-> y.keys, xs |-> y.xs \o added, x2data |-> y.x2data, index |-> y.index]
<1>1. /\ Call /\ Usable(d) /\ wants' = wants
      /\ store' = IF merges THEN [store EXCEPT ![o] = r, ![mid] = m] ELSE [store EXCEPT ![o] = r]
      /\ life' = [life EXCEPT ![o] = @ + 1, ![mid] = IF merges THEN @ + 1 ELSE @]
      /\ day' = IF merges THEN [day EXCEPT ![d].xs = @ \o added] ELSE day
  BY Zenon DEF MergeRead
<1>2. /\ o \in Owners /\ mid \in Owners /\ o # mid /\ mid \in OwnersOf(d)
      /\ life[o] \in Nat /\ life[mid] \in Nat /\ StoreOK(store[mid])
  <2>1. o \in Owners /\ mid \in Owners /\ o # mid /\ mid \in OwnersOf(d)
    BY OwnersFacts DEF OwnersOf
  <2> QED BY <2>1, Unchanged
<1>3. StoreOK(store[o]) /\ StoreOK(Cleared(store[o])) /\ Cleared(store[o]).cols = <<>> /\ Grown(store[o], Cleared(store[o]))
  BY <1>2, Unchanged, ClearedFacts
<1>4. StoreOK(r) /\ ColumnsRead(r, f, Len(Files[f].cols)) /\ Grown(Cleared(store[o]), r)
  <2>1. "feather" \in Formats
    BY DEF Formats
  <2> QED BY <1>3, <2>1, ReadFacts
<1>5. Grown(store[o], r)
  BY <1>3, <1>4 DEF Grown
<1>6. StoresOK(store, life) /\ \A q \in Owners : life[q] \in Nat
  BY Unchanged DEF InputInv
<1>7. wants' \in [Readers -> SUBSET Wanted]
  BY <1>1 DEF InputInv
<1>8. CASE ~merges
  <2> HIDE DEF o, mid, r, merges
  <2>1. store' = [store EXCEPT ![o] = r] /\ life' = [life EXCEPT ![o] = @ + 1] /\ day' = day
    <3>1. store' = [store EXCEPT ![o] = r] /\ day' = day
      BY <1>1, <1>8
    <3>2. life' = [life EXCEPT ![o] = @ + 1, ![mid] = @]
      BY <1>1, <1>8
    <3> QED BY <1>2, <1>6, <3>1, <3>2 DEF StoresOK
  <2>2. StoresOK(store', life')
    BY <1>2, <1>4, <1>6, <2>1, LifeUpdate
  <2>3. /\ store'[o] = r /\ life'[o] = life[o] + 1
        /\ \A q \in Owners : q # o => store'[q] = store[q] /\ life'[q] = life[q]
    BY <1>2, <1>6, <2>1 DEF StoresOK
  <2>4. ReaderStep(x)
    BY <1>5, <2>2, <2>3 DEF ReaderStep, o
  <2> QED BY <1>1, <1>7, <2>1, <2>4, ReaderStepKeeps
<1>9. CASE merges
  <2> DEFINE S == {c \in Range(r.cols) : c.type = "double" /\ c.name \in wants[x]}
             n == Len(toMerge)
  <2>1. toMerge = Chosen(r.cols, S)
    OBVIOUS
  <2>2. ~HasDupe(d, toMerge)
    BY <1>9
  <2> HIDE DEF o, mid, r, S, toMerge
  <2>3. /\ toMerge \in Seq(Column) /\ n \in Nat /\ DOMAIN toMerge = 1 .. n
        /\ \A i \in 1 .. n : toMerge[i] \in S /\ toMerge[i] \in Range(r.cols)
        /\ \A c \in Range(r.cols) : c \in S => \E i \in 1 .. n : toMerge[i] = c
        /\ \A i, j \in 1 .. n :
             toMerge[i].name = toMerge[j].name \/ toMerge[i].vec = toMerge[j].vec => i = j
    <3> DEFINE q == Chosen(r.cols, S)
    <3>1. /\ q \in Seq(Column) /\ Len(q) \in Nat /\ DOMAIN q = 1 .. Len(q)
          /\ \A i \in 1 .. Len(q) : q[i] \in S /\ q[i] \in Range(r.cols)
          /\ \A c \in Range(r.cols) : c \in S => \E i \in 1 .. Len(q) : q[i] = c
          /\ \A i, j \in 1 .. Len(q) : q[i].name = q[j].name \/ q[i].vec = q[j].vec => i = j
      BY <1>4, ChosenColumns, Zenon
    <3>2. toMerge = q
      BY <2>1
    <3> HIDE DEF q
    <3> QED BY <3>1, <3>2
  <2>4. StoreOK(c0) /\ c0.live = [k \in Kinds |-> <<>>] /\ Grown(store[mid], c0)
    BY <1>2, ClearedFacts
  <2>5. Len(ps) = n /\ \A i \in 1 .. n : ps[i] = laid(toMerge[i])
    <3>1. ps = [i \in 1 .. n |-> ps[i]] /\ \A i \in 1 .. n : ps[i] = laid(toMerge[i])
      BY <2>3
    <3> HIDE DEF ps, n, laid
    <3> QED BY <2>3, <3>1, ListOf
  <2> HIDE DEF c0, ps
  <2>6. /\ StoreOK(m) /\ Grown(c0, m)
        /\ \A i \in 1 .. n : LET v == m.live["double"][i]
                            IN v \in Vector /\ v[1] = "double" /\ IsLive(m, v) /\ m.data[v] = ps[i]
        /\ \A i, j \in 1 .. n : m.live["double"][i] = m.live["double"][j] => i = j
    <3>1. n \in Nat /\ Len(ps) = n
      BY <2>3, <2>5
    <3>2. m = NewDoubles(c0, ps)
      OBVIOUS
    <3> HIDE DEF n, m
    <3> QED BY <3>1, <3>2, <2>4, LaidFacts
  <2>7. Grown(store[mid], m)
    BY <2>4, <2>6 DEF Grown
  <2>8. /\ store' = [[store EXCEPT ![o] = r] EXCEPT ![mid] = m]
        /\ life' = [[life EXCEPT ![o] = @ + 1] EXCEPT ![mid] = @ + 1]
        /\ day' = [day EXCEPT ![d].xs = @ \o added]
    <3> HIDE DEF merges, m, added
    <3>1. store' = [store EXCEPT ![o] = r, ![mid] = m]
      BY <1>1, <1>9, Zenon
    <3>2. life' = [life EXCEPT ![o] = @ + 1, ![mid] = @ + 1]
      BY <1>1, <1>9
    <3>3. day' = [day EXCEPT ![d].xs = @ \o added]
      BY <1>1, <1>9, Zenon
    <3> QED BY <1>2, <1>6, <3>1, <3>2, <3>3 DEF StoresOK
  <2>16. added = [i \in 1 .. n |-> added[i]]
    BY <2>3
  <2>17. \A i \in 1 .. n : /\ added[i].owner = mid /\ added[i].life = life[mid] + 1
                          /\ added[i].name = toMerge[i].name
                          /\ added[i].vec = m.live["double"][i] /\ added[i].shows = ps[i]
    <3> HIDE DEF laid, m
    <3>1. \A i \in 1 .. n : added[i] = Pointer(mid, life[mid] + 1, toMerge[i].name, m.live["double"][i], ps[i])
      BY <2>3, <2>5
    <3> HIDE DEF added, n
    <3> QED BY <3>1, PointerIs
  <2> HIDE DEF m, n, added, merges
  <2>9. StoresOK(store', life')
    <3>1. StoresOK([store EXCEPT ![o] = r], [life EXCEPT ![o] = @ + 1])
      BY <1>2, <1>4, <1>6, LifeUpdate
    <3> DEFINE st == [store EXCEPT ![o] = r]  lf == [life EXCEPT ![o] = @ + 1]
    <3> HIDE DEF st, lf
    <3>2. StoresOK([st EXCEPT ![mid] = m], [lf EXCEPT ![mid] = @ + 1])
      BY <1>2, <2>6, <3>1, LifeUpdate DEF st, lf
    <3> QED BY <2>8, <3>2, Zenon DEF st, lf
  <2>10. /\ store'[o] = r /\ life'[o] = life[o] + 1 /\ store'[mid] = m /\ life'[mid] = life[mid] + 1
         /\ \A q \in Owners : q # o /\ q # mid => store'[q] = store[q] /\ life'[q] = life[q]
    BY <1>2, <1>6, <2>8 DEF StoresOK
  <2>11. ReaderStep(x)
    BY <1>5, <2>7, <2>9, <2>10 DEF ReaderStep, o, mid
  <2>12. \A q \in Owners : life'[q] <= life[q] + 1 /\ life'[q] \in Nat /\ Evolves(store[q], life[q], store'[q], life'[q])
    BY <2>11, ReaderStepFacts
  <2>13. \A dd \in Days : store'[<<dd, "id">>] = store[<<dd, "id">>]
    BY <2>11, ReaderStepFacts
  <2>14. DayOK(store, life, d, y) /\ y # NewDay /\ \A e \in PointersOf(y) : e.life = life[e.owner]
    BY <1>1, UsableFacts DEF InputInv
  <2> DEFINE st == store'  lf == life'
  <2>15. DayOK(st, lf, d, y)
    <3>1. \A q \in OwnersOf(d) : life[q] \in Nat /\ lf[q] \in Nat /\ Evolves(store[q], life[q], st[q], lf[q])
      BY <1>6, <2>12, OwnersFacts
    <3> HIDE DEF st, lf, y
    <3> QED BY <2>14, <3>1, DayStays
  <2>18. XsOK(added, mid, life[mid] + 1, m)
    <3>1. ASSUME NEW i \in 1 .. n PROVE Shows(mid, life[mid] + 1, m, "double", added[i])
      BY <2>6, <2>17 DEF Shows
    <3>2. \A i, j \in 1 .. n : added[i].name = added[j].name \/ added[i].vec = added[j].vec => i = j
      BY <2>3, <2>6, <2>17
    <3>3. n \in Nat
      BY <2>3
    <3> QED BY <2>16, <3>1, <3>2, <3>3, XsMade
  <2>19. NamesIn(y.xs) \cap NamesIn(added) = {}
    <3>1. \A c \in Range(toMerge) : c.name \notin NamesIn(y.xs)
      BY <2>2, NamesAreIn DEF HasDupe
    <3>2. DOMAIN added = 1 .. n
      BY <2>16
    <3>3. ASSUME NEW e \in Range(added) PROVE e.name \notin NamesIn(y.xs)
      <4>1. PICK i \in 1 .. n : e = added[i]
        BY <3>2 DEF Range
      <4>2. toMerge[i] \in Range(toMerge) /\ e.name = toMerge[i].name
        BY <2>3, <2>17, <4>1 DEF Range
      <4> QED BY <3>1, <4>2
    <3> QED BY <3>3 DEF NamesIn
  <2>20. DayOK(st, lf, d, z)
    <3>1. lf[mid] = life[mid] + 1 /\ st[mid] = m /\ lf[mid] \in Nat
      BY <1>2, <2>10
    <3>2. \A e \in PointersOf(y) : e.owner = mid => e.life # lf[mid]
      BY <1>2, <2>14, <3>1
    <3> HIDE DEF st, lf, y
    <3>3. XsOK(added, mid, lf[mid], st[mid]) /\ StoreOK(st[mid])
      BY <2>6, <2>18, <3>1
    <3> QED BY <1>2, <2>15, <2>19, <3>1, <3>2, <3>3, DayExtended
  <2>21. z # NewDay
    <3>1. y.keys # {}
      BY <1>1 DEF Usable, HasKeys, Keys
    <3>2. z.keys = y.keys /\ NewDay.keys = {}
      BY DEF NewDay
    <3> QED BY <3>1, <3>2
  <2>22. day' = [day EXCEPT ![d] = z]
    <3> DEFINE w == [y EXCEPT !.xs = @ \o added]
    <3>1. day' = [day EXCEPT ![d] = w]
      BY <2>8, Zenon
    <3>2. w = z
      <4>1. PICK a, b, c, g : y = [keys |-> a, xs |-> b, x2data |-> c, index |-> g]
        BY <2>14 DEF DayOK, DayTyped
      <4> HIDE DEF y
      <4>2. y.keys = a /\ y.xs = b /\ y.x2data = c /\ y.index = g
        BY <4>1
      <4> DEFINE u == b \o added
      <4>3. w = [y EXCEPT !.xs = u]
        BY <4>2
      <4> HIDE DEF w, u
      <4>4. w = [keys |-> a, xs |-> u, x2data |-> c, index |-> g]
        BY <4>1, <4>3
      <4> QED BY <4>2, <4>4 DEF u
    <3> QED BY <3>1, <3>2, Zenon
  <2> HIDE DEF z
  <2>23. /\ day' = [dd \in Days |-> day'[dd]] /\ day'[d] = z
         /\ \A dd \in Days \ {d} : day'[dd] = day[dd]
    BY <2>22, ChangedDay
  <2>24. \A dd \in Days \ {d} :
            /\ day'[dd] = day[dd] /\ store'[<<dd, "id">>] = store[<<dd, "id">>]
            /\ \A q \in OwnersOf(dd) : Evolves(store[q], life[q], store'[q], life'[q])
    BY <2>12, <2>13, <2>23, OwnersFacts
  <2>25. \A dd \in Days \cap {d} : /\ DayOK(store', life', dd, day'[dd])
                                   /\ day'[dd] = NewDay => store'[<<dd, "id">>] = NewStore
    BY <2>20, <2>21, <2>23
  <2> QED BY <1>1, <1>7, <2>9, <2>12, <2>23, <2>24, <2>25, StepKeeps
<1> QED BY <1>8, <1>9

\* A stuttering step keeps the invariant.
LEMMA StutterKeeps ==
  ASSUME InputInv, UNCHANGED vars
  PROVE InputInv'
BY DEF InputInv, vars

\* Every step keeps the invariant.
LEMMA NextKeeps ==
  ASSUME InputInv, [Next]_vars
  PROVE InputInv'
<1>1. ASSUME NEW d \in Days, BuildIndex(d) PROVE InputInv'
  BY <1>1, BuildIndexKeeps
<1>2. ASSUME NEW d \in Days, Drop(d) PROVE InputInv'
  BY <1>2, DropKeeps
<1>3. ASSUME NEW d \in Days, NEW n \in {"a", "new"}, AddNewColumn(d, n) PROVE InputInv'
  BY <1>3, AddNewColumnKeeps
<1>4. ASSUME NEW d \in Days, NEW dd \in Days, Merge(d, dd) PROVE InputInv'
  BY <1>4, MergeKeeps
<1>5. ASSUME NEW d \in Days, NEW f \in DOMAIN Files, NEW format \in Formats, Load(d, f, format)
      PROVE InputInv'
  BY <1>5, LoadKeeps
<1>6. ASSUME NEW x \in Readers, Clear(x) PROVE InputInv'
  BY <1>6, ClearKeeps
<1>7. ASSUME NEW x \in Readers, ReadMissing(x) PROVE InputInv'
  BY <1>7, ReadMissingKeeps
<1>8. ASSUME NEW x \in Readers, NEW d \in Days, NEW f \in DOMAIN Files, NEW format \in Formats,
             Read(x, d, f, format)
      PROVE InputInv'
  BY <1>8, ReadKeeps
<1>9. ASSUME NEW x \in Readers, NEW d \in Days, NEW f \in DOMAIN Files, MergeRead(x, d, f)
      PROVE InputInv'
  BY <1>9, MergeReadKeeps
<1>10. CASE Next
  BY <1>1, <1>2, <1>3, <1>4, <1>5, <1>6, <1>7, <1>8, <1>9, <1>10, Zenon DEF Next
<1> QED BY <1>10, StutterKeeps

\* In every reachable state the InputData objects and the days are as InputInv
\* says.
THEOREM Invariance == Spec => []InputInv
<1>1. Init => InputInv
  BY InitInputInv
<1>2. InputInv /\ [Next]_vars => InputInv'
  BY NextKeeps
<1> QED BY <1>1, <1>2, PTL DEF Spec

------------------------------------------------------------------------------
(* What follows.                                                             *)

\* Every InputData has the vectors and columns it made, and every pointer of a
\* day leads into one.
THEOREM TypeCorrect == Spec => []TypeOK
<1>1. ASSUME InputInv PROVE TypeOK
  <2>1. ASSUME NEW o \in Owners, NEW k \in Kinds
        PROVE /\ store[o].made[k] \in Nat
              /\ Range(store[o].live[k]) \cup Range(store[o].pool[k])
                   \subseteq {<<k, i>> : i \in 1..store[o].made[k]}
              /\ \A c \in Range(store[o].cols) : c.vec \in Range(store[o].live[c.type])
    <3> DEFINE s == store[o]
    <3>1. StoreOK(s)
      BY <1>1, Unchanged
    <3> HIDE DEF s
    <3>2. /\ s.live[k] \in Seq(Vector) /\ s.pool[k] \in Seq(Vector) /\ s.made[k] \in Nat
          /\ Owns(k, s.live[k], s.pool[k], s.made[k])
      BY <3>1 DEF StoreOK
    <3>3. \A v : In(v, s.live[k]) \/ In(v, s.pool[k]) => v \in Vectors(k, s.made[k])
      BY <3>2 DEF Owns
    <3>4. Range(s.live[k]) \subseteq Vectors(k, s.made[k])
      BY <3>2, <3>3 DEF Range, In
    <3>5. Range(s.pool[k]) \subseteq Vectors(k, s.made[k])
      BY <3>2, <3>3 DEF Range, In
    <3>6. ASSUME NEW c \in Range(s.cols) PROVE c.vec \in Range(s.live[c.type])
      <4>1. s.cols \in Seq(Column)
        BY <3>1 DEF StoreOK
      <4>2. PICK i \in 1 .. Len(s.cols) : c = s.cols[i]
        BY <4>1 DEF Range
      <4>3. c \in Column /\ c.vec[1] = c.type /\ In(c.vec, s.live[c.vec[1]])
        BY <3>1, <4>1, <4>2 DEF StoreOK, IsLive
      <4>4. s.live[c.type] \in Seq(Vector)
        BY <3>1, <4>3 DEF StoreOK, Column
      <4> QED BY <4>3, <4>4 DEF In, Range
    <3> QED BY <3>2, <3>4, <3>5, <3>6 DEF Vectors, s
  <2>2. ASSUME NEW d \in Days
        PROVE /\ day[d].x2data \subseteq Names(day[d])
              /\ day[d].index \in DOMAIN Files \cup {NoIndex}
              /\ \A e \in Pointers(d) : e.owner \in Owners /\ e.vec \in DOMAIN store[e.owner].data
    <3>1. DayOK(store, life, d, day[d])
      BY <1>1 DEF InputInv
    <3>2. \A e \in PointersOf(day[d]) : e.owner \in Owners /\ e.vec \in DOMAIN store[e.owner].data
      BY <3>1, OwnersFacts DEF DayOK, PointerOK
    <3> QED BY <3>1, <3>2 DEF DayOK, DayTyped, Pointers, PointersOf
  <2>3. \A x \in Readers : wants[x] \subseteq Wanted
    BY <1>1 DEF InputInv
  <2>4. life \in [Owners -> 0..MaxCalls] /\ calls \in 0..MaxCalls
    <3>1. /\ life \in [Owners -> Nat] /\ calls \in 0..MaxCalls
          /\ \A o \in Owners : life[o] <= calls
      BY <1>1 DEF InputInv, StoresOK
    <3>2. \A o \in Owners : life[o] \in 0..MaxCalls
      BY <3>1, BoundsAssumption
    <3> QED BY <3>1, <3>2
  <2> QED BY <2>1, <2>2, <2>3, <2>4 DEF TypeOK
<1> QED BY <1>1, Invariance, PTL

\* However often an InputData was cleared and filled again, when it is destroyed
\* it deletes each vector it made and none twice (InputData::clear, ~InputData).
THEOREM EachDeletedOnce == Spec => []DeletedOnce
<1>1. ASSUME InputInv PROVE DeletedOnce
  BY <1>1, Unchanged, DeletedFacts DEF DeletedOnce
<1> QED BY <1>1, Invariance, PTL

\* No day has two columns of a name, whatever filled it.
THEOREM NoNameTwice == Spec => []NamesDistinct
<1>1. ASSUME InputInv PROVE NamesDistinct
  BY <1>1 DEF InputInv, DayOK, DayTyped, NamesDistinct
<1> QED BY <1>1, Invariance, PTL

\* Unless merge meets a column that merge_read added, what a pointer of a day
\* leads to is what was put there, as long as its InputData was not cleared, and
\* no two of them lead to one vector (new_type_vec, merge, merge_read).
THEOREM ColumnsStayTrue ==
  ASSUME ~Overlap
  PROVE Spec => []ColumnsTrue
<1>1. ASSUME InputInv PROVE ColumnsTrue
  <2>1. ASSUME NEW d \in Days
        PROVE /\ \A e \in Pointers(d) : Current(e) => Shown(e) = e.shows
              /\ \A e, g \in Pointers(d) :
                   Current(e) /\ Current(g) /\ <<e.owner, e.vec>> = <<g.owner, g.vec>> => e = g
    <3>1. DayOK(store, life, d, day[d]) /\ Pointers(d) = PointersOf(day[d])
      BY <1>1 DEF InputInv, Pointers, PointersOf
    <3>2. \A e \in Pointers(d) : Current(e) => Shown(e) = e.shows
      BY <3>1 DEF DayOK, PointerOK, Current, Shown
    <3>3. \A e, g \in Pointers(d) :
            Current(e) /\ Current(g) /\ <<e.owner, e.vec>> = <<g.owner, g.vec>> => e = g
      BY <3>1 DEF DayOK, Apart, Current
    <3> QED BY <3>2, <3>3
  <2> QED BY <2>1 DEF ColumnsTrue
<1> QED BY <1>1, Invariance, PTL

\* Then a merge leaves the columns the day has as they were.
THEOREM MergesKeepColumns ==
  ASSUME ~Overlap
  PROVE Spec => MergeKeepsColumns
<1> DEFINE Keeps == \A d, dd \in Days : Merge(d, dd) =>
                      \A e \in Pointers(d) : store'[e.owner].data[e.vec] = Shown(e)
<1>1. ASSUME InputInv, Next PROVE Keeps
  <2>1. ASSUME NEW d \in Days, NEW dd \in Days, Merge(d, dd), NEW e \in Pointers(d)
        PROVE store'[e.owner].data[e.vec] = Shown(e)
    <3> DEFINE a == Merged(d, dd)  o == e.owner
    <3>1. /\ Usable(d) /\ store' = a.store
          /\ Overlap \/ Names(day[dd]) \cap Names(day[d]) \subseteq day[d].x2data
      BY <2>1 DEF Merge
    <3>2. MergeOK(a, d, dd)
      BY <1>1, <3>1, MergedOK
    <3> HIDE DEF a
    <3>3. e \in PointersOf(day[d]) /\ e.life = life[o] /\ PointerOK(store, life, d, e)
      BY <1>1, <2>1, <3>1, UsableFacts DEF InputInv, DayOK, Pointers, PointersOf
    <3>4. o \in Owners /\ e.vec[1] \in Kinds /\ IsLive(store[o], e.vec)
      BY <3>3, OwnersFacts DEF PointerOK, Vector
    <3>5. KeptFor(store[o], a.store[o])
      BY <3>2, <3>4 DEF MergeOK, Evolves
    <3> QED BY <3>1, <3>4, <3>5 DEF KeptFor, Shown
  <2> QED BY <2>1
<1>2. InputInv /\ [Next]_vars => [Keeps]_vars
  BY <1>1
<1> QED BY <1>2, Invariance, PTL DEF Spec, MergeKeepsColumns
==============================================================================

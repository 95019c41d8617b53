---------------------------- MODULE SequenceLemmas ----------------------------
(***************************************************************************)
(* Facts about sequences that the proofs about queues and windows share:   *)
(* what FlattenSeq computes, and runs of numbers.                          *)
(***************************************************************************)
EXTENDS Integers, Sequences, SequencesExt, SequenceTheorems, WellFoundedInduction, TLAPS

-----------------------------------------------------------------------------
(* Natural numbers: a set of them has a least one, so a set that contains  *)
(* 0 and every successor has them all.                                     *)

LEMMA Least ==
  ASSUME NEW S \in SUBSET Nat, S # {}
  PROVE  \E n \in S : \A m \in S : n <= m
<1>1. \E n \in S : \A m \in S : ~ (<<m, n>> \in OpToRel(<, Nat))
  BY NatLessThanWellFounded, WFMin
<1>2. \E n \in S : \A m \in S : ~ (m < n)
  BY <1>1 DEF OpToRel
<1> QED  BY <1>2

LEMMA SetInduction ==
  ASSUME NEW T, 0 \in T, \A n \in Nat : n \in T => n + 1 \in T
  PROVE  \A n \in Nat : n \in T
<1> SUFFICES ASSUME Nat \ T # {} PROVE FALSE
  OBVIOUS
<1>1. PICK x \in Nat \ T : \A y \in Nat \ T : x <= y
  <2>1. Nat \ T \in SUBSET Nat
    OBVIOUS
  <2> QED  BY <2>1, Least
<1>2. x # 0 /\ x - 1 \in Nat
  BY <1>1
<1>3. x - 1 \in T
  BY <1>1, <1>2
<1> QED  BY <1>1, <1>2, <1>3

-----------------------------------------------------------------------------
(* What FlattenSeq computes. *)

\* \o by a name: a prover that need not know what it is does better without.
Cat(s, t) == s \o t

LEMMA CatFacts ==
  ASSUME NEW D, NEW a \in Seq(D), NEW b \in Seq(D)
  PROVE  /\ Cat(a, b) \in Seq(D) /\ Len(Cat(a, b)) = Len(a) + Len(b)
         /\ Cat(a, <<>>) = a /\ Cat(<<>>, a) = a
BY ConcatProperties, ConcatEmptySeq DEF Cat

LEMMA CatNth ==
  ASSUME NEW D, NEW s \in Seq(D), NEW t \in Seq(D)
  PROVE  /\ Len(s) \in Nat /\ Len(t) \in Nat
         /\ \A k \in 1..Len(s) : Cat(s, t)[k] = s[k]
         /\ \A k \in 1..Len(t) : Cat(s, t)[Len(s) + k] = t[k]
<1>1. /\ Len(s) \in Nat /\ Len(t) \in Nat
      /\ \A k \in 1..(Len(s) + Len(t)) :
           Cat(s, t)[k] = IF k <= Len(s) THEN s[k] ELSE t[k - Len(s)]
  BY ConcatProperties, LenProperties DEF Cat
<1>2. ASSUME NEW k \in 1..Len(s)
      PROVE  Cat(s, t)[k] = s[k]
  <2>1. k \in 1..(Len(s) + Len(t)) /\ k <= Len(s)
    BY <1>1
  <2> QED  BY <1>1, <2>1
<1>3. ASSUME NEW k \in 1..Len(t)
      PROVE  Cat(s, t)[Len(s) + k] = t[k]
  <2>1. /\ Len(s) + k \in 1..(Len(s) + Len(t)) /\ ~(Len(s) + k <= Len(s))
        /\ (Len(s) + k) - Len(s) = k
    BY <1>1
  <2> QED  BY <1>1, <2>1
<1> QED  BY <1>1, <1>2, <1>3

\* What has the elements of both, in order, is their concatenation.
LEMMA CatIs ==
  ASSUME NEW D, NEW s \in Seq(D), NEW t \in Seq(D), NEW u \in Seq(D),
         Len(u) = Len(s) + Len(t),
         \A k \in 1..Len(s) : u[k] = s[k],
         \A k \in 1..Len(t) : u[Len(s) + k] = t[k]
  PROVE  Cat(s, t) = u
<1>1. /\ Len(s) \in Nat /\ Len(t) \in Nat
      /\ Cat(s, t) \in Seq(D) /\ Len(Cat(s, t)) = Len(u)
  BY CatNth, CatFacts
<1>2. ASSUME NEW k \in 1..Len(u)
      PROVE  Cat(s, t)[k] = u[k]
  <2>1. CASE k <= Len(s)
    <3>1. k \in 1..Len(s)
      BY <1>1, <2>1
    <3> QED  BY <3>1, CatNth
  <2>2. CASE ~(k <= Len(s))
    <3>1. k - Len(s) \in 1..Len(t) /\ Len(s) + (k - Len(s)) = k
      BY <1>1, <2>2
    <3>2. Cat(s, t)[Len(s) + (k - Len(s))] = t[k - Len(s)]
      BY <3>1, CatNth
    <3>3. u[Len(s) + (k - Len(s))] = t[k - Len(s)]
      BY <3>1
    <3> QED  BY <3>1, <3>2, <3>3
  <2> QED  BY <2>1, <2>2
<1> QED  BY <1>1, <1>2, SeqEqual

\* What has the elements of s and then x is s with x appended.
LEMMA AppendIs ==
  ASSUME NEW D, NEW s \in Seq(D), NEW x \in D, NEW u \in Seq(D),
         Len(u) = Len(s) + 1, u[Len(s) + 1] = x,
         \A k \in 1..Len(s) : u[k] = s[k]
  PROVE  Append(s, x) = u
<1> DEFINE t == Append(s, x)
<1>1. /\ Len(s) \in Nat /\ t \in Seq(D) /\ Len(t) = Len(s) + 1 /\ t[Len(s) + 1] = x
      /\ \A k \in 1..Len(s) : t[k] = s[k]
  BY LenProperties, AppendProperties
<1> HIDE DEF t
<1>2. ASSUME NEW k \in 1..Len(u)
      PROVE  t[k] = u[k]
  <2>1. k \in 1..Len(s) \/ k = Len(s) + 1
    BY <1>1
  <2> QED  BY <1>1, <2>1
<1>3. t = u
  BY <1>1, <1>2, SeqEqual
<1> QED  BY <1>3 DEF t

LEMMA CatAssociative ==
  ASSUME NEW D, NEW a \in Seq(D), NEW b \in Seq(D), NEW c \in Seq(D)
  PROVE  Cat(Cat(a, b), c) = Cat(a, Cat(b, c))
BY ConcatAssociative DEF Cat

\* f gives the concatenation of the first i of ss, for every i up to n.
Flattens(f, ss, n) ==
  f = [i \in 1..n |-> IF i = 1 THEN ss[i] ELSE Cat(f[i - 1], ss[i])]

LEMMA FlattensNth ==
  ASSUME NEW f, NEW ss, NEW n \in Nat, Flattens(f, ss, n), NEW i \in 1..n
  PROVE  f[i] = IF i = 1 THEN ss[i] ELSE Cat(f[i - 1], ss[i])
<1>1. f = [j \in 1..n |-> IF j = 1 THEN ss[j] ELSE Cat(f[j - 1], ss[j])]
  BY DEF Flattens
<1> QED  BY <1>1

LEMMA FlattensExists ==
  ASSUME NEW ss
  PROVE  \A n \in Nat : \E f : Flattens(f, ss, n)
<1> DEFINE T == {n \in Nat : \E f : Flattens(f, ss, n)}
<1>1. 0 \in T
  <2> DEFINE f == [i \in 1..0 |-> ss[i]]
  <2>1. Flattens(f, ss, 0)
    BY DEF Flattens
  <2> QED  BY <2>1
<1>2. ASSUME NEW n \in Nat, n \in T
      PROVE  n + 1 \in T
  <2>1. PICK f : Flattens(f, ss, n)
    BY <1>2
  <2> DEFINE last == IF n = 0 THEN ss[n + 1] ELSE Cat(f[n], ss[n + 1])
             g == [i \in 1..(n + 1) |-> IF i = n + 1 THEN last ELSE f[i]]
             h == [i \in 1..(n + 1) |-> IF i = 1 THEN ss[i] ELSE Cat(g[i - 1], ss[i])]
  <2>2. ASSUME NEW i \in 1..(n + 1)
        PROVE  g[i] = h[i]
    <3>1. CASE i = n + 1
      BY <3>1
    <3>2. CASE i # n + 1
      <4>1. i \in 1..n
        BY <3>2
      <4>2. f[i] = IF i = 1 THEN ss[i] ELSE Cat(f[i - 1], ss[i])
        BY <2>1, <4>1, FlattensNth
      <4> QED  BY <4>1, <4>2
    <3> QED  BY <3>1, <3>2
  <2>3. g = h
    BY <2>2
  <2>4. Flattens(g, ss, n + 1)
    BY <2>3 DEF Flattens
  <2> QED  BY <2>4
<1> HIDE DEF T
<1>3. \A n \in Nat : n \in T
  BY <1>1, <1>2, SetInduction
<1> QED  BY <1>3 DEF T

\* What FlattenSeq gives is what any function that flattens gives.
LEMMA FlattenIs ==
  ASSUME NEW ss, Len(ss) \in Nat \ {0}
  PROVE  \E f : Flattens(f, ss, Len(ss)) /\ FlattenSeq(ss) = f[Len(ss)]
<1> DEFINE g == CHOOSE f : Flattens(f, ss, Len(ss))
<1>1. Flattens(g, ss, Len(ss))
  BY FlattensExists
<1>2. FlattenSeq(ss) = g[Len(ss)]
  BY DEF FlattenSeq, Flattens, Cat
<1> QED  BY <1>1, <1>2

\* The first n of ss are those of tt.
Same(ss, tt, n) == \A i \in 1..n : ss[i] = tt[i]

\* What follows in a sequence does not matter to what comes before.
LEMMA FlattensPrefix ==
  ASSUME NEW ss, NEW tt, NEW n \in Nat, NEW f, NEW g,
         Flattens(f, ss, n), Flattens(g, tt, n + 1), Same(ss, tt, n)
  PROVE  \A i \in 1..n : f[i] = g[i]
<1> DEFINE T == {i \in Nat : i \in 1..n => f[i] = g[i]}
<1>1. 0 \in T
  OBVIOUS
<1>2. ASSUME NEW i \in Nat, i \in T, i + 1 \in 1..n
      PROVE  f[i + 1] = g[i + 1]
  <2>1. f[i + 1] = IF i + 1 = 1 THEN ss[i + 1] ELSE Cat(f[(i + 1) - 1], ss[i + 1])
    BY <1>2, FlattensNth
  <2>2. i + 1 \in 1..(n + 1) /\ n + 1 \in Nat
    BY <1>2
  <2>3. g[i + 1] = IF i + 1 = 1 THEN tt[i + 1] ELSE Cat(g[(i + 1) - 1], tt[i + 1])
    BY <2>2, FlattensNth
  <2>4. ss[i + 1] = tt[i + 1] /\ (i + 1) - 1 = i
    BY <1>2 DEF Same
  <2>5. i # 0 => f[i] = g[i]
    BY <1>2
  <2> QED  BY <2>1, <2>3, <2>4, <2>5
<1>3. \A i \in Nat : i \in T => i + 1 \in T
  BY <1>2
<1> HIDE DEF T
<1>4. \A i \in Nat : i \in T
  BY <1>1, <1>3, SetInduction
<1> QED  BY <1>4 DEF T

\* g flattens one sequence more than f does.
Extends(g, tt, f, ss, n) ==
  /\ n \in Nat \ {0} /\ Same(ss, tt, n)
  /\ Flattens(f, ss, n) /\ Flattens(g, tt, n + 1)

LEMMA FlattensLast ==
  ASSUME NEW ss, NEW tt, NEW n, NEW f, NEW g, Extends(g, tt, f, ss, n)
  PROVE  g[n + 1] = Cat(f[n], tt[n + 1])
<1>1. n + 1 \in 1..(n + 1) /\ n + 1 # 1 /\ (n + 1) - 1 = n /\ n \in 1..n /\ n + 1 \in Nat
  BY DEF Extends
<1>2. g[n + 1] = IF n + 1 = 1 THEN tt[n + 1] ELSE Cat(g[(n + 1) - 1], tt[n + 1])
  BY <1>1, FlattensNth DEF Extends
<1>3. \A i \in 1..n : f[i] = g[i]
  BY FlattensPrefix DEF Extends
<1> QED  BY <1>1, <1>2, <1>3

LEMMA FlattensTyped ==
  ASSUME NEW D, NEW ss, NEW n \in Nat, \A i \in 1..n : ss[i] \in Seq(D), NEW f,
         Flattens(f, ss, n)
  PROVE  \A i \in 1..n : f[i] \in Seq(D)
<1> DEFINE T == {i \in Nat : i \in 1..n => f[i] \in Seq(D)}
<1>1. 0 \in T
  OBVIOUS
<1>2. ASSUME NEW i \in Nat, i \in T, i + 1 \in 1..n
      PROVE  f[i + 1] \in Seq(D)
  <2>1. f[i + 1] = IF i + 1 = 1 THEN ss[i + 1] ELSE Cat(f[(i + 1) - 1], ss[i + 1])
    BY <1>2, FlattensNth
  <2>2. (i + 1) - 1 = i /\ (i # 0 => f[i] \in Seq(D)) /\ ss[i + 1] \in Seq(D)
    BY <1>2
  <2>3. i # 0 => Cat(f[i], ss[i + 1]) \in Seq(D)
    BY <2>2, CatFacts
  <2> QED  BY <2>1, <2>2, <2>3
<1>3. \A i \in Nat : i \in T => i + 1 \in T
  BY <1>2
<1> HIDE DEF T
<1>4. \A i \in Nat : i \in T
  BY <1>1, <1>3, SetInduction
<1> QED  BY <1>4 DEF T

LEMMA FlattenTyped ==
  ASSUME NEW D, NEW ss \in Seq(Seq(D))
  PROVE  FlattenSeq(ss) \in Seq(D)
<1>1. Len(ss) \in Nat /\ \A i \in 1..Len(ss) : ss[i] \in Seq(D)
  BY LenProperties, ElementOfSeq
<1>2. CASE Len(ss) = 0
  <2>1. ss = <<>> /\ FlattenSeq(ss) = ss
    BY <1>2, EmptySeq DEF FlattenSeq
  <2> QED  BY <2>1, EmptySeq
<1>3. CASE Len(ss) # 0
  <2>1. PICK f : Flattens(f, ss, Len(ss)) /\ FlattenSeq(ss) = f[Len(ss)]
    BY <1>1, <1>3, FlattenIs
  <2>2. \A i \in 1..Len(ss) : f[i] \in Seq(D)
    BY <1>1, <2>1, FlattensTyped
  <2>3. Len(ss) \in 1..Len(ss)
    BY <1>1, <1>3
  <2> QED  BY <2>1, <2>2, <2>3
<1> QED  BY <1>2, <1>3

LEMMA FlattenAppend ==
  ASSUME NEW D, NEW ss \in Seq(Seq(D)), NEW s \in Seq(D)
  PROVE  FlattenSeq(Append(ss, s)) = Cat(FlattenSeq(ss), s)
<1> DEFINE tt == Append(ss, s)
           n == Len(ss)
<1>1. n \in Nat /\ n + 1 \in Nat \ {0} /\ Len(tt) = n + 1 /\ tt[n + 1] = s
  BY LenProperties, AppendProperties
<1>2. Same(ss, tt, n)
  BY LenProperties, AppendProperties DEF Same
<1> HIDE DEF tt, n
<1>3. PICK f : Flattens(f, tt, n + 1) /\ FlattenSeq(tt) = f[n + 1]
  BY <1>1, FlattenIs
<1>4. CASE n = 0
  <2>1. FlattenSeq(ss) = <<>>
    BY <1>4, EmptySeq DEF FlattenSeq, n
  <2>2. Cat(<<>>, s) = s
    BY CatFacts
  <2>3. 1 \in 1..1 /\ 1 \in Nat /\ n + 1 = 1
    BY <1>4
  <2>4. f[1] = tt[1]
    BY <1>3, <2>3, FlattensNth
  <2>5. FlattenSeq(tt) = s
    BY <1>1, <1>3, <2>3, <2>4
  <2> QED  BY <2>1, <2>2, <2>5 DEF tt
<1>5. CASE n # 0
  <2>1. n \in Nat \ {0}
    BY <1>1, <1>5
  <2>2. PICK g : Flattens(g, ss, n) /\ FlattenSeq(ss) = g[n]
    BY <2>1, FlattenIs DEF n
  <2>3. Extends(f, tt, g, ss, n)
    BY <1>2, <1>3, <2>1, <2>2 DEF Extends
  <2>4. f[n + 1] = Cat(g[n], tt[n + 1])
    BY <2>3, FlattensLast
  <2> QED  BY <1>1, <1>3, <2>2, <2>4 DEF tt
<1> QED  BY <1>4, <1>5

LEMMA FlattenTail ==
  ASSUME NEW D, NEW ss \in Seq(Seq(D)), ss # <<>>
  PROVE  FlattenSeq(ss) = Cat(Head(ss), FlattenSeq(Tail(ss)))
<1> DEFINE tt == Tail(ss)
           n == Len(tt)
<1>1. /\ tt \in Seq(Seq(D)) /\ n \in Nat /\ Len(ss) = n + 1 /\ n + 1 \in Nat \ {0}
      /\ \A i \in 1..n : tt[i] = ss[i + 1] /\ tt[i] \in Seq(D)
      /\ Head(ss) = ss[1] /\ ss[1] \in Seq(D)
  BY LenProperties, HeadTailProperties, ElementOfSeq
<1> HIDE DEF tt, n
<1>2. PICK f : Flattens(f, ss, n + 1) /\ FlattenSeq(ss) = f[n + 1]
  BY <1>1, FlattenIs
<1>3. f[1] = ss[1]
  <2>1. 1 \in 1..(n + 1) /\ n + 1 \in Nat
    BY <1>1
  <2> QED  BY <1>2, <2>1, FlattensNth
<1>4. CASE n = 0
  <2>1. tt = <<>> /\ FlattenSeq(tt) = <<>>
    BY <1>1, <1>4, EmptySeq DEF FlattenSeq, n
  <2>2. Cat(ss[1], <<>>) = ss[1]
    BY <1>1, CatFacts
  <2>3. FlattenSeq(ss) = ss[1]
    BY <1>2, <1>3, <1>4
  <2> QED  BY <1>1, <2>1, <2>2, <2>3 DEF tt
<1>5. CASE n # 0
  <2>1. PICK g : Flattens(g, tt, n) /\ FlattenSeq(tt) = g[n]
    BY <1>1, <1>5, FlattenIs DEF n
  <2>2. ASSUME NEW i \in 1..n
        PROVE  f[i + 1] = Cat(f[i], tt[i])
    <3>1. i + 1 \in 1..(n + 1) /\ i + 1 # 1 /\ (i + 1) - 1 = i /\ ss[i + 1] = tt[i]
      BY <1>1
    <3>2. n + 1 \in Nat /\ Flattens(f, ss, n + 1)
      BY <1>1, <1>2
    <3>3. f[i + 1] = IF i + 1 = 1 THEN ss[i + 1] ELSE Cat(f[(i + 1) - 1], ss[i + 1])
      BY <3>1, <3>2, FlattensNth
    <3> QED  BY <3>1, <3>3
  <2>3. ASSUME NEW i \in 1..n
        PROVE  g[i] = IF i = 1 THEN tt[i] ELSE Cat(g[i - 1], tt[i])
    <3>1. n \in Nat /\ Flattens(g, tt, n) /\ i \in 1..n
      BY <1>1, <2>1
    <3> QED  BY <3>1, FlattensNth
  <2>4. \A i \in 1..n : g[i] \in Seq(D)
    BY <1>1, <2>1, FlattensTyped
  <2> DEFINE T == {i \in Nat : i \in 1..n => f[i + 1] = Cat(ss[1], g[i])}
  <2>5. 0 \in T
    OBVIOUS
  <2> HIDE DEF T
  <2>6. ASSUME NEW i \in Nat, i \in T, i + 1 \in 1..n
        PROVE  f[(i + 1) + 1] = Cat(ss[1], g[i + 1])
    <3>1. f[(i + 1) + 1] = Cat(f[i + 1], tt[i + 1])
      BY <2>2, <2>6
    <3>2. CASE i = 0
      <4>1. i + 1 = 1 /\ g[i + 1] = tt[i + 1]
        BY <2>3, <2>6, <3>2
      <4> QED  BY <1>3, <3>1, <4>1
    <3>3. CASE i # 0
      <4>1. i \in 1..n /\ i + 1 # 1 /\ (i + 1) - 1 = i
        BY <1>1, <2>6, <3>3
      <4>2. g[i + 1] = Cat(g[i], tt[i + 1])
        BY <2>3, <2>6, <4>1
      <4>3. f[i + 1] = Cat(ss[1], g[i])
        BY <2>6, <4>1 DEF T
      <4>4. Cat(Cat(ss[1], g[i]), tt[i + 1]) = Cat(ss[1], Cat(g[i], tt[i + 1]))
        <5>1. ss[1] \in Seq(D) /\ g[i] \in Seq(D) /\ tt[i + 1] \in Seq(D)
          BY <1>1, <2>4, <2>6, <4>1
        <5> QED  BY <5>1, CatAssociative
      <4> QED  BY <3>1, <4>2, <4>3, <4>4
    <3> QED  BY <3>2, <3>3
  <2>7. ASSUME NEW i \in Nat, i \in T
        PROVE  i + 1 \in T
    <3>1. i + 1 \in Nat
      OBVIOUS
    <3>2. i + 1 \in 1..n => f[(i + 1) + 1] = Cat(ss[1], g[i + 1])
      BY <2>6, <2>7
    <3> QED  BY <3>1, <3>2 DEF T
  <2>8. \A i \in Nat : i \in T
    BY <2>5, <2>7, SetInduction
  <2>9. f[n + 1] = Cat(ss[1], g[n])
    <3>1. n \in T /\ n \in 1..n
      BY <1>1, <1>5, <2>8
    <3> QED  BY <3>1 DEF T
  <2> QED  BY <1>1, <1>2, <2>1, <2>9 DEF tt
<1> QED  BY <1>4, <1>5

-----------------------------------------------------------------------------
(* What a list of records holds, one after another. *)

AllData(c) == FlattenSeq([k \in DOMAIN c |-> c[k].data])

\* C is a set of records that hold sequences over D.
Holds(C, D) == \A x \in C : x.data \in Seq(D)

LEMMA DataEmpty == AllData(<<>>) = <<>>
<1>1. [k \in DOMAIN <<>> |-> <<>>[k].data] = <<>>
  OBVIOUS
<1>2. Len(<<>>) = 0
  BY EmptySeq
<1> QED  BY <1>1, <1>2 DEF AllData, FlattenSeq

LEMMA DataTyped ==
  ASSUME NEW D, NEW C, Holds(C, D), NEW c \in Seq(C)
  PROVE  /\ [k \in DOMAIN c |-> c[k].data] \in Seq(Seq(D))
         /\ Len([k \in DOMAIN c |-> c[k].data]) = Len(c)
         /\ AllData(c) \in Seq(D)
<1>1. DOMAIN c = 1..Len(c) /\ Len(c) \in Nat /\ \A k \in 1..Len(c) : c[k].data \in Seq(D)
  <2>1. \A k \in 1..Len(c) : c[k] \in C
    BY ElementOfSeq
  <2> QED  BY <2>1, LenProperties DEF Holds
<1>2. [k \in DOMAIN c |-> c[k].data] \in Seq(Seq(D))
  BY <1>1
<1>3. Len([k \in DOMAIN c |-> c[k].data]) = Len(c)
  BY <1>1
<1> QED  BY <1>2, <1>3, FlattenTyped DEF AllData

LEMMA DataAppend ==
  ASSUME NEW D, NEW C, Holds(C, D), NEW c \in Seq(C), NEW x \in C
  PROVE  AllData(Append(c, x)) = Cat(AllData(c), x.data)
<1> DEFINE d == [k \in DOMAIN c |-> c[k].data]
           e == [k \in DOMAIN Append(c, x) |-> Append(c, x)[k].data]
<1>1. Append(c, x) \in Seq(C)
  BY AppendProperties
<1>2. /\ d \in Seq(Seq(D)) /\ Len(d) = Len(c)
      /\ e \in Seq(Seq(D)) /\ Len(e) = Len(Append(c, x))
      /\ x.data \in Seq(D)
  BY <1>1, DataTyped DEF Holds
<1>3. /\ Len(c) \in Nat /\ Len(Append(c, x)) = Len(c) + 1
      /\ \A i \in 1..Len(c) : Append(c, x)[i] = c[i]
      /\ Append(c, x)[Len(c) + 1] = x
      /\ DOMAIN c = 1..Len(c) /\ DOMAIN Append(c, x) = 1..(Len(c) + 1)
  BY <1>1, LenProperties, AppendProperties
<1>4. /\ \A i \in 1..Len(c) : e[i] = d[i]
      /\ e[Len(c) + 1] = x.data
  BY <1>3
<1>5. e = Append(d, x.data)
  <2>1. /\ Append(d, x.data) \in Seq(Seq(D)) /\ Len(Append(d, x.data)) = Len(c) + 1
        /\ \A i \in 1..Len(c) : Append(d, x.data)[i] = d[i]
        /\ Append(d, x.data)[Len(c) + 1] = x.data
    BY <1>2, AppendProperties
  <2> HIDE DEF d, e
  <2>2. \A i \in 1..Len(e) : e[i] = Append(d, x.data)[i]
    BY <1>2, <1>3, <1>4, <2>1
  <2>3. Len(e) = Len(Append(d, x.data))
    BY <1>2, <1>3, <2>1
  <2> QED  BY <1>2, <2>1, <2>2, <2>3, SeqEqual
<1>6. FlattenSeq(Append(d, x.data)) = Cat(FlattenSeq(d), x.data)
  <2> HIDE DEF d
  <2> QED  BY <1>2, FlattenAppend
<1> QED  BY <1>5, <1>6 DEF AllData

LEMMA DataTail ==
  ASSUME NEW D, NEW C, Holds(C, D), NEW c \in Seq(C), c # <<>>
  PROVE  AllData(c) = Cat(Head(c).data, AllData(Tail(c)))
<1> DEFINE d == [k \in DOMAIN c |-> c[k].data]
           e == [k \in DOMAIN Tail(c) |-> Tail(c)[k].data]
<1>1. Tail(c) \in Seq(C)
  BY HeadTailProperties
<1>2. /\ d \in Seq(Seq(D)) /\ Len(d) = Len(c)
      /\ e \in Seq(Seq(D)) /\ Len(e) = Len(Tail(c))
  BY <1>1, DataTyped
<1>3. /\ Len(c) \in Nat /\ Len(c) # 0 /\ Len(Tail(c)) = Len(c) - 1
      /\ \A i \in 1..Len(Tail(c)) : Tail(c)[i] = c[i + 1]
      /\ Head(c) = c[1] /\ DOMAIN c = 1..Len(c) /\ DOMAIN Tail(c) = 1..Len(Tail(c))
  BY <1>1, LenProperties, HeadTailProperties, EmptySeq
<1>4. /\ \A i \in 1..Len(Tail(c)) : e[i] = d[i + 1]
      /\ d[1] = Head(c).data
  BY <1>3
<1>5. d # <<>>
  BY <1>2, <1>3, EmptySeq
<1> HIDE DEF d, e
<1>6. /\ Tail(d) \in Seq(Seq(D)) /\ Len(Tail(d)) = Len(d) - 1
      /\ \A i \in 1..Len(Tail(d)) : Tail(d)[i] = d[i + 1]
      /\ Head(d) = d[1]
  BY <1>2, <1>5, HeadTailProperties
<1>7. e = Tail(d)
  <2>1. Len(e) = Len(Tail(d))
    BY <1>2, <1>3, <1>6
  <2>2. \A i \in 1..Len(e) : e[i] = Tail(d)[i]
    BY <1>2, <1>4, <1>6, <2>1
  <2> QED  BY <1>2, <1>6, <2>1, <2>2, SeqEqual
<1>8. FlattenSeq(d) = Cat(Head(d), FlattenSeq(Tail(d)))
  BY <1>2, <1>5, FlattenTail
<1> QED  BY <1>4, <1>6, <1>7, <1>8 DEF AllData, d, e

LEMMA DataSingle ==
  ASSUME NEW D, NEW C, Holds(C, D), NEW x \in C
  PROVE  AllData(<<x>>) = x.data
<1>1. <<x>> \in Seq(C) /\ <<x>> # <<>> /\ Head(<<x>>) = x /\ Tail(<<x>>) = <<>>
  OBVIOUS
<1>2. x.data \in Seq(D)
  BY DEF Holds
<1>3. AllData(<<x>>) = Cat(x.data, <<>>)
  BY <1>1, DataTail, DataEmpty
<1> QED  BY <1>2, <1>3, CatFacts

\* The data of a list is that of its first k elements and that of the others.
LEMMA DataSplits ==
  ASSUME NEW D, NEW C, Holds(C, D), NEW c \in Seq(C)
  PROVE  \A k \in Nat : k <= Len(c) =>
           Cat(AllData(SubSeq(c, 1, k)), AllData(SubSeq(c, k + 1, Len(c)))) = AllData(c)
<1> DEFINE Before(k) == SubSeq(c, 1, k)
           After(k) == SubSeq(c, k + 1, Len(c))
           T == {k \in Nat : k <= Len(c) => Cat(AllData(Before(k)), AllData(After(k))) = AllData(c)}
<1>1. Len(c) \in Nat /\ \A i \in 1..Len(c) : c[i] \in C
  BY LenProperties, ElementOfSeq
<1>2. ASSUME NEW k \in Nat, k <= Len(c)
      PROVE  Before(k) \in Seq(C) /\ After(k) \in Seq(C)
  <2>1. /\ 1 \in Int /\ k \in Int /\ k + 1 \in Int /\ Len(c) \in Int
        /\ (\A i \in 1..k : c[i] \in C) /\ \A i \in (k + 1)..Len(c) : c[i] \in C
    BY <1>1, <1>2
  <2> QED  BY <2>1, SubSeqProperties
<1>3. 0 \in T
  <2>1. Before(0) = <<>> /\ After(0) = c
    BY SubSeqEmpty, SubSeqFull
  <2>2. AllData(c) \in Seq(D)
    BY DataTyped
  <2> QED  BY <2>1, <2>2, DataEmpty, CatFacts
<1>4. ASSUME NEW k \in Nat, k + 1 <= Len(c), Cat(AllData(Before(k)), AllData(After(k))) = AllData(c)
      PROVE  Cat(AllData(Before(k + 1)), AllData(After(k + 1))) = AllData(c)
  <2>1. k + 1 \in 1..Len(c) /\ c[k + 1] \in C /\ k <= Len(c) /\ Len(c) \in (k + 1)..Len(c)
    BY <1>1, <1>4
  <2>2. Before(k) \in Seq(C) /\ After(k) \in Seq(C) /\ After(k + 1) \in Seq(C)
    BY <1>2, <1>4, <2>1
  <2>3. Before(k + 1) = Append(Before(k), c[k + 1])
    <3>1. 1 \in 1..Len(c) /\ k + 1 \in 1..Len(c) /\ (k + 1) - 1 = k
      BY <1>1, <2>1
    <3>2. Before(k + 1) = Before(k) \o <<c[k + 1]>>
      BY <3>1, SubSeqRecursiveSecond
    <3> QED  BY <2>1, <2>2, <3>2, AppendIsConcat
  <2>4. Head(After(k)) = c[k + 1] /\ Tail(After(k)) = After(k + 1)
    BY <2>1, HeadTailOfSubSeq
  <2>5. After(k) # <<>>
    <3>1. Len(After(k)) = (Len(c) - (k + 1)) + 1
      <4>1. /\ k + 1 \in Int /\ Len(c) \in Int /\ k + 1 <= Len(c)
            /\ \A i \in (k + 1)..Len(c) : c[i] \in C
        BY <1>1, <1>4
      <4> QED  BY <4>1, SubSeqProperties
    <3> HIDE DEF After
    <3>2. Len(After(k)) # 0
      BY <1>1, <1>4, <3>1
    <3> QED  BY <2>2, <3>2, EmptySeq
  <2> HIDE DEF Before, After
  <2>6. AllData(Before(k + 1)) = Cat(AllData(Before(k)), c[k + 1].data)
    <3>1. Before(k) \in Seq(C) /\ c[k + 1] \in C
      BY <2>1, <2>2
    <3>2. AllData(Append(Before(k), c[k + 1])) = Cat(AllData(Before(k)), c[k + 1].data)
      BY <3>1, DataAppend, Zenon
    <3> QED  BY <2>3, <3>2
  <2>7. AllData(After(k)) = Cat(c[k + 1].data, AllData(After(k + 1)))
    BY <2>2, <2>4, <2>5, DataTail
  <2>8. /\ AllData(Before(k)) \in Seq(D) /\ AllData(After(k + 1)) \in Seq(D)
        /\ c[k + 1].data \in Seq(D)
    BY <2>1, <2>2, DataTyped DEF Holds
  <2> QED  BY <1>4, <2>6, <2>7, <2>8, CatAssociative
<1> HIDE DEF Before, After
<1>5. \A k \in Nat : k \in T => k + 1 \in T
  BY <1>1, <1>4
<1> HIDE DEF T
<1>6. \A k \in Nat : k \in T
  BY <1>3, <1>5, SetInduction
<1> QED  BY <1>6 DEF T, Before, After

\* The data of two lists, one after the other.
LEMMA DataJoins ==
  ASSUME NEW D, NEW C, Holds(C, D), NEW c \in Seq(C), NEW d \in Seq(C)
  PROVE  Cat(c, d) \in Seq(C) /\ AllData(Cat(c, d)) = Cat(AllData(c), AllData(d))
<1> DEFINE e == Cat(c, d)
           l == Len(c)
           m == Len(d)
<1>1. /\ l \in Nat /\ m \in Nat /\ e \in Seq(C) /\ Len(e) = l + m
      /\ \A k \in 1..l : e[k] = c[k]
      /\ \A k \in 1..m : e[l + k] = d[k]
  <2>1. Cat(c, d) \in Seq(C) /\ Len(Cat(c, d)) = Len(c) + Len(d)
    BY CatFacts
  <2>2. /\ Len(c) \in Nat /\ Len(d) \in Nat
        /\ \A k \in 1..Len(c) : Cat(c, d)[k] = c[k]
        /\ \A k \in 1..Len(d) : Cat(c, d)[Len(c) + k] = d[k]
    BY CatNth
  <2> QED  BY <2>1, <2>2
<1> HIDE DEF e, l, m
<1>2. \A i \in 1..(l + m) : e[i] \in C
  BY <1>1, ElementOfSeq
<1>3. SubSeq(e, 1, l) = c
  <2>1. /\ SubSeq(e, 1, l) \in Seq(C)
        /\ Len(SubSeq(e, 1, l)) = IF 1 <= l THEN l - 1 + 1 ELSE 0
        /\ \A i \in 1..(l - 1 + 1) : SubSeq(e, 1, l)[i] = e[1 + i - 1]
    <3>1. 1 \in Int /\ l \in Int /\ \A i \in 1..l : e[i] \in C
      BY <1>1, <1>2
    <3> QED  BY <3>1, SubSeqProperties
  <2>2. Len(SubSeq(e, 1, l)) = l /\ \A i \in 1..l : SubSeq(e, 1, l)[i] = c[i]
    BY <1>1, <2>1
  <2> QED  BY <2>1, <2>2, SeqEqual DEF l
<1>4. SubSeq(e, l + 1, Len(e)) = d
  <2> DEFINE s == SubSeq(e, l + 1, l + m)
  <2>1. /\ s \in Seq(C)
        /\ Len(s) = IF l + 1 <= l + m THEN (l + m) - (l + 1) + 1 ELSE 0
        /\ \A i \in 1..((l + m) - (l + 1) + 1) : s[i] = e[(l + 1) + i - 1]
    <3>1. l + 1 \in Int /\ l + m \in Int /\ \A i \in (l + 1)..(l + m) : e[i] \in C
      BY <1>1, <1>2
    <3> QED  BY <3>1, SubSeqProperties
  <2> HIDE DEF s
  <2>2. Len(s) = m
    BY <1>1, <2>1
  <2>3. ASSUME NEW i \in 1..m
        PROVE  s[i] = d[i]
    <3>1. i \in 1..((l + m) - (l + 1) + 1) /\ (l + 1) + i - 1 = l + i
      BY <1>1
    <3> QED  BY <1>1, <2>1, <3>1
  <2>4. s = d
    BY <2>1, <2>2, <2>3, SeqEqual DEF m
  <2> QED  BY <1>1, <2>4 DEF s
<1>5. Cat(AllData(SubSeq(e, 1, l)), AllData(SubSeq(e, l + 1, Len(e)))) = AllData(e)
  <2>1. l <= Len(e)
    BY <1>1
  <2> QED  BY <1>1, <2>1, DataSplits
<1> QED  BY <1>1, <1>3, <1>4, <1>5 DEF e

-----------------------------------------------------------------------------
(* Runs of numbers. *)

Run(i, n) == [k \in 1..n |-> i + k]

LEMMA RunFacts ==
  ASSUME NEW i \in Nat, NEW n \in Nat
  PROVE  /\ Run(i, n) \in Seq(Nat) /\ Len(Run(i, n)) = n
         /\ \A k \in 1..n : Run(i, n)[k] = i + k
BY DEF Run

LEMMA RunFromZero ==
  ASSUME NEW n \in Nat
  PROVE  /\ Run(0, n) \in Seq(Nat) /\ Len(Run(0, n)) = n
         /\ \A k \in 1..n : Run(0, n)[k] = k
BY DEF Run

\* Two runs, one where the other ends.
LEMMA RunsJoin ==
  ASSUME NEW i \in Nat, NEW a \in Nat, NEW b \in Nat
  PROVE  Cat(Run(i, a), Run(i + a, b)) = Run(i, a + b)
<1> DEFINE s == Run(i, a)
           t == Run(i + a, b)
           u == Run(i, a + b)
<1>1. s \in Seq(Nat) /\ Len(s) = a /\ \A k \in 1..a : s[k] = i + k
  BY RunFacts
<1>2. t \in Seq(Nat) /\ Len(t) = b /\ \A k \in 1..b : t[k] = (i + a) + k
  <2>1. i + a \in Nat
    OBVIOUS
  <2> QED  BY <2>1, RunFacts
<1>3. u \in Seq(Nat) /\ Len(u) = a + b /\ \A k \in 1..(a + b) : u[k] = i + k
  <2>1. a + b \in Nat
    OBVIOUS
  <2> QED  BY <2>1, RunFacts
<1> HIDE DEF s, t, u
<1>4. Len(u) = Len(s) + Len(t) /\ Len(s) = a /\ Len(t) = b
  BY <1>1, <1>2, <1>3
<1>5. \A k \in 1..Len(s) : u[k] = s[k]
  BY <1>1, <1>3, <1>4
<1>6. \A k \in 1..Len(t) : u[Len(s) + k] = t[k]
  BY <1>2, <1>3, <1>4
<1>7. Cat(s, t) = u
  BY <1>1, <1>2, <1>3, <1>4, <1>5, <1>6, CatIs
<1> QED  BY <1>7 DEF s, t, u

LEMMA RunJoins ==
  ASSUME NEW a \in Nat, NEW b \in Nat
  PROVE  Cat(Run(0, a), Run(a, b)) = Run(0, a + b)
<1>1. 0 \in Nat /\ 0 + a = a
  OBVIOUS
<1>2. Cat(Run(0, a), Run(0 + a, b)) = Run(0, a + b)
  BY <1>1, RunsJoin
<1> QED  BY <1>1, <1>2

\* What begins a run is a run.
LEMMA RunBegins ==
  ASSUME NEW s \in Seq(Nat), NEW t \in Seq(Nat), NEW n \in Nat, Cat(s, t) = Run(0, n)
  PROVE  s = Run(0, Len(s))
<1>1. /\ Len(s) \in Nat /\ Len(t) \in Nat
      /\ Len(s \o t) = Len(s) + Len(t)
      /\ \A k \in 1..(Len(s) + Len(t)) :
           (s \o t)[k] = IF k <= Len(s) THEN s[k] ELSE t[k - Len(s)]
  BY ConcatProperties, LenProperties
<1>2. s \o t = Run(0, n)
  BY DEF Cat
<1>3. n = Len(s) + Len(t) /\ \A k \in 1..n : Run(0, n)[k] = k
  <2>1. Len(Run(0, n)) = n /\ \A k \in 1..n : Run(0, n)[k] = k
    BY RunFromZero
  <2> QED  BY <1>1, <1>2, <2>1
<1>4. /\ Run(0, Len(s)) \in Seq(Nat) /\ Len(Run(0, Len(s))) = Len(s)
      /\ \A k \in 1..Len(s) : Run(0, Len(s))[k] = k
  BY <1>1, RunFromZero
<1>5. ASSUME NEW k \in 1..Len(s)
      PROVE  s[k] = k
  <2>1. k \in 1..(Len(s) + Len(t)) /\ k <= Len(s)
    BY <1>1
  <2>2. (s \o t)[k] = s[k]
    BY <1>1, <2>1
  <2>3. Run(0, n)[k] = k
    BY <1>3, <2>1
  <2> HIDE DEF Run
  <2> QED  BY <1>2, <2>2, <2>3, Zenon
<1>6. \A k \in 1..Len(s) : s[k] = Run(0, Len(s))[k]
  BY <1>4, <1>5
<1> QED  BY <1>4, <1>6, SeqEqual

LEMMA Splits ==
  ASSUME NEW b \in Seq(Nat), NEW n \in 1..Len(b)
  PROVE  /\ SubSeq(b, 1, n) \in Seq(Nat) /\ SubSeq(b, n + 1, Len(b)) \in Seq(Nat)
         /\ Cat(SubSeq(b, 1, n), SubSeq(b, n + 1, Len(b))) = b
<1>1. Len(b) \in Nat /\ \A i \in 1..Len(b) : b[i] \in Nat
  BY LenProperties, ElementOfSeq
<1>2. SubSeq(b, 1, n) \in Seq(Nat) /\ SubSeq(b, n + 1, Len(b)) \in Seq(Nat)
  <2>1. /\ 1 \in Int /\ n \in Int /\ n + 1 \in Int /\ Len(b) \in Int
        /\ (\A i \in 1..n : b[i] \in Nat) /\ \A i \in (n + 1)..Len(b) : b[i] \in Nat
    BY <1>1
  <2> QED  BY <2>1, SubSeqProperties
<1>3. 1 \in 1..(Len(b) + 1) /\ n \in (1 - 1)..Len(b) /\ Len(b) \in n..Len(b)
  BY <1>1
<1>4. SubSeq(b, 1, n) \o SubSeq(b, n + 1, Len(b)) = SubSeq(b, 1, Len(b))
  BY <1>3, ConcatAdjacentSubSeq
<1>5. SubSeq(b, 1, Len(b)) = b
  BY SubSeqFull
<1> QED  BY <1>2, <1>4, <1>5 DEF Cat
=============================================================================

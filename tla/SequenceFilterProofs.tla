-------------------------- MODULE SequenceFilterProofs --------------------------
(***************************************************************************)
(* What Without returns, for sequences of any length: the elements that    *)
(* stay, in their order, each as often as before.                          *)
(***************************************************************************)
EXTENDS SequenceFilter, TLAPS, WellFoundedInduction, SequenceTheorems

-------------------------------------------------------------------------------
(* The recursion has one solution, on every prefix of s. *)

FilterStep(s, gone, rest, i) ==
  IF i = 0 THEN <<>>
  ELSE IF s[i] \in gone THEN rest[i - 1] ELSE Append(rest[i - 1], s[i])
Filters(s, gone, rest, n) == rest = [i \in 0 .. n |-> FilterStep(s, gone, rest, i)]

LEMMA LeastIn ==
  ASSUME NEW S, S \subseteq Nat, S # {}
  PROVE  \E i \in S : \A j \in S : i <= j
<1>1. PICK i \in S : \A j \in S : <<j, i>> \notin OpToRel(<, Nat)
  BY WFMin, NatLessThanWellFounded, Zenon
<1>2. \A j \in S : j \in Nat /\ ~(j < i)
  BY <1>1, Zenon DEF OpToRel
<1>3. ASSUME NEW j \in S PROVE i <= j
  <2>1. i \in Nat /\ j \in Nat /\ ~(j < i)
    BY <1>2
  <2> QED
    BY <2>1
<1> QED
  BY <1>1, <1>3

LEMMA SolutionExists ==
  ASSUME NEW s, NEW gone, NEW n \in Nat
  PROVE  \E rest : Filters(s, gone, rest, n)
<1> DEFINE Unsolved == {k \in Nat : ~\E rest : Filters(s, gone, rest, k)}
<1>1. SUFFICES ASSUME Unsolved # {} PROVE FALSE
  OBVIOUS
<1>2. PICK k \in Unsolved : \A j \in Unsolved : k <= j
  <2> HIDE DEF Unsolved
  <2>1. Unsolved \subseteq Nat
    BY DEF Unsolved
  <2> QED
    BY <1>1, <2>1, LeastIn
<1>3. CASE k = 0
  <2> DEFINE rest == [i \in 0 .. 0 |-> <<>>]
  <2>1. Filters(s, gone, rest, 0)
    BY DEF Filters, FilterStep
  <2> QED
    BY <1>2, <1>3, <2>1
<1>4. CASE k # 0
  <2>1. k \in Nat /\ k - 1 \in Nat /\ k - 1 \notin Unsolved
    BY <1>2, <1>4
  <2>2. PICK less : Filters(s, gone, less, k - 1)
    BY <2>1
  <2> DEFINE rest == [i \in 0 .. k |-> IF i = k THEN FilterStep(s, gone, less, k) ELSE less[i]]
  <2>3. \A i \in 0 .. k : rest[i] = FilterStep(s, gone, rest, i)
    <3> SUFFICES ASSUME NEW i \in 0 .. k PROVE rest[i] = FilterStep(s, gone, rest, i)
      OBVIOUS
    <3>1. CASE i = k
      <4>1. rest[k] = FilterStep(s, gone, less, k) /\ rest[k - 1] = less[k - 1]
        BY <1>4, <2>1
      <4> QED
        BY <1>4, <3>1, <4>1 DEF FilterStep
    <3>2. CASE i # k
      <4>1. i \in 0 .. k - 1 /\ rest[i] = less[i]
        BY <2>1, <3>2
      <4>2. less[i] = FilterStep(s, gone, less, i)
        BY <2>2, <4>1 DEF Filters
      <4>3. i # 0 => rest[i - 1] = less[i - 1]
        BY <2>1, <4>1
      <4> QED
        BY <4>1, <4>2, <4>3 DEF FilterStep
    <3> QED
      BY <3>1, <3>2
  <2>4. rest = [i \in 0 .. k |-> FilterStep(s, gone, rest, i)]
    BY <2>3
  <2>5. Filters(s, gone, rest, k)
    BY <2>4 DEF Filters
  <2> QED
    BY <1>2, <2>5
<1> QED
  BY <1>3, <1>4

LEMMA SolutionIsUnique ==
  ASSUME NEW s, NEW t, NEW gone, NEW m \in Nat, NEW n \in Nat, m <= n,
         NEW f, Filters(s, gone, f, m), NEW g, Filters(t, gone, g, n),
         \A i \in 1 .. m : s[i] = t[i]
  PROVE  f[m] = g[m]
<1> DEFINE Differ == {k \in 0 .. m : f[k] # g[k]}
<1>1. SUFFICES ASSUME Differ # {} PROVE FALSE
  BY DEF Differ
<1>2. PICK k \in Differ : \A j \in Differ : k <= j
  <2>1. Differ \subseteq Nat
    OBVIOUS
  <2> HIDE DEF Differ
  <2> QED
    BY <1>1, <2>1, LeastIn
<1>3. k \in 0 .. m /\ k \in 0 .. n /\ f[k] # g[k]
  BY <1>2
<1>4. f[k] = FilterStep(s, gone, f, k) /\ g[k] = FilterStep(t, gone, g, k)
  BY <1>3 DEF Filters
<1>5. CASE k = 0
  BY <1>3, <1>4, <1>5 DEF FilterStep
<1>6. CASE k # 0
  <2>1. k - 1 \in 0 .. m /\ k - 1 \notin Differ /\ k \in 1 .. m
    BY <1>2, <1>6
  <2>2. f[k - 1] = g[k - 1] /\ s[k] = t[k]
    BY <2>1
  <2> QED
    BY <1>3, <1>4, <1>6, <2>2 DEF FilterStep
<1> QED
  BY <1>5, <1>6

LEMMA WithoutSolves ==
  ASSUME NEW s, NEW gone, NEW rest, Len(s) \in Nat, Filters(s, gone, rest, Len(s))
  PROVE  Without(s, gone) = rest[Len(s)]
<1> DEFINE kept == CHOOSE f : Filters(s, gone, f, Len(s))
<1>1. Without(s, gone) = kept[Len(s)]
  BY DEF Without, Filters, FilterStep
<1>2. Filters(s, gone, kept, Len(s))
  OBVIOUS
<1> HIDE DEF kept
<1>3. kept[Len(s)] = rest[Len(s)]
  BY <1>2, SolutionIsUnique
<1> QED
  BY <1>1, <1>3

LEMMA WithoutEmpty ==
  ASSUME NEW gone
  PROVE  Without(<<>>, gone) = <<>>
<1>1. Len(<<>>) = 0 /\ 0 \in Nat
  OBVIOUS
<1>2. PICK rest : Filters(<<>>, gone, rest, 0)
  BY <1>1, SolutionExists
<1>3. rest[0] = <<>>
  BY <1>2 DEF Filters, FilterStep
<1> QED
  BY <1>1, <1>2, <1>3, WithoutSolves

LEMMA WithoutAppend ==
  ASSUME NEW S, NEW s \in Seq(S), NEW x \in S, NEW gone
  PROVE  Without(Append(s, x), gone) =
           IF x \in gone THEN Without(s, gone) ELSE Append(Without(s, gone), x)
<1> DEFINE t == Append(s, x)
           n == Len(s)
<1>1. /\ n \in Nat /\ Len(t) = n + 1 /\ t[n + 1] = x
      /\ \A i \in 1 .. n : s[i] = t[i]
  OBVIOUS
<1> HIDE DEF t, n
<1>2. PICK f : Filters(s, gone, f, n)
  BY <1>1, SolutionExists
<1>3. n + 1 \in Nat
  BY <1>1
<1>4. PICK g : Filters(t, gone, g, n + 1)
  BY <1>3, SolutionExists
<1>5. Without(s, gone) = f[n]
  BY <1>1, <1>2, WithoutSolves DEF n
<1>6. Without(t, gone) = g[n + 1]
  BY <1>1, <1>3, <1>4, WithoutSolves
<1>7. Filters(t, gone, [i \in 0 .. n |-> g[i]], n)
  <2> DEFINE h == [i \in 0 .. n |-> g[i]]
  <2>1. \A i \in 0 .. n : h[i] = FilterStep(t, gone, h, i)
    <3> SUFFICES ASSUME NEW i \in 0 .. n PROVE h[i] = FilterStep(t, gone, h, i)
      OBVIOUS
    <3>1. i \in 0 .. n + 1 /\ h[i] = g[i]
      BY <1>1
    <3>2. g[i] = FilterStep(t, gone, g, i)
      BY <1>4, <3>1 DEF Filters
    <3>3. i # 0 => h[i - 1] = g[i - 1]
      BY <1>1
    <3> QED
      BY <3>1, <3>2, <3>3 DEF FilterStep
  <2> QED
    BY <2>1 DEF Filters
<1>8. f[n] = g[n]
  <2>1. f[n] = [i \in 0 .. n |-> g[i]][n]
    BY <1>1, <1>2, <1>7, SolutionIsUnique
  <2> QED
    BY <1>1, <2>1
<1>9. g[n + 1] = IF x \in gone THEN g[n] ELSE Append(g[n], x)
  <2>1. n + 1 \in 0 .. n + 1 /\ n + 1 # 0 /\ n + 1 - 1 = n
    BY <1>1
  <2>2. g[n + 1] = FilterStep(t, gone, g, n + 1)
    BY <1>4, <2>1 DEF Filters
  <2> QED
    BY <1>1, <2>1, <2>2 DEF FilterStep
<1> QED
  BY <1>5, <1>6, <1>8, <1>9 DEF t

-------------------------------------------------------------------------------
(* Facts by induction on the sequence. *)

\* What holds of the empty sequence, and of each sequence one longer than one
\* it holds of, holds of all.
LEMMA SequencesAre ==
  ASSUME NEW S, NEW Good, <<>> \in Good,
         \A s \in Seq(S) : \A x \in S : s \in Good => Append(s, x) \in Good
  PROVE  Seq(S) \subseteq Good
<1> DEFINE Lengths == {n \in Nat : \E s \in Seq(S) : Len(s) = n /\ s \notin Good}
<1>1. SUFFICES ASSUME Lengths # {} PROVE FALSE
  <2> SUFFICES ASSUME NEW s \in Seq(S), s \notin Good PROVE Lengths # {}
    OBVIOUS
  <2>1. Len(s) \in Lengths
    OBVIOUS
  <2> QED
    BY <2>1
<1>2. PICK n \in Lengths : \A m \in Lengths : n <= m
  <2>1. Lengths \subseteq Nat
    OBVIOUS
  <2> HIDE DEF Lengths
  <2> QED
    BY <1>1, <2>1, LeastIn
<1>3. PICK s \in Seq(S) : Len(s) = n /\ s \notin Good
  BY <1>2
<1>4. s # <<>>
  BY <1>3
<1>5. PICK t \in Seq(S), x \in S : s = Append(t, x)
  BY <1>4, SequenceEmptyOrAppend
<1>6. Len(t) \in Nat /\ n = Len(t) + 1
  BY <1>3, <1>5
<1>7. Len(t) \notin Lengths
  <2> HIDE DEF Lengths
  <2> QED
    BY <1>2, <1>6
<1>8. t \in Good
  BY <1>6, <1>7
<1> QED
  BY <1>3, <1>5, <1>8

\* The kept elements are those of s that are not gone.
LEMMA WithoutIsSeq ==
  ASSUME NEW S, NEW gone, NEW s \in Seq(S)
  PROVE  /\ Without(s, gone) \in Seq(S \ gone)
         /\ Without(s, gone) \in Seq(S)
<1> DEFINE Good == {t \in Seq(S) : Without(t, gone) \in Seq(S \ gone)}
<1>1. <<>> \in Good
  <2>1. <<>> \in Seq(S) /\ <<>> \in Seq(S \ gone)
    OBVIOUS
  <2>2. Without(<<>>, gone) = <<>>
    BY WithoutEmpty
  <2> QED
    BY <2>1, <2>2
<1>2. ASSUME NEW t \in Seq(S), NEW x \in S, t \in Good
      PROVE  Append(t, x) \in Good
  <2>1. Without(t, gone) \in Seq(S \ gone)
    BY <1>2
  <2>2. x \notin gone => Append(Without(t, gone), x) \in Seq(S \ gone)
    BY <2>1
  <2>3. Without(Append(t, x), gone) \in Seq(S \ gone)
    <3>1. CASE x \in gone
      <4>1. Without(Append(t, x), gone) = Without(t, gone)
        BY <3>1, WithoutAppend
      <4> QED
        BY <2>1, <4>1
    <3>2. CASE x \notin gone
      <4>1. Without(Append(t, x), gone) = Append(Without(t, gone), x)
        BY <3>2, WithoutAppend
      <4> QED
        BY <2>2, <3>2, <4>1
    <3> QED
      BY <3>1, <3>2
  <2> QED
    BY <2>3
<1>3. Seq(S) \subseteq Good
  <2> HIDE DEF Good
  <2> QED
    BY <1>1, <1>2, SequencesAre
<1>4. Without(s, gone) \in Seq(S \ gone)
  BY <1>3
<1> QED
  BY <1>4, SeqMonotonic

LEMMA WithoutKeeps ==
  ASSUME NEW S, NEW gone, NEW s \in Seq(S), NEW y
  PROVE  (\E i \in 1 .. Len(Without(s, gone)) : Without(s, gone)[i] = y)
           <=> y \notin gone /\ \E i \in 1 .. Len(s) : s[i] = y
<1> DEFINE In(t) == \E i \in 1 .. Len(t) : t[i] = y
           Good == {t \in Seq(S) : In(Without(t, gone)) <=> y \notin gone /\ In(t)}
<1>1. <<>> \in Good
  BY WithoutEmpty
<1>2. ASSUME NEW T, NEW t \in Seq(T), NEW x \in T
      PROVE  In(Append(t, x)) <=> In(t) \/ x = y
  <2>1. /\ Len(t) \in Nat /\ Len(Append(t, x)) = Len(t) + 1 /\ Append(t, x)[Len(t) + 1] = x
        /\ \A i \in 1 .. Len(t) : Append(t, x)[i] = t[i]
    OBVIOUS
  <2>2. \A i \in 1 .. Len(t) + 1 : i \in 1 .. Len(t) \/ i = Len(t) + 1
    BY <2>1
  <2>3. \A i \in 1 .. Len(t) : i \in 1 .. Len(t) + 1
    BY <2>1
  <2>4. Len(t) + 1 \in 1 .. Len(t) + 1
    BY <2>1
  <2> QED
    BY <2>1, <2>2, <2>3, <2>4
<1>3. ASSUME NEW t \in Seq(S), NEW x \in S, t \in Good
      PROVE  Append(t, x) \in Good
  <2>1. In(Without(t, gone)) <=> y \notin gone /\ In(t)
    BY <1>3
  <2>2. Without(t, gone) \in Seq(S) /\ Append(t, x) \in Seq(S)
    <3>1. Without(t, gone) \in Seq(S)
      BY WithoutIsSeq, Zenon
    <3> QED
      BY <3>1
  <2>3. In(Append(t, x)) <=> In(t) \/ x = y
    BY <1>2
  <2>4. In(Append(Without(t, gone), x)) <=> In(Without(t, gone)) \/ x = y
    BY <1>2, <2>2
  <2> HIDE DEF In
  <2>5. In(Without(Append(t, x), gone)) <=> y \notin gone /\ In(Append(t, x))
    <3>1. CASE x \in gone
      BY <2>1, <2>3, <3>1, WithoutAppend
    <3>2. CASE x \notin gone
      <4>1. Without(Append(t, x), gone) = Append(Without(t, gone), x)
        BY <3>2, WithoutAppend
      <4> QED
        BY <2>1, <2>3, <2>4, <3>2, <4>1
    <3> QED
      BY <3>1, <3>2
  <2> QED
    BY <2>2, <2>5
<1>4. Seq(S) \subseteq Good
  <2> HIDE DEF Good
  <2> QED
    BY <1>1, <1>3, SequencesAre
<1> QED
  BY <1>4

LEMMA WithoutShortens ==
  ASSUME NEW S, NEW gone, NEW s \in Seq(S)
  PROVE  Len(Without(s, gone)) \in 0 .. Len(s)
<1> DEFINE Good == {t \in Seq(S) : Len(Without(t, gone)) \in 0 .. Len(t)}
<1>1. <<>> \in Good
  BY WithoutEmpty
<1>2. ASSUME NEW t \in Seq(S), NEW x \in S, t \in Good
      PROVE  Append(t, x) \in Good
  <2>1. Without(t, gone) \in Seq(S) /\ Append(t, x) \in Seq(S)
    <3>1. Without(t, gone) \in Seq(S)
      BY WithoutIsSeq, Zenon
    <3> QED
      BY <3>1
  <2>2. Len(Append(Without(t, gone), x)) = Len(Without(t, gone)) + 1
        /\ Len(Append(t, x)) = Len(t) + 1 /\ Len(t) \in Nat
    BY <2>1
  <2>3. Len(Without(t, gone)) \in 0 .. Len(t)
    BY <1>2
  <2>4. Len(Without(Append(t, x), gone)) \in 0 .. Len(Append(t, x))
    <3>1. CASE x \in gone
      <4>1. Without(Append(t, x), gone) = Without(t, gone)
        BY <3>1, WithoutAppend
      <4> QED
        BY <2>2, <2>3, <4>1
    <3>2. CASE x \notin gone
      <4>1. Without(Append(t, x), gone) = Append(Without(t, gone), x)
        BY <3>2, WithoutAppend
      <4> QED
        BY <2>2, <2>3, <4>1
    <3> QED
      BY <3>1, <3>2
  <2> QED
    BY <2>1, <2>4
<1>3. Seq(S) \subseteq Good
  <2> HIDE DEF Good
  <2> QED
    BY <1>1, <1>2, SequencesAre
<1> QED
  BY <1>3

\* Nothing is taken out of a sequence that holds nothing of it.
LEMMA WithoutNothing ==
  ASSUME NEW S, NEW gone, NEW s \in Seq(S), \A i \in 1 .. Len(s) : s[i] \notin gone
  PROVE  Without(s, gone) = s
<1> DEFINE Clean(t) == \A i \in 1 .. Len(t) : t[i] \notin gone
           Good == {t \in Seq(S) : Clean(t) => Without(t, gone) = t}
<1>1. <<>> \in Good
  BY WithoutEmpty
<1>2. ASSUME NEW t \in Seq(S), NEW x \in S, t \in Good
      PROVE  Append(t, x) \in Good
  <2>1. Clean(Append(t, x)) => Clean(t) /\ x \notin gone
    <3>1. /\ Len(t) \in Nat /\ Len(Append(t, x)) = Len(t) + 1 /\ Append(t, x)[Len(t) + 1] = x
          /\ \A i \in 1 .. Len(t) : Append(t, x)[i] = t[i]
      OBVIOUS
    <3>2. Len(t) + 1 \in 1 .. Len(t) + 1
      BY <3>1
    <3>3. \A i \in 1 .. Len(t) : i \in 1 .. Len(t) + 1
      BY <3>1
    <3> QED
      BY <3>1, <3>2, <3>3
  <2>2. Clean(t) => Without(t, gone) = t
    BY <1>2
  <2>3. x \notin gone => Without(Append(t, x), gone) = Append(Without(t, gone), x)
    BY WithoutAppend
  <2>4. Append(t, x) \in Seq(S)
    OBVIOUS
  <2> HIDE DEF Clean
  <2> QED
    BY <2>1, <2>2, <2>3, <2>4
<1>3. Seq(S) \subseteq Good
  <2> HIDE DEF Good
  <2> QED
    BY <1>1, <1>2, SequencesAre
<1> QED
  BY <1>3

\* Two parts of a sequence are filtered each by itself.
LEMMA WithoutConcat ==
  ASSUME NEW S, NEW gone, NEW s \in Seq(S), NEW t \in Seq(S)
  PROVE  Without(s \o t, gone) = Without(s, gone) \o Without(t, gone)
<1> DEFINE Good == {u \in Seq(S) : Without(s \o u, gone) = Without(s, gone) \o Without(u, gone)}
<1>1. <<>> \in Good
  <2>1. Without(s, gone) \in Seq(S)
    BY WithoutIsSeq, Zenon
  <2>2. Without(s, gone) \o <<>> = Without(s, gone) /\ s \o <<>> = s /\ <<>> \in Seq(S)
    BY <2>1
  <2>3. Without(<<>>, gone) = <<>>
    BY WithoutEmpty
  <2> QED
    BY <2>2, <2>3
<1>2. ASSUME NEW u \in Seq(S), NEW x \in S, u \in Good
      PROVE  Append(u, x) \in Good
  <2>1. Without(s, gone) \in Seq(S) /\ Without(u, gone) \in Seq(S)
    BY WithoutIsSeq, Zenon
  <2>2. ASSUME NEW a \in Seq(S), NEW b \in Seq(S)
        PROVE  a \o Append(b, x) = Append(a \o b, x)
    OBVIOUS
  <2>3. s \o Append(u, x) = Append(s \o u, x) /\ s \o u \in Seq(S) /\ Append(u, x) \in Seq(S)
    BY <2>2
  <2>4. Without(s, gone) \o Append(Without(u, gone), x)
          = Append(Without(s, gone) \o Without(u, gone), x)
    BY <2>1, <2>2
  <2>5. Without(s \o u, gone) = Without(s, gone) \o Without(u, gone)
    BY <1>2
  <2>6. Without(Append(s \o u, x), gone)
          = IF x \in gone THEN Without(s \o u, gone) ELSE Append(Without(s \o u, gone), x)
    <3>1. s \o u \in Seq(S)
      BY <2>3
    <3> QED
      BY <3>1, WithoutAppend, Zenon
  <2>7. Without(Append(u, x), gone)
          = IF x \in gone THEN Without(u, gone) ELSE Append(Without(u, gone), x)
    BY WithoutAppend, Zenon
  <2>8. Without(s \o Append(u, x), gone) = Without(s, gone) \o Without(Append(u, x), gone)
    <3>1. CASE x \in gone
      BY <2>3, <2>5, <2>6, <2>7, <3>1, Zenon
    <3>2. CASE x \notin gone
      BY <2>3, <2>4, <2>5, <2>6, <2>7, <3>2, Zenon
    <3> QED
      BY <3>1, <3>2
  <2> QED
    BY <2>3, <2>8
<1>3. Seq(S) \subseteq Good
  <2> HIDE DEF Good
  <2> QED
    BY <1>1, <1>2, SequencesAre
<1> QED
  BY <1>3

\* A sequence that names nothing twice does not after the filter.
LEMMA WithoutDistinct ==
  ASSUME NEW S, NEW gone, NEW s \in Seq(S),
         \A i, j \in 1 .. Len(s) : s[i] = s[j] => i = j
  PROVE  \A i, j \in 1 .. Len(Without(s, gone)) :
           Without(s, gone)[i] = Without(s, gone)[j] => i = j
<1> DEFINE Distinct(t) == \A i, j \in 1 .. Len(t) : t[i] = t[j] => i = j
           Good == {t \in Seq(S) : Distinct(t) => Distinct(Without(t, gone))}
<1>1. <<>> \in Good
  <2>1. Without(<<>>, gone) = <<>>
    BY WithoutEmpty
  <2> QED
    BY <2>1
<1>2. ASSUME NEW t \in Seq(S), NEW x \in S
      PROVE  Distinct(Append(t, x)) <=> Distinct(t) /\ \A i \in 1 .. Len(t) : t[i] # x
  <2>1. /\ Len(t) \in Nat /\ Len(Append(t, x)) = Len(t) + 1 /\ Append(t, x)[Len(t) + 1] = x
        /\ \A i \in 1 .. Len(t) : Append(t, x)[i] = t[i]
    OBVIOUS
  <2>2. \A i \in 1 .. Len(t) + 1 : i \in 1 .. Len(t) \/ i = Len(t) + 1
    BY <2>1
  <2>3. \A i \in 1 .. Len(t) : i \in 1 .. Len(t) + 1 /\ i # Len(t) + 1
    BY <2>1
  <2>4. Len(t) + 1 \in 1 .. Len(t) + 1
    BY <2>1
  <2>5. Distinct(Append(t, x)) => Distinct(t) /\ \A i \in 1 .. Len(t) : t[i] # x
    BY <2>1, <2>3, <2>4
  <2>6. Distinct(t) /\ (\A i \in 1 .. Len(t) : t[i] # x) => Distinct(Append(t, x))
    <3> SUFFICES ASSUME Distinct(t), \A i \in 1 .. Len(t) : t[i] # x,
                        NEW i \in 1 .. Len(t) + 1, NEW j \in 1 .. Len(t) + 1,
                        Append(t, x)[i] = Append(t, x)[j]
                 PROVE  i = j
      BY <2>1
    <3>1. CASE i = Len(t) + 1
      BY <2>1, <2>2, <3>1
    <3>2. CASE i \in 1 .. Len(t)
      BY <2>1, <2>2, <3>2
    <3> QED
      BY <2>2, <3>1, <3>2
  <2> QED
    BY <2>5, <2>6
<1>3. ASSUME NEW t \in Seq(S), NEW x \in S, t \in Good
      PROVE  Append(t, x) \in Good
  <2>0. Append(t, x) \in Seq(S)
    OBVIOUS
  <2> SUFFICES ASSUME Distinct(Append(t, x)) PROVE Distinct(Without(Append(t, x), gone))
    BY <2>0, Zenon
  <2>1. Distinct(t) /\ \A i \in 1 .. Len(t) : t[i] # x
    BY <1>2
  <2>2. Distinct(Without(t, gone)) /\ Without(t, gone) \in Seq(S)
    <3>1. Without(t, gone) \in Seq(S)
      BY WithoutIsSeq, Zenon
    <3> QED
      BY <1>3, <2>1, <3>1
  <2>3. \A i \in 1 .. Len(Without(t, gone)) : Without(t, gone)[i] # x
    BY <2>1, WithoutKeeps
  <2>4. Distinct(Append(Without(t, gone), x))
    BY <1>2, <2>2, <2>3
  <2>5. Without(Append(t, x), gone)
          = IF x \in gone THEN Without(t, gone) ELSE Append(Without(t, gone), x)
    BY WithoutAppend, Zenon
  <2> HIDE DEF Distinct
  <2> QED
    BY <2>2, <2>4, <2>5
<1>4. Seq(S) \subseteq Good
  <2> HIDE DEF Good
  <2> QED
    BY <1>1, <1>3, SequencesAre
<1>5. Distinct(s)
  OBVIOUS
<1>6. Distinct(Without(s, gone))
  <2> HIDE DEF Distinct
  <2> QED
    BY <1>4, <1>5
<1> QED
  BY <1>6

\* Without one element that is there once, a sequence is one shorter.
LEMMA WithoutOne ==
  ASSUME NEW S, NEW s \in Seq(S), NEW i \in 1 .. Len(s),
         \A j, k \in 1 .. Len(s) : s[j] = s[k] => j = k
  PROVE  Len(Without(s, {s[i]})) = Len(s) - 1
<1> DEFINE Distinct(t) == \A j, k \in 1 .. Len(t) : t[j] = t[k] => j = k
           Holds(t) == \E j \in 1 .. Len(t) : t[j] = s[i]
           Good == {t \in Seq(S) : Distinct(t) =>
                      Len(Without(t, {s[i]})) = IF Holds(t) THEN Len(t) - 1 ELSE Len(t)}
<1>1. <<>> \in Good
  <2>1. Without(<<>>, {s[i]}) = <<>> /\ <<>> \in Seq(S) /\ Len(<<>>) = 0 /\ ~Holds(<<>>)
    BY WithoutEmpty
  <2> HIDE DEF Holds, Distinct
  <2> QED  BY <2>1
<1>2. ASSUME NEW t \in Seq(S), NEW x \in S, t \in Good
      PROVE  Append(t, x) \in Good
  <2>1. /\ Append(t, x) \in Seq(S) /\ Len(Append(t, x)) = Len(t) + 1 /\ Append(t, x)[Len(t) + 1] = x
        /\ \A j \in 1 .. Len(t) : Append(t, x)[j] = t[j]
        /\ Len(t) \in Nat /\ Len(t) + 1 \in 1 .. Len(t) + 1
        /\ \A j \in 1 .. Len(t) + 1 : j \in 1 .. Len(t) \/ j = Len(t) + 1
        /\ \A j \in 1 .. Len(t) : j \in 1 .. Len(t) + 1 /\ j # Len(t) + 1
    OBVIOUS
  <2> SUFFICES ASSUME Distinct(Append(t, x))
               PROVE  Len(Without(Append(t, x), {s[i]})) =
                        IF Holds(Append(t, x)) THEN Len(Append(t, x)) - 1 ELSE Len(Append(t, x))
    BY <2>1, Zenon
  <2>2. Distinct(t) /\ \A j \in 1 .. Len(t) : t[j] # x
    BY <2>1
  <2>3. Len(Without(t, {s[i]})) = IF Holds(t) THEN Len(t) - 1 ELSE Len(t)
    <3> HIDE DEF Holds, Distinct
    <3> QED  BY <1>2, <2>2
  <2>4. Holds(Append(t, x)) <=> Holds(t) \/ x = s[i]
    BY <2>1
  <2>5. x = s[i] => ~Holds(t)
    BY <2>2
  <2>6. Without(Append(t, x), {s[i]}) =
          IF x \in {s[i]} THEN Without(t, {s[i]}) ELSE Append(Without(t, {s[i]}), x)
    <3>1. PICK gone : gone = {s[i]}
      OBVIOUS
    <3>2. Without(Append(t, x), gone) =
            IF x \in gone THEN Without(t, gone) ELSE Append(Without(t, gone), x)
      BY WithoutAppend, Zenon
    <3> QED  BY <3>1, <3>2
  <2>7. Without(t, {s[i]}) \in Seq(S)
    BY WithoutIsSeq, Zenon
  <2>8. Len(Append(Without(t, {s[i]}), x)) = Len(Without(t, {s[i]})) + 1
    BY <2>7
  <2> HIDE DEF Holds, Distinct
  <2>9. CASE x = s[i]
    BY <2>1, <2>3, <2>4, <2>5, <2>6, <2>9
  <2>10. CASE x # s[i]
    BY <2>1, <2>3, <2>4, <2>6, <2>8, <2>10
  <2> QED  BY <2>9, <2>10
<1>3. Seq(S) \subseteq Good
  <2> HIDE DEF Good
  <2> QED  BY <1>1, <1>2, SequencesAre
<1>4. Distinct(s) /\ Holds(s)
  OBVIOUS
<1> HIDE DEF Distinct, Holds
<1> QED  BY <1>3, <1>4

-----------------------------------------------------------------------------
(* Recursion along a sequence *)

\* What holds of 0, and of each number up to n that follows one it holds of,
\* holds up to n.
LEMMA NumbersAre ==
  ASSUME NEW n \in Nat, NEW Good, 0 \in Good, \A k \in 1 .. n : k - 1 \in Good => k \in Good
  PROVE  \A k \in 0 .. n : k \in Good
<1> DEFINE Bad == {k \in 0 .. n : k \notin Good}
<1>1. SUFFICES ASSUME Bad # {} PROVE FALSE
  OBVIOUS
<1>2. PICK k \in Bad : \A j \in Bad : k <= j
  <2>1. Bad \subseteq Nat
    OBVIOUS
  <2> HIDE DEF Bad
  <2> QED  BY <1>1, <2>1, LeastIn
<1>3. k \in 1 .. n /\ k - 1 \in 0 .. n
  BY <1>2
<1>4. k - 1 \notin Bad
  <2>1. ~(k <= k - 1)
    BY <1>3
  <2> HIDE DEF Bad
  <2> QED  BY <1>2, <2>1
<1> QED  BY <1>2, <1>3, <1>4

\* A fold from base over n steps has a result in V at every step.
FoldsIn(V, f, base, step, n) ==
  f \in [0 .. n -> V] /\ f[0] = base /\ \A k \in 1 .. n : f[k] = step[k][f[k - 1]]

LEMMA FoldExists ==
  ASSUME NEW n \in Nat, NEW V, NEW base \in V, NEW step \in [1 .. n -> [V -> V]]
  PROVE  \E f : FoldsIn(V, f, base, step, n)
<1> DEFINE Solves(f, m) == f[0] = base /\ \A k \in 1 .. m : f[k] = step[k][f[k - 1]]
           Good == {m \in Nat : \E f \in [0 .. m -> V] : Solves(f, m)}
<1>1. 0 \in Good
  <2> DEFINE f == [i \in 0 .. 0 |-> base]
  <2>1. f \in [0 .. 0 -> V] /\ f[0] = base
    OBVIOUS
  <2>2. Solves(f, 0)
    BY <2>1
  <2> QED  BY <2>1, <2>2
<1>2. ASSUME NEW m \in 1 .. n, m - 1 \in Good PROVE m \in Good
  <2>1. PICK f \in [0 .. m - 1 -> V] : Solves(f, m - 1)
    BY <1>2
  <2>2. m - 1 \in 0 .. m - 1 /\ m \in Nat /\ m # 0
    OBVIOUS
  <2>3. step[m][f[m - 1]] \in V
    BY <2>1, <2>2
  <2> DEFINE g == [i \in 0 .. m |-> IF i = m THEN step[m][f[m - 1]] ELSE f[i]]
  <2>4. g \in [0 .. m -> V]
    <3> SUFFICES ASSUME NEW i \in 0 .. m PROVE (IF i = m THEN step[m][f[m - 1]] ELSE f[i]) \in V
      OBVIOUS
    <3>1. i # m => i \in 0 .. m - 1
      BY <2>2
    <3> QED  BY <2>1, <2>3, <3>1
  <2>5. g[0] = base
    BY <2>1, <2>2
  <2>6. ASSUME NEW k \in 1 .. m PROVE g[k] = step[k][g[k - 1]]
    <3>1. k \in 0 .. m /\ k - 1 \in 0 .. m /\ k - 1 # m /\ (k # m => k \in 1 .. m - 1)
      BY <2>2
    <3>2. g[k - 1] = f[k - 1]
      BY <3>1
    <3>3. CASE k = m
      BY <3>1, <3>2, <3>3
    <3>4. CASE k # m
      <4>1. g[k] = f[k]
        BY <3>1, <3>4
      <4>2. f[k] = step[k][f[k - 1]]
        BY <2>1, <3>1, <3>4
      <4> QED  BY <3>2, <4>1, <4>2
    <3> QED  BY <3>3, <3>4
  <2> HIDE DEF g
  <2>7. Solves(g, m)
    BY <2>5, <2>6
  <2> QED  BY <2>2, <2>4, <2>7
<1>3. \A m \in 0 .. n : m \in Good
  <2> HIDE DEF Good
  <2> QED  BY <1>1, <1>2, NumbersAre
<1>4. n \in Good
  <2>1. n \in 0 .. n
    OBVIOUS
  <2> HIDE DEF Good
  <2> QED  BY <1>3, <2>1
<1> QED  BY <1>4 DEF FoldsIn
=============================================================================

--------------------------- MODULE SequenceLemmas ---------------------------
(***************************************************************************)
(* Facts about sets of numbers and about sequences that the proofs of      *)
(* several components need.  The induction is by the least counterexample: *)
(* that a set of numbers has a least element is a fact of first order.     *)
(***************************************************************************)
EXTENDS Integers, Sequences, FiniteSetsExt, SequencesExt, SequenceTheorems, WellFoundedInduction, TLAPS

----------------------------------------------------------------------------
\* Minima and maxima.

LEMMA LeastOf ==
    ASSUME NEW T, T \subseteq Nat, T # {}
    PROVE  Min(T) \in T /\ \A y \in T : Min(T) <= y
<1> DEFINE Before == {p \in Nat \X Nat : p[1] < p[2]}
<1>1. IsWellFoundedOn(Before, Nat)
      BY NatLessThanWellFounded DEF OpToRel
<1>2. \A x, y \in Nat : <<y, x>> \notin Before => x <= y
      OBVIOUS
<1> HIDE DEF Before
<1>3. PICK x \in T : \A y \in T : ~ (<<y, x>> \in Before)
      BY <1>1, WFMin
<1>4. \A y \in T : x <= y
      BY <1>2, <1>3
<1>. QED  BY <1>4 DEF Min

LEMMA GreatestOf ==
    ASSUME NEW n \in Nat, NEW T, T \subseteq 0 .. n, T # {}
    PROVE  Max(T) \in T /\ \A y \in T : Max(T) >= y
<1> DEFINE Mirror == {n - i : i \in T}
<1>1. \A i \in T : i \in Int /\ n - i \in Nat
      OBVIOUS
<1>2. Mirror \subseteq Nat /\ Mirror # {}
      BY <1>1
<1>3. Min(Mirror) \in Mirror /\ \A y \in Mirror : Min(Mirror) <= y
      BY <1>2, LeastOf
<1>4. \A y \in T : n - y \in Mirror
      OBVIOUS
<1>5. PICK i \in T : Min(Mirror) = n - i
      BY <1>3
<1> HIDE DEF Mirror
<1>6. \A y \in T : i >= y
      BY <1>1, <1>3, <1>4, <1>5
<1>. QED  BY <1>6 DEF Max

\* Induction: a set that holds 0, and n + 1 with n, up to a limit, holds all up to it.
LEMMA UpTo ==
    ASSUME NEW limit \in Nat, NEW Holds, 0 \in Holds,
           \A n \in 0 .. limit : n + 1 <= limit /\ n \in Holds => n + 1 \in Holds
    PROVE  \A n \in 0 .. limit : n \in Holds
<1> SUFFICES ASSUME NEW n \in 0 .. limit, n \notin Holds PROVE FALSE
    OBVIOUS
<1> DEFINE T == {i \in 0 .. limit : i \notin Holds}
           m == Min(T)
<1>1. T \subseteq Nat /\ T # {}
      OBVIOUS
<1>2. m \in T /\ \A y \in T : m <= y
      BY <1>1, LeastOf
<1>3. m \in 0 .. limit /\ m \notin Holds /\ \A y \in 0 .. limit : y \notin Holds => m <= y
      BY <1>2
<1> HIDE DEF m, T
<1>4. m # 0 /\ m - 1 \in 0 .. limit /\ m - 1 \in Holds /\ (m - 1) + 1 = m
      BY <1>3
<1>. QED  BY <1>3, <1>4

----------------------------------------------------------------------------
\* FlattenSeq.

\* The partial results of the recursion.
IsFlatten(f, s) == f = [i \in 1 .. Len(s) |-> IF i = 1 THEN s[i] ELSE f[i - 1] \o s[i]]

Flattens(f, s, n) == \A i \in 1 .. n : f[i] = IF i = 1 THEN s[i] ELSE f[i - 1] \o s[i]

LEMMA FlattenExists ==
    ASSUME NEW S, NEW s \in Seq(Seq(S))
    PROVE  \E f \in [1 .. Len(s) -> Seq(S)] : IsFlatten(f, s)
<1> DEFINE Exists(n) == \E f \in [1 .. n -> Seq(S)] : Flattens(f, s, n)
           Holds == {n \in Nat : Exists(n)}
<1>0. Len(s) \in Nat /\ \A i \in 1 .. Len(s) : s[i] \in Seq(S)
      OBVIOUS
<1>1. Exists(0)
  <2>1. [i \in 1 .. 0 |-> <<>>] \in [1 .. 0 -> Seq(S)]
        OBVIOUS
  <2>2. \A f : Flattens(f, s, 0)
        BY DEF Flattens
  <2>. QED  BY <2>1, <2>2
<1>2. ASSUME NEW n \in 0 .. Len(s), n + 1 <= Len(s), Exists(n)
      PROVE  Exists(n + 1)
  <2>1. PICK f \in [1 .. n -> Seq(S)] : Flattens(f, s, n)
        BY <1>2
  <2>. DEFINE x == IF n = 0 THEN s[1] ELSE f[n] \o s[n + 1]
              g == [i \in 1 .. n + 1 |-> IF i = n + 1 THEN x ELSE f[i]]
  <2>2. s[n + 1] \in Seq(S) /\ s[1] \in Seq(S) /\ (n # 0 => f[n] \in Seq(S))
        BY <1>0, <1>2
  <2>3. x \in Seq(S)
        BY <2>2, ConcatProperties
  <2>4. g \in [1 .. n + 1 -> Seq(S)]
        BY <2>3
  <2>5. g[n + 1] = x /\ \A i \in 1 .. n : g[i] = f[i]
    <3>1. n + 1 \in 1 .. n + 1 /\ \A i \in 1 .. n : i \in 1 .. n + 1 /\ i # n + 1
          BY <1>2
    <3> HIDE DEF x
    <3>. QED  BY <3>1
  <2>6. x = IF n + 1 = 1 THEN s[n + 1] ELSE f[n] \o s[n + 1]
        BY <1>2
  <2> HIDE DEF g, x
  <2>7. ASSUME NEW i \in 1 .. n + 1
        PROVE  g[i] = IF i = 1 THEN s[i] ELSE g[i - 1] \o s[i]
    <3>1. CASE i = n + 1
      <4>1. n # 0 => g[n] = f[n]
            BY <2>5, <1>2
      <4>. QED  BY <2>5, <2>6, <3>1, <4>1, <1>2
    <3>2. CASE i # n + 1
      <4>1. i \in 1 .. n /\ (i # 1 => i - 1 \in 1 .. n)
            BY <3>2, <1>2
      <4>2. f[i] = IF i = 1 THEN s[i] ELSE f[i - 1] \o s[i]
            BY <2>1, <4>1 DEF Flattens
      <4>. QED  BY <2>5, <4>1, <4>2
    <3>. QED  BY <3>1, <3>2
  <2>8. Flattens(g, s, n + 1)
        BY <2>7 DEF Flattens
  <2>. QED  BY <2>4, <2>8
<1> HIDE DEF Exists
<1>3. \A n \in 0 .. Len(s) : n \in Holds
  <2>1. 0 \in Holds
        BY <1>1
  <2>2. \A n \in 0 .. Len(s) : n + 1 <= Len(s) /\ n \in Holds => n + 1 \in Holds
        BY <1>2
  <2> HIDE DEF Holds
  <2>. QED  BY <1>0, <2>1, <2>2, UpTo
<1>4. Exists(Len(s))
      BY <1>0, <1>3
<1>5. PICK f \in [1 .. Len(s) -> Seq(S)] : Flattens(f, s, Len(s))
      BY <1>4 DEF Exists
<1>6. IsFlatten(f, s)
      BY <1>5 DEF IsFlatten, Flattens
<1>. QED  BY <1>6

IsInitial(s, t) ==
    /\ Len(s) \in Nat /\ Len(t) \in Nat /\ Len(s) <= Len(t)
    /\ \A i \in 1 .. Len(s) : s[i] = t[i]

Agree(f, g, n) == \A i \in 1 .. n : f[i] = g[i]

\* There is only one such function on each initial segment.
LEMMA FlattenAgree ==
    ASSUME NEW s, NEW t, NEW f, NEW g, IsInitial(s, t), IsFlatten(f, s), IsFlatten(g, t)
    PROVE  Agree(f, g, Len(s))
<1> USE DEF IsInitial, Agree
<1> DEFINE Holds == {n \in Nat : n = 0 \/ f[n] = g[n]}
<1>1. \A i \in 1 .. Len(s) : f[i] = IF i = 1 THEN s[i] ELSE f[i - 1] \o s[i]
      BY DEF IsFlatten
<1>2. \A i \in 1 .. Len(s) : g[i] = IF i = 1 THEN s[i] ELSE g[i - 1] \o s[i]
  <2>1. \A i \in 1 .. Len(t) : g[i] = IF i = 1 THEN t[i] ELSE g[i - 1] \o t[i]
        BY DEF IsFlatten
  <2>2. \A i \in 1 .. Len(s) : i \in 1 .. Len(t) /\ s[i] = t[i]
        OBVIOUS
  <2>. QED  BY <2>1, <2>2
<1>3. 0 \in Holds
      OBVIOUS
<1>4. ASSUME NEW n \in 0 .. Len(s), n + 1 <= Len(s), n \in Holds
      PROVE  n + 1 \in Holds
  <2>1. CASE n = 0
        BY <1>1, <1>2, <1>4, <2>1
  <2>2. CASE n # 0
    <3>1. f[n] = g[n] /\ n + 1 \in 1 .. Len(s) /\ n + 1 # 1 /\ (n + 1) - 1 = n /\ n + 1 \in Nat
          BY <1>4, <2>2
    <3>2. f[n + 1] = f[(n + 1) - 1] \o s[n + 1]
          BY <1>1, <3>1
    <3>3. g[n + 1] = g[(n + 1) - 1] \o s[n + 1]
          BY <1>2, <3>1
    <3>. QED  BY <3>1, <3>2, <3>3
  <2>. QED  BY <2>1, <2>2
<1> HIDE DEF Holds
<1>5. \A n \in 0 .. Len(s) : n \in Holds
      BY <1>3, <1>4, UpTo
<1>. QED  BY <1>5 DEF Holds

LEMMA FlattenIs ==
    ASSUME NEW S, NEW s \in Seq(Seq(S)), s # <<>>
    PROVE  \E f \in [1 .. Len(s) -> Seq(S)] : IsFlatten(f, s) /\ FlattenSeq(s) = f[Len(s)]
<1> DEFINE c == CHOOSE f : f = [i \in 1 .. Len(s) |-> IF i = 1 THEN s[i] ELSE f[i - 1] \o s[i]]
<1>1. PICK f \in [1 .. Len(s) -> Seq(S)] : IsFlatten(f, s)
      BY FlattenExists
<1>2. IsFlatten(c, s)
      BY <1>1 DEF IsFlatten
<1>3. Len(s) \in Nat /\ Len(s) # 0
      OBVIOUS
<1>4. FlattenSeq(s) = c[Len(s)]
      BY <1>3 DEF FlattenSeq
<1>5. Agree(c, f, Len(s))
  <2>1. IsInitial(s, s)
        BY <1>3 DEF IsInitial
  <2>2. IsFlatten(f, s)
        BY <1>1
  <2> HIDE DEF c
  <2>. QED  BY <1>2, <2>1, <2>2, FlattenAgree
<1> HIDE DEF c
<1>6. FlattenSeq(s) = f[Len(s)]
      BY <1>3, <1>4, <1>5 DEF Agree
<1>. QED  BY <1>1, <1>6

LEMMA FlattenEmpty == FlattenSeq(<<>>) = <<>>
BY DEF FlattenSeq

LEMMA FlattenType ==
    ASSUME NEW S, NEW s \in Seq(Seq(S))
    PROVE  FlattenSeq(s) \in Seq(S)
<1>1. CASE s = <<>>
      BY <1>1, FlattenEmpty, EmptySeq
<1>2. CASE s # <<>>
  <2>1. Len(s) \in 1 .. Len(s)
        BY <1>2
  <2>. QED  BY <1>2, <2>1, FlattenIs, SMTT(30)
<1>. QED  BY <1>1, <1>2

LEMMA FlattenLast ==
    ASSUME NEW S, NEW s \in Seq(Seq(S)), NEW t \in Seq(Seq(S)), s # <<>>,
           IsInitial(s, t), Len(t) = Len(s) + 1
    PROVE  FlattenSeq(t) = FlattenSeq(s) \o t[Len(t)]
<1>1. Len(s) \in Nat /\ Len(t) \in Nat /\ Len(s) # 0 /\ t # <<>>
      OBVIOUS
<1>2. PICK u \in [1 .. Len(s) -> Seq(S)] : IsFlatten(u, s) /\ FlattenSeq(s) = u[Len(s)]
      BY FlattenIs
<1>3. PICK v \in [1 .. Len(t) -> Seq(S)] : IsFlatten(v, t) /\ FlattenSeq(t) = v[Len(t)]
      BY <1>1, FlattenIs
<1>4. \A i \in 1 .. Len(t) : v[i] = IF i = 1 THEN t[i] ELSE v[i - 1] \o t[i]
      BY <1>3 DEF IsFlatten
<1>5. Len(t) \in 1 .. Len(t) /\ Len(t) # 1 /\ Len(t) - 1 = Len(s) /\ Len(s) <= Len(t) /\ Len(s) \in 1 .. Len(s)
      BY <1>1
<1>6. IsFlatten(u, s) /\ IsFlatten(v, t)
      BY <1>2, <1>3
<1>7. Agree(u, v, Len(s))
      BY <1>6, FlattenAgree
<1>. QED  BY <1>2, <1>3, <1>4, <1>5, <1>7 DEF Agree

LEMMA FlattenAppend ==
    ASSUME NEW S, NEW s \in Seq(Seq(S)), NEW x \in Seq(S)
    PROVE  FlattenSeq(Append(s, x)) = FlattenSeq(s) \o x
<1>1. /\ Append(s, x) \in Seq(Seq(S)) /\ Len(Append(s, x)) = Len(s) + 1
      /\ Append(s, x)[Len(Append(s, x))] = x
      /\ IsInitial(s, Append(s, x))
      BY AppendProperties DEF IsInitial
<1>2. CASE s = <<>>
  <2>1. FlattenSeq(<<x>>) = x
        BY DEF FlattenSeq
  <2>2. FlattenSeq(s) \o x = x
        BY <1>2, FlattenEmpty, ConcatEmptySeq
  <2>. QED  BY <1>2, <2>1, <2>2
<1>3. CASE s # <<>>
      BY <1>1, <1>3, FlattenLast
<1>. QED  BY <1>2, <1>3

\* The concatenation of one-element sequences.
LEMMA FlattenSingles ==
    ASSUME NEW S, NEW s \in Seq(S)
    PROVE  FlattenSeq([i \in 1 .. Len(s) |-> <<s[i]>>]) = s
<1> DEFINE t == [i \in 1 .. Len(s) |-> <<s[i]>>]
<1>0. Len(s) \in Nat /\ \A i \in 1 .. Len(s) : s[i] \in S
      OBVIOUS
<1>1. t \in Seq(Seq(S)) /\ Len(t) = Len(s) /\ \A i \in 1 .. Len(s) : t[i] = <<s[i]>>
  <2>1. \A i \in 1 .. Len(s) : <<s[i]>> \in Seq(S)
        BY <1>0
  <2>. QED  BY <1>0, <2>1
<1> HIDE DEF t
<1>2. CASE s = <<>>
  <2>1. t = <<>>
        BY <1>1, <1>2
  <2>. QED  BY <1>2, <2>1, FlattenEmpty DEF t
<1>3. CASE s # <<>>
  <2>1. t # <<>> /\ Len(s) # 0
        BY <1>1, <1>3
  <2>2. PICK f \in [1 .. Len(t) -> Seq(S)] : IsFlatten(f, t) /\ FlattenSeq(t) = f[Len(t)]
        BY <1>1, <2>1, FlattenIs
  <2> DEFINE Holds == {n \in Nat : n = 0 \/ f[n] = SubSeq(s, 1, n)}
  <2>3. \A i \in 1 .. Len(s) : f[i] = IF i = 1 THEN t[i] ELSE f[i - 1] \o t[i]
        BY <1>1, <2>2 DEF IsFlatten
  <2>4. \A n \in 0 .. Len(s) : n + 1 <= Len(s) /\ n \in Holds => n + 1 \in Holds
    <3> SUFFICES ASSUME NEW n \in 0 .. Len(s), n + 1 <= Len(s), n = 0 \/ f[n] = SubSeq(s, 1, n)
                 PROVE  f[n + 1] = SubSeq(s, 1, n + 1)
        BY <1>0
    <3>1. n + 1 \in 1 .. Len(s) /\ (n + 1) - 1 = n
          BY <1>0
    <3>2. f[n + 1] = IF n + 1 = 1 THEN <<s[n + 1]>> ELSE f[n] \o <<s[n + 1]>>
          BY <1>1, <2>3, <3>1
    <3>3. CASE n = 0
          BY <3>1, <3>2, <3>3
    <3>4. CASE n # 0
      <4>1. 1 \in 1 .. Len(s) /\ n + 1 \in 1 .. Len(s) /\ (n + 1) - 1 = n
            BY <1>0, <3>1
      <4>2. SubSeq(s, 1, n + 1) = SubSeq(s, 1, n) \o <<s[n + 1]>>
            BY <4>1, SubSeqRecursiveSecond
      <4>. QED  BY <3>1, <3>2, <3>4, <4>2
    <3>. QED  BY <3>3, <3>4
  <2>5. 0 \in Holds
        OBVIOUS
  <2> HIDE DEF Holds
  <2>6. \A n \in 0 .. Len(s) : n \in Holds
        BY <1>0, <2>4, <2>5, UpTo
  <2>7. f[Len(s)] = SubSeq(s, 1, Len(s))
        BY <1>0, <2>1, <2>6 DEF Holds
  <2>. QED  BY <1>1, <2>2, <2>7, SubSeqFull DEF t
<1>. QED  BY <1>2, <1>3

\* A sequence of sequences may be flattened piece by piece.
LEMMA FlattenConcat ==
    ASSUME NEW S, NEW s \in Seq(Seq(S)), NEW t \in Seq(Seq(S))
    PROVE  FlattenSeq(s \o t) = FlattenSeq(s) \o FlattenSeq(t)
<1> DEFINE Q(n) == FlattenSeq(s \o SubSeq(t, 1, n)) = FlattenSeq(s) \o FlattenSeq(SubSeq(t, 1, n))
           Holds == {n \in Nat : Q(n)}
<1>0. Len(t) \in Nat
      OBVIOUS
<1>1. Q(0)
  <2>1. SubSeq(t, 1, 0) = <<>>
        BY SubSeqEmpty
  <2>2. s \o <<>> = s /\ FlattenSeq(s) \o <<>> = FlattenSeq(s)
        BY ConcatEmptySeq, FlattenType
  <2>. QED  BY <2>1, <2>2, FlattenEmpty
<1>2. ASSUME NEW n \in 0 .. Len(t), n + 1 <= Len(t), Q(n)
      PROVE  Q(n + 1)
  <2> DEFINE u == SubSeq(t, 1, n)
             x == t[n + 1]
  <2>1. u \in Seq(Seq(S)) /\ x \in Seq(S)
        BY <1>0, <1>2
  <2>2. SubSeq(t, 1, n + 1) = Append(u, x)
    <3>1. 1 \in 1 .. Len(t) /\ n + 1 \in 1 .. Len(t) /\ (n + 1) - 1 = n
          BY <1>0, <1>2
    <3>2. SubSeq(t, 1, n + 1) = u \o <<x>>
          BY <3>1, SubSeqRecursiveSecond
    <3>. QED  BY <2>1, <3>2, AppendIsConcat
  <2> HIDE DEF u, x
  <2>3. s \o Append(u, x) = Append(s \o u, x)
    <3>1. /\ Append(u, x) = u \o <<x>> /\ Append(s \o u, x) = (s \o u) \o <<x>>
          /\ <<x>> \in Seq(Seq(S)) /\ s \o u \in Seq(Seq(S))
          BY <2>1, AppendIsConcat, ConcatProperties
    <3>. QED  BY <2>1, <3>1, ConcatAssociative
  <2>4. FlattenSeq(s \o Append(u, x)) = FlattenSeq(s \o u) \o x
        BY <2>1, <2>3, FlattenAppend, ConcatProperties
  <2>5. FlattenSeq(Append(u, x)) = FlattenSeq(u) \o x
        BY <2>1, FlattenAppend
  <2>6. (FlattenSeq(s) \o FlattenSeq(u)) \o x = FlattenSeq(s) \o (FlattenSeq(u) \o x)
        BY <2>1, FlattenType, ConcatAssociative, SMTT(30)
  <2>7. FlattenSeq(s \o u) = FlattenSeq(s) \o FlattenSeq(u)
        BY <1>2 DEF u
  <2>. QED  BY <2>2, <2>4, <2>5, <2>6, <2>7
<1> HIDE DEF Q
<1>3. \A n \in 0 .. Len(t) : n \in Holds
  <2>1. 0 \in Holds
        BY <1>1
  <2>2. \A n \in 0 .. Len(t) : n + 1 <= Len(t) /\ n \in Holds => n + 1 \in Holds
        BY <1>2
  <2> HIDE DEF Holds
  <2>. QED  BY <1>0, <2>1, <2>2, UpTo
<1>4. Q(Len(t)) /\ SubSeq(t, 1, Len(t)) = t
      BY <1>0, <1>3, SubSeqFull
<1>. QED  BY <1>4 DEF Q

----------------------------------------------------------------------------
\* The concatenation of what a function gives for each element of a sequence.

Mapped(g, s) == [i \in DOMAIN s |-> g[s[i]]]

IsMapped(m, g, s) == Len(m) = Len(s) /\ \A i \in 1 .. Len(s) : m[i] = g[s[i]]

FlatMap(g, s) == FlattenSeq(Mapped(g, s))

LEMMA MappedType ==
    ASSUME NEW K, NEW S, NEW g \in [K -> Seq(S)], NEW s \in Seq(K)
    PROVE  Mapped(g, s) \in Seq(Seq(S)) /\ IsMapped(Mapped(g, s), g, s)
<1>1. DOMAIN s = 1 .. Len(s) /\ Len(s) \in Nat /\ \A i \in 1 .. Len(s) : g[s[i]] \in Seq(S)
      OBVIOUS
<1>. QED  BY <1>1 DEF Mapped, IsMapped

LEMMA FlatMapEmpty == ASSUME NEW g PROVE FlatMap(g, <<>>) = <<>>
<1>1. Mapped(g, <<>>) = <<>>
      BY DEF Mapped
<1>. QED  BY <1>1, FlattenEmpty DEF FlatMap

LEMMA FlatMapType ==
    ASSUME NEW K, NEW S, NEW g \in [K -> Seq(S)], NEW s \in Seq(K)
    PROVE  FlatMap(g, s) \in Seq(S)
<1>1. Mapped(g, s) \in Seq(Seq(S))
      BY MappedType
<1>. QED  BY <1>1, FlattenType DEF FlatMap

LEMMA FlatMapWithin ==
    ASSUME NEW K, NEW S, NEW g, \A k \in K : g[k] \in Seq(S), NEW s \in Seq(K)
    PROVE  FlatMap(g, s) \in Seq(S)
<1>1. DOMAIN s = 1 .. Len(s) /\ Len(s) \in Nat /\ \A i \in 1 .. Len(s) : g[s[i]] \in Seq(S)
      OBVIOUS
<1>2. Mapped(g, s) \in Seq(Seq(S))
      BY <1>1 DEF Mapped
<1>. QED  BY <1>2, FlattenType DEF FlatMap

LEMMA FlatMapConcat ==
    ASSUME NEW K, NEW S, NEW g \in [K -> Seq(S)], NEW s \in Seq(K), NEW t \in Seq(K)
    PROVE  FlatMap(g, s \o t) = FlatMap(g, s) \o FlatMap(g, t)
<1> DEFINE ms == Mapped(g, s)
           mt == Mapped(g, t)
           mst == Mapped(g, s \o t)
<1>0. Len(s) \in Nat /\ Len(t) \in Nat
      OBVIOUS
<1>1. /\ ms \in Seq(Seq(S)) /\ IsMapped(ms, g, s)
      /\ mt \in Seq(Seq(S)) /\ IsMapped(mt, g, t)
      BY MappedType
<1>2. s \o t \in Seq(K) /\ Len(s \o t) = Len(s) + Len(t)
      /\ \A i \in 1 .. Len(s) + Len(t) : (s \o t)[i] = IF i <= Len(s) THEN s[i] ELSE t[i - Len(s)]
      BY ConcatProperties
<1>3. mst \in Seq(Seq(S)) /\ IsMapped(mst, g, s \o t)
      BY <1>2, MappedType
<1> HIDE DEF ms, mt, mst
<1> USE DEF IsMapped
<1>4. /\ ms \o mt \in Seq(Seq(S)) /\ Len(ms \o mt) = Len(ms) + Len(mt)
      /\ \A i \in 1 .. Len(ms) + Len(mt) :
             (ms \o mt)[i] = IF i <= Len(ms) THEN ms[i] ELSE mt[i - Len(ms)]
      BY <1>1, ConcatProperties, ZenonT(30)
<1>5. ASSUME NEW i \in 1 .. Len(s) + Len(t) PROVE mst[i] = (ms \o mt)[i]
  <2>1. CASE i <= Len(s)
    <3>1. i \in 1 .. Len(s)
          BY <1>0, <2>1
    <3>. QED  BY <1>1, <1>2, <1>3, <1>4, <2>1, <3>1
  <2>2. CASE ~ (i <= Len(s))
    <3>1. i - Len(s) \in 1 .. Len(t)
          BY <1>0, <2>2
    <3>. QED  BY <1>1, <1>2, <1>3, <1>4, <2>2, <3>1, ZenonT(30)
  <2>. QED  BY <2>1, <2>2
<1>6. mst = ms \o mt
  <2>1. Len(mst) = Len(ms \o mt) /\ \A i \in 1 .. Len(mst) : mst[i] = (ms \o mt)[i]
    <3>1. Len(mst) = Len(s) + Len(t) /\ Len(ms \o mt) = Len(s) + Len(t)
          BY <1>1, <1>2, <1>3, <1>4
    <3>. QED  BY <1>5, <3>1
  <2>. QED  BY <1>3, <1>4, <2>1, SeqEqual
<1>7. FlattenSeq(ms \o mt) = FlattenSeq(ms) \o FlattenSeq(mt)
      BY <1>1, FlattenConcat
<1>. QED  BY <1>6, <1>7 DEF FlatMap, ms, mt, mst

LEMMA FlatMapOne ==
    ASSUME NEW K, NEW S, NEW g \in [K -> Seq(S)], NEW k \in K
    PROVE  FlatMap(g, <<k>>) = g[k]
<1>1. Mapped(g, <<k>>) = <<g[k]>>
      BY DEF Mapped
<1>2. FlattenSeq(<<g[k]>>) = g[k]
      BY DEF FlattenSeq
<1>. QED  BY <1>1, <1>2 DEF FlatMap

LEMMA FlatMapAppend ==
    ASSUME NEW K, NEW S, NEW g \in [K -> Seq(S)], NEW s \in Seq(K), NEW k \in K
    PROVE  FlatMap(g, Append(s, k)) = FlatMap(g, s) \o g[k]
<1>1. <<k>> \in Seq(K) /\ Append(s, k) = s \o <<k>>
      BY AppendIsConcat
<1>2. FlatMap(g, s \o <<k>>) = FlatMap(g, s) \o FlatMap(g, <<k>>)
  <2> DEFINE t == <<k>>
  <2>1. t \in Seq(K)
        BY <1>1
  <2> HIDE DEF t
  <2>2. FlatMap(g, s \o t) = FlatMap(g, s) \o FlatMap(g, t)
        BY <2>1, FlatMapConcat
  <2>. QED  BY <2>2 DEF t
<1>3. FlatMap(g, <<k>>) = g[k]
      BY FlatMapOne
<1>. QED  BY <1>1, <1>2, <1>3

LEMMA FlatMapHead ==
    ASSUME NEW K, NEW S, NEW g \in [K -> Seq(S)], NEW s \in Seq(K), s # <<>>
    PROVE  FlatMap(g, s) = g[Head(s)] \o FlatMap(g, Tail(s))
<1>1. Head(s) \in K /\ <<Head(s)>> \in Seq(K) /\ Tail(s) \in Seq(K) /\ s = <<Head(s)>> \o Tail(s)
      OBVIOUS
<1>2. FlatMap(g, <<Head(s)>> \o Tail(s)) = FlatMap(g, <<Head(s)>>) \o FlatMap(g, Tail(s))
  <2>1. \A h, r \in Seq(K) : FlatMap(g, h \o r) = FlatMap(g, h) \o FlatMap(g, r)
        BY FlatMapConcat, SMTT(30)
  <2>. QED  BY <1>1, <2>1
<1>3. FlatMap(g, <<Head(s)>>) = g[Head(s)]
      BY <1>1, FlatMapOne
<1>. QED  BY <1>1, <1>2, <1>3

\* A sequence is a prefix of its continuations.
LEMMA PrefixOfConcat ==
    ASSUME NEW S, NEW s \in Seq(S), NEW t \in Seq(S)
    PROVE  IsPrefix(s, s \o t)
<1>1. Len(s) \in Nat /\ Len(t) \in Nat /\ Len(s \o t) = Len(s) + Len(t)
      OBVIOUS
<1>2. SubSeq(s \o t, 1, Len(s)) = SubSeq(s, 1, Len(s))
  <2>1. CASE Len(s) = 0
        BY <2>1, SubSeqEmpty
  <2>2. CASE Len(s) # 0
        BY <1>1, <2>2, SubSeqOfConcat1
  <2>. QED  BY <2>1, <2>2
<1>. QED  BY <1>1, <1>2 DEF IsPrefix

\* A sequence is what comes before its first element outside of a set, and the rest.
LEMMA SplitAtFirst ==
    ASSUME NEW K, NEW Q, NEW s \in Seq(K)
    PROVE  \E q \in Seq(K \cap Q), r \in Seq(K) : s = q \o r /\ (r # <<>> => Head(r) \notin Q)
<1> DEFINE T == {i \in 1 .. Len(s) : s[i] \notin Q}
<1>0. Len(s) \in Nat /\ DOMAIN s = 1 .. Len(s) /\ \A i \in 1 .. Len(s) : s[i] \in K
      OBVIOUS
<1>1. CASE T = {}
  <2>1. \A i \in 1 .. Len(s) : s[i] \in K \cap Q
        BY <1>0, <1>1
  <2>2. s \in Seq(K \cap Q) /\ <<>> \in Seq(K) /\ s = s \o <<>>
        BY <1>0, <2>1, ConcatEmptySeq
  <2>. QED  BY <2>2
<1>2. CASE T # {}
  <2> DEFINE m == Min(T)
             q == SubSeq(s, 1, m - 1)
             r == SubSeq(s, m, Len(s))
  <2>1. T \subseteq Nat
        OBVIOUS
  <2>2. m \in T /\ \A y \in T : m <= y
        BY <1>2, <2>1, LeastOf
  <2> HIDE DEF m
  <2>a. m \in 1 .. Len(s) /\ s[m] \notin Q
        BY <2>2
  <2>b. ASSUME NEW i \in 1 .. m - 1 PROVE s[i] \in K \cap Q
    <3>1. i \in 1 .. Len(s) /\ ~ (m <= i)
          BY <1>0, <2>a
    <3>2. i \notin T
          BY <2>2, <3>1
    <3>. QED  BY <1>0, <3>1, <3>2
  <2>3. m \in 1 .. Len(s) /\ s[m] \notin Q /\ \A i \in 1 .. m - 1 : s[i] \in K \cap Q
        BY <2>a, <2>b
  <2> HIDE DEF T
  <2>4. q \in Seq(K \cap Q)
        BY <1>0, <2>3, SubSeqProperties
  <2>5. r \in Seq(K) /\ Len(r) = Len(s) - m + 1 /\ r[1] = s[m]
    <3>1. /\ r \in Seq(K) /\ Len(r) = Len(s) - m + 1
          /\ \A i \in 1 .. Len(s) - m + 1 : r[i] = s[m + i - 1]
          BY <1>0, <2>3, SubSeqProperties
    <3>2. 1 \in 1 .. Len(s) - m + 1 /\ m + 1 - 1 = m
          BY <1>0, <2>3
    <3>. QED  BY <3>1, <3>2
  <2>6. s = q \o r
    <3>1. /\ 1 \in 1 .. Len(s) + 1 /\ m - 1 \in 1 - 1 .. Len(s) /\ Len(s) \in m - 1 .. Len(s)
          /\ (m - 1) + 1 = m
          BY <1>0, <2>3
    <3>2. SubSeq(s, 1, m - 1) \o SubSeq(s, (m - 1) + 1, Len(s)) = SubSeq(s, 1, Len(s))
          BY <3>1, ConcatAdjacentSubSeq
    <3>. QED  BY <3>1, <3>2, SubSeqFull
  <2>7. r # <<>> => Head(r) = r[1]
        BY <2>5
  <2> HIDE DEF q, r
  <2>. QED  BY <2>3, <2>4, <2>5, <2>6, <2>7
<1>. QED  BY <1>1, <1>2

=============================================================================

----------------------------- MODULE Induction -----------------------------
(***************************************************************************)
(* Induction over the natural numbers as facts about sets, so that the     *)
(* provers can use it: an induction hypothesis is membership in a set.     *)
(* With it, what a recursive function computes is proved once, for the     *)
(* concatenation of a family of sequences, which is how the models build   *)
(* the transactions of microblocks, of a liquid block and of a chain.      *)
(***************************************************************************)
EXTENDS Integers, Sequences, SequenceTheorems, WellFoundedInduction, TLAPS

\* The least element of a set of natural numbers.
LEMMA Least ==
  ASSUME NEW T \in SUBSET Nat, T # {}
  PROVE  \E x \in T : \A y \in T : x <= y
<1> DEFINE R == OpToRel(<, Nat)
<1>1. IsWellFoundedOn(R, Nat)
  BY NatLessThanWellFounded
<1>2. \A x, y \in Nat : y < x => <<y, x>> \in R
  BY DEF OpToRel
<1> HIDE DEF R
<1>3. PICK x \in T : \A y \in T : ~(<<y, x>> \in R)
  BY <1>1, WFMin
<1>4. ASSUME NEW y \in T PROVE x <= y
  <2>1. x \in Nat /\ y \in Nat /\ ~(y < x)
    BY <1>2, <1>3
  <2> QED BY <2>1
<1> QED BY <1>3, <1>4

\* Induction.
LEMMA Inductive ==
  ASSUME NEW S, 0 \in S, \A n \in Nat : n \in S => n + 1 \in S
  PROVE  Nat \subseteq S
<1> SUFFICES ASSUME Nat \ S # {} PROVE FALSE
  OBVIOUS
<1>1. PICK x \in Nat \ S : \A y \in Nat \ S : x <= y
  BY Least
<1>2. x # 0 /\ x - 1 \in Nat /\ x - 1 \notin Nat \ S
  BY <1>1
<1> QED BY <1>2

\* Two functions that agree at 0 and after every step agree.
LEMMA StepwiseEqual ==
  ASSUME NEW n \in Nat, NEW f, NEW g, f[0] = g[0],
         \A i \in 0 .. n - 1 : f[i] = g[i] => f[i + 1] = g[i + 1]
  PROVE  \A k \in 0 .. n : f[k] = g[k]
<1> DEFINE S == {k \in Nat : k <= n => f[k] = g[k]}
<1>1. 0 \in S
  OBVIOUS
<1>2. ASSUME NEW k \in Nat, k \in S PROVE k + 1 \in S
  <2>1. CASE k + 1 <= n
    <3>1. k \in 0 .. n - 1 /\ k <= n
      BY <2>1
    <3>2. f[k] = g[k]
      BY <1>2, <3>1
    <3> QED BY <3>1, <3>2
  <2>2. CASE ~(k + 1 <= n)
    BY <2>2
  <2> QED BY <2>1, <2>2
<1> HIDE DEF S
<1>3. Nat \subseteq S
  BY <1>1, <1>2, Inductive
<1>4. \A k \in 0 .. n : k \in S /\ k <= n
  BY <1>3
<1> QED BY <1>4 DEF S

-----------------------------------------------------------------------------
\* f is the function that concatenates the first members of the family p.
Concatenates(f, p, n) == f = [i \in 0 .. n |-> IF i = 0 THEN <<>> ELSE f[i - 1] \o p[i]]

\* The concatenation of p[1], ..., p[n].
Flat(p, n) == (CHOOSE f : Concatenates(f, p, n))[n]

\* The recursion defines a function.
LEMMA ConcatenationExists ==
  ASSUME NEW p
  PROVE  \A n \in Nat : \E f : Concatenates(f, p, n)
<1> DEFINE S == {n \in Nat : \E f : Concatenates(f, p, n)}
<1>1. 0 \in S
  <2>1. Concatenates([i \in 0 .. 0 |-> <<>>], p, 0)
    BY DEF Concatenates
  <2> QED BY <2>1
<1>2. ASSUME NEW n \in Nat, n \in S PROVE n + 1 \in S
  <2>1. PICK f : Concatenates(f, p, n)
    BY <1>2
  <2> DEFINE g == [i \in 0 .. n + 1 |-> IF i = n + 1 THEN f[n] \o p[n + 1] ELSE f[i]]
  <2>2. \A i \in 0 .. n : f[i] = IF i = 0 THEN <<>> ELSE f[i - 1] \o p[i]
    BY <2>1 DEF Concatenates
  <2>3. ASSUME NEW i \in 0 .. n + 1
        PROVE  g[i] = IF i = 0 THEN <<>> ELSE g[i - 1] \o p[i]
    <3>1. CASE i = n + 1
      <4>1. i # 0 /\ i - 1 = n /\ n \in 0 .. n + 1 /\ n # n + 1
        BY <3>1
      <4>2. g[i] = f[n] \o p[n + 1] /\ g[n] = f[n]
        BY <3>1, <4>1
      <4> QED BY <3>1, <4>1, <4>2
    <3>2. CASE i # n + 1
      <4>1. i \in 0 .. n /\ g[i] = f[i]
        BY <3>2
      <4>2. i # 0 => g[i - 1] = f[i - 1]
        BY <4>1
      <4> QED BY <2>2, <4>1, <4>2
    <3> QED BY <3>1, <3>2
  <2>4. Concatenates(g, p, n + 1)
    <3>1. g = [i \in 0 .. n + 1 |-> g[i]]
      OBVIOUS
    <3> HIDE DEF g
    <3> QED BY <2>3, <3>1 DEF Concatenates
  <2> QED BY <2>4
<1> HIDE DEF S
<1>3. Nat \subseteq S
  BY <1>1, <1>2, Inductive
<1> QED BY <1>3 DEF S

\* ... only one, and it depends on the family up to n alone.
LEMMA ConcatenationUnique ==
  ASSUME NEW p, NEW q, NEW m \in Nat, NEW n \in Nat, NEW f, NEW g,
         Concatenates(f, p, m), Concatenates(g, q, n)
  PROVE  \A k \in Nat : k <= m /\ k <= n /\ (\A i \in 1 .. k : p[i] = q[i]) => f[k] = g[k]
<1> DEFINE S == {k \in Nat : k <= m /\ k <= n /\ (\A i \in 1 .. k : p[i] = q[i]) => f[k] = g[k]}
<1>1. /\ \A i \in 0 .. m : f[i] = IF i = 0 THEN <<>> ELSE f[i - 1] \o p[i]
      /\ \A i \in 0 .. n : g[i] = IF i = 0 THEN <<>> ELSE g[i - 1] \o q[i]
  BY DEF Concatenates
<1>2. 0 \in S
  BY <1>1
<1>3. ASSUME NEW k \in Nat, k \in S PROVE k + 1 \in S
  <2> SUFFICES ASSUME k + 1 <= m, k + 1 <= n, \A i \in 1 .. k + 1 : p[i] = q[i]
               PROVE  f[k + 1] = g[k + 1]
    OBVIOUS
  <2>1. f[k] = g[k]
    BY <1>3
  <2>2. f[k + 1] = f[k] \o p[k + 1] /\ g[k + 1] = g[k] \o q[k + 1]
    <3>1. k + 1 \in 0 .. m /\ k + 1 \in 0 .. n /\ k + 1 # 0 /\ (k + 1) - 1 = k
      OBVIOUS
    <3> QED BY <1>1, <3>1
  <2>3. p[k + 1] = q[k + 1]
    OBVIOUS
  <2> QED BY <2>1, <2>2, <2>3
<1> HIDE DEF S
<1>4. Nat \subseteq S
  BY <1>2, <1>3, Inductive
<1> QED BY <1>4 DEF S

\* Whatever function satisfies the recursion, its value is Flat.
LEMMA FlatIs ==
  ASSUME NEW p, NEW n \in Nat, NEW f, Concatenates(f, p, n)
  PROVE  \A k \in 0 .. n : f[k] = Flat(p, k)
<1> SUFFICES ASSUME NEW k \in 0 .. n PROVE f[k] = Flat(p, k)
  OBVIOUS
<1>1. k \in Nat /\ k <= n
  OBVIOUS
<1> DEFINE g == CHOOSE g : Concatenates(g, p, k)
<1>2. Concatenates(g, p, k)
  BY <1>1, ConcatenationExists
<1>3. Flat(p, k) = g[k]
  BY DEF Flat
<1> HIDE DEF g
<1>4. f[k] = g[k]
  BY <1>1, <1>2, ConcatenationUnique
<1> QED BY <1>3, <1>4

\* The recursion itself.
LEMMA FlatStep ==
  ASSUME NEW p
  PROVE  /\ Flat(p, 0) = <<>>
         /\ \A n \in Nat : Flat(p, n + 1) = Flat(p, n) \o p[n + 1]
<1>1. ASSUME NEW n \in Nat PROVE Flat(p, 0) = <<>> /\ Flat(p, n + 1) = Flat(p, n) \o p[n + 1]
  <2>1. n + 1 \in Nat /\ 0 \in 0 .. n + 1 /\ n \in 0 .. n + 1 /\ n + 1 \in 0 .. n + 1
    OBVIOUS
  <2>2. PICK f : Concatenates(f, p, n + 1)
    BY <2>1, ConcatenationExists
  <2>3. f[0] = <<>> /\ f[n + 1] = f[n] \o p[n + 1]
    BY <2>2 DEF Concatenates
  <2>4. f[0] = Flat(p, 0) /\ f[n] = Flat(p, n) /\ f[n + 1] = Flat(p, n + 1)
    BY <2>1, <2>2, FlatIs
  <2> QED BY <2>3, <2>4
<1> QED BY <1>1

\* Equal families, equal concatenations.
LEMMA FlatSame ==
  ASSUME NEW p, NEW q, NEW n \in Nat, \A i \in 1 .. n : p[i] = q[i]
  PROVE  Flat(p, n) = Flat(q, n)
<1>1. PICK f : Concatenates(f, p, n)
  BY ConcatenationExists
<1>2. PICK g : Concatenates(g, q, n)
  BY ConcatenationExists
<1>3. f[n] = g[n]
  <2>1. \A k \in Nat : k <= n /\ k <= n /\ (\A i \in 1 .. k : p[i] = q[i]) => f[k] = g[k]
    BY <1>1, <1>2, ConcatenationUnique
  <2> QED BY <2>1
<1> QED BY <1>1, <1>2, <1>3, FlatIs

\* A concatenation of sequences is a sequence.
LEMMA FlatSeq ==
  ASSUME NEW p, NEW X, NEW n \in Nat, \A i \in 1 .. n : p[i] \in Seq(X)
  PROVE  \A k \in 0 .. n : Flat(p, k) \in Seq(X)
<1> DEFINE S == {k \in Nat : k <= n => Flat(p, k) \in Seq(X)}
<1>1. 0 \in S
  BY FlatStep, EmptySeq
<1>2. ASSUME NEW k \in Nat, k \in S PROVE k + 1 \in S
  <2> SUFFICES ASSUME k + 1 <= n PROVE Flat(p, k + 1) \in Seq(X)
    OBVIOUS
  <2>1. Flat(p, k) \in Seq(X) /\ p[k + 1] \in Seq(X)
    BY <1>2
  <2>2. Flat(p, k + 1) = Flat(p, k) \o p[k + 1]
    BY FlatStep
  <2> QED BY <2>1, <2>2, ConcatProperties
<1> HIDE DEF S
<1>3. Nat \subseteq S
  BY <1>1, <1>2, Inductive
<1> QED BY <1>3 DEF S

\* A concatenation can be cut anywhere.
LEMMA FlatSplit ==
  ASSUME NEW p, NEW q, NEW X, NEW n \in Nat, NEW k \in 0 .. n,
         \A i \in 1 .. n : p[i] \in Seq(X),
         \A i \in 1 .. n - k : q[i] = p[k + i]
  PROVE  /\ Flat(p, n) = Flat(p, k) \o Flat(q, n - k)
         /\ Flat(q, n - k) \in Seq(X)
<1> DEFINE S == {m \in Nat : k + m <= n => Flat(p, k + m) = Flat(p, k) \o Flat(q, m)}
<1>1. \A i \in 0 .. n : Flat(p, i) \in Seq(X)
  BY FlatSeq
<1>2. /\ \A i \in 1 .. n - k : q[i] \in Seq(X)
      /\ n - k \in Nat /\ k \in Nat
  OBVIOUS
<1>3. \A i \in 0 .. n - k : Flat(q, i) \in Seq(X)
  BY <1>2, FlatSeq
<1>4. 0 \in S
  <2>1. Flat(p, k) \o <<>> = Flat(p, k)
    BY <1>1, ConcatEmptySeq
  <2>2. k + 0 = k /\ Flat(q, 0) = <<>>
    BY <1>2, FlatStep
  <2>3. Flat(p, k + 0) = Flat(p, k) \o Flat(q, 0)
    BY <2>1, <2>2
  <2> QED BY <2>3
<1>5. ASSUME NEW m \in Nat, m \in S PROVE m + 1 \in S
  <2> SUFFICES ASSUME k + (m + 1) <= n
               PROVE  Flat(p, k + (m + 1)) = Flat(p, k) \o Flat(q, m + 1)
    OBVIOUS
  <2>1. Flat(p, k + m) = Flat(p, k) \o Flat(q, m)
    BY <1>2, <1>5
  <2>2. /\ k + m \in Nat /\ k + (m + 1) = (k + m) + 1
        /\ m + 1 \in 1 .. n - k /\ m \in 0 .. n - k
    BY <1>2
  <2>3. Flat(p, k + (m + 1)) = (Flat(p, k) \o Flat(q, m)) \o p[k + (m + 1)]
    BY <2>1, <2>2, FlatStep
  <2>4. Flat(q, m + 1) = Flat(q, m) \o p[k + (m + 1)]
    <3>1. q[m + 1] = p[k + (m + 1)]
      BY <2>2
    <3>2. Flat(q, m + 1) = Flat(q, m) \o q[m + 1]
      BY FlatStep
    <3> QED BY <3>1, <3>2
  <2>5. p[k + (m + 1)] \in Seq(X) /\ Flat(p, k) \in Seq(X) /\ Flat(q, m) \in Seq(X)
    <3>1. k + (m + 1) \in 1 .. n
      BY <1>2
    <3> QED BY <1>1, <1>3, <2>2, <3>1
  <2>6. \A a, b, c \in Seq(X) : (a \o b) \o c = a \o (b \o c)
    BY ConcatAssociative
  <2>7. (Flat(p, k) \o Flat(q, m)) \o p[k + (m + 1)] = Flat(p, k) \o (Flat(q, m) \o p[k + (m + 1)])
    BY <2>5, <2>6, Zenon
  <2> QED BY <2>3, <2>4, <2>7, Zenon
<1> HIDE DEF S
<1>6. Nat \subseteq S
  BY <1>4, <1>5, Inductive
<1>7. k + (n - k) = n
  BY <1>2
<1> QED BY <1>2, <1>3, <1>6, <1>7 DEF S
=============================================================================

----------------------- MODULE HierarchyBuilder_proofs -----------------------
(* Theorems about the merge, HierarchyBuilder and PdfParser, for documents of *)
(* any length and layout and any number of heading levels.                    *)
EXTENDS PdfParser, FiniteSetTheorems, WellFoundedInduction, TLAPS

-----------------------------------------------------------------------------
(* Induction over the natural numbers, by least counterexample.            *)

\* The least number principle, from well-founded induction.
LEMMA LeastNumber ==
  ASSUME NEW S \in SUBSET Nat, S # {}
  PROVE  \E n \in S : \A m \in S : n <= m
<1>1. PICK x \in S : \A y \in S : ~(<<y, x>> \in OpToRel(<, Nat))
  BY NatLessThanWellFounded, WFMin, Zenon
<1>2. \A y \in S : ~(y < x)
  BY <1>1, Zenon DEF OpToRel
<1> QED BY <1>2

\* Strong induction: a set with every number whose predecessors it has is Nat.
LEMMA StrongInduction ==
  ASSUME NEW T, \A j \in Nat : (\A i \in 0..(j - 1) : i \in T) => j \in T
  PROVE  \A j \in Nat : j \in T
<1> SUFFICES ASSUME Nat \ T # {} PROVE FALSE
    OBVIOUS
<1>1. PICK j \in Nat \ T : \A i \in Nat \ T : j <= i
  BY LeastNumber
<1>2. \A i \in 0..(j - 1) : i \in T
  BY <1>1
<1> QED BY <1>1, <1>2

-----------------------------------------------------------------------------
(* Prefixes.                                                               *)

LEMMA PrefixByElements ==
  ASSUME NEW s \in Seq(Nat), NEW t \in Seq(Nat)
  PROVE  IsPrefix(s, t) <=> Len(s) <= Len(t) /\ \A k \in 1..Len(s) : s[k] = t[k]
<1>1. ASSUME Len(s) <= Len(t)
      PROVE  SubSeq(s, 1, Len(s)) = SubSeq(t, 1, Len(s)) <=> \A k \in 1..Len(s) : s[k] = t[k]
  <2> DEFINE u == SubSeq(s, 1, Len(s))
             v == SubSeq(t, 1, Len(s))
  <2>1. u \in Seq(Nat) /\ v \in Seq(Nat) /\ Len(u) = Len(s) /\ Len(v) = Len(s)
    BY <1>1
  <2>2. \A k \in 1..Len(s) : u[k] = s[k] /\ v[k] = t[k]
    BY <1>1
  <2> HIDE DEF u, v
  <2>3. u = v <=> \A k \in 1..Len(s) : u[k] = v[k]
    <3>1. u \in [1..Len(s) -> Nat] /\ v \in [1..Len(s) -> Nat]
      BY <2>1
    <3> QED BY <3>1
  <2>4. u = v <=> \A k \in 1..Len(s) : s[k] = t[k]
    BY <2>2, <2>3
  <2> QED BY <2>4 DEF u, v
<1> QED BY <1>1 DEF IsPrefix

LEMMA AppendFacts ==
  ASSUME NEW s \in Seq(Nat), NEW g \in Nat
  PROVE  /\ Append(s, g) \in Seq(Nat) /\ Len(Append(s, g)) = Len(s) + 1
         /\ Append(s, g)[Len(s) + 1] = g
         /\ \A k \in 1..Len(s) : Append(s, g)[k] = s[k]
         /\ Len(s) \in Nat
OBVIOUS

-----------------------------------------------------------------------------
(* Numerals.                                                               *)

LEMMA SameElements ==
  ASSUME NEW s \in Seq(Nat), NEW t \in Seq(Nat), Len(s) = Len(t),
         \A k \in 1..Len(s) : s[k] = t[k]
  PROVE  s = t
OBVIOUS

LEMMA Tenths ==
  ASSUME NEW n \in Nat
  PROVE  /\ n \div 10 \in Nat /\ n % 10 \in 0..9 /\ n = 10 * (n \div 10) + (n % 10)
         /\ n >= 10 => n \div 10 \in 0..(n - 1)
OBVIOUS

\* The equation that defines numerals has a solution.
LEMMA NumeralUnfold ==
  ASSUME NEW z \in Nat
  PROVE  /\ z < 10 => Numeral[z] = <<Zero + z>>
         /\ z >= 10 => Numeral[z] = Append(Numeral[z \div 10], Zero + (z % 10))
<1> DEFINE Digits(f, n) == IF n < 10 THEN <<Zero + n>>
                           ELSE Append(f[n \div 10], Zero + (n % 10))
           Sol(f, m) == f = [n \in 0..m |-> Digits(f, n)]
           T == {m \in Nat : \E f : Sol(f, m)}
<1>1. ASSUME NEW m \in Nat, \A l \in 0..(m - 1) : l \in T
      PROVE  m \in T
  <2>1. PICK u : m # 0 => Sol(u, m - 1)
    <3>1. m # 0 => m - 1 \in 0..(m - 1)
      OBVIOUS
    <3> HIDE DEF Sol
    <3> QED BY <1>1, <3>1
  <2> DEFINE v == [n \in 0..m |-> Digits(u, n)]
  <2>2. \A n \in 0..(m - 1) : v[n] = u[n]
    <3>1. \A n \in 0..(m - 1) : m # 0 /\ n \in 0..m
      BY <1>1
    <3>2. m # 0 => \A n \in 0..(m - 1) : u[n] = Digits(u, n)
      <4> HIDE DEF Digits
      <4> QED BY <2>1
    <3> HIDE DEF Digits
    <3> QED BY <3>1, <3>2
  <2>3. \A n \in 0..m : n >= 10 => n \div 10 \in 0..(m - 1)
    BY Tenths
  <2>4. \A n \in 0..m : Digits(v, n) = Digits(u, n)
    <3> HIDE DEF v
    <3> QED BY <2>2, <2>3
  <2>5. Sol(v, m)
    <3> HIDE DEF Digits
    <3> QED BY <2>4
  <2> HIDE DEF Sol, v
  <2> QED BY <2>5
<1>2. \A m \in Nat : \E f : Sol(f, m)
  <2>1. \A m \in Nat : m \in T
    <3> HIDE DEF T
    <3> QED BY <1>1, StrongInduction
  <2> HIDE DEF Sol
  <2> QED BY <2>1
<1> DEFINE F == [m \in Nat |-> CHOOSE f : Sol(f, m)]
<1>3. \A m \in Nat : Sol(F[m], m)
  <2> HIDE DEF Sol
  <2> QED BY <1>2
<1> HIDE DEF F
\* Two solutions agree where both are defined.
<1>4. ASSUME NEW l \in Nat, NEW m \in Nat, l <= m
      PROVE  F[m][l] = F[l][l]
  <2> DEFINE S == {n \in Nat : n <= l => F[m][n] = F[l][n]}
  <2>1. ASSUME NEW n \in Nat, \A i \in 0..(n - 1) : i \in S, n <= l
        PROVE  F[m][n] = F[l][n]
    <3>1. F[m][n] = Digits(F[m], n) /\ F[l][n] = Digits(F[l], n)
      <4>1. n \in 0..m /\ n \in 0..l
        BY <1>4, <2>1
      <4>2. Sol(F[m], m) /\ Sol(F[l], l)
        BY <1>3
      <4> HIDE DEF Digits
      <4> QED BY <4>1, <4>2
    <3>2. n >= 10 => F[m][n \div 10] = F[l][n \div 10]
      <4>1. n >= 10 => n \div 10 \in 0..(n - 1) /\ n \div 10 <= l
        BY <2>1, Tenths
      <4> QED BY <2>1, <4>1
    <3> QED BY <2>1, <3>1, <3>2
  <2>2. \A n \in Nat : n \in S
    <3>1. \A n \in Nat : (\A i \in 0..(n - 1) : i \in S) => n \in S
      BY <2>1
    <3> HIDE DEF S
    <3> QED BY <3>1, StrongInduction
  <2> QED BY <2>2
<1> DEFINE G == [n \in Nat |-> F[n][n]]
<1>5. ASSUME NEW n \in Nat PROVE G[n] = Digits(G, n)
  <2>1. F[n][n] = Digits(F[n], n)
    <3>1. n \in 0..n
      OBVIOUS
    <3>2. Sol(F[n], n)
      <4> HIDE DEF Sol
      <4> QED BY <1>3
    <3> HIDE DEF Digits
    <3> QED BY <3>1, <3>2
  <2>2. n >= 10 => F[n][n \div 10] = G[n \div 10]
    <3>1. n >= 10 => n \div 10 \in Nat /\ n \div 10 <= n
      BY Tenths
    <3> QED BY <1>4, <3>1
  <2>3. Digits(F[n], n) = Digits(G, n)
    <3> HIDE DEF G
    <3> QED BY <2>2
  <2> HIDE DEF Digits
  <2> QED BY <2>1, <2>3
<1>6. \E g : g = [n \in Nat |-> Digits(g, n)]
  <2>1. G = [n \in Nat |-> Digits(G, n)]
    <3> HIDE DEF Digits
    <3> QED BY <1>5
  <2> HIDE DEF G, Digits
  <2> QED BY <2>1
<1>7. Numeral = [n \in Nat |-> Digits(Numeral, n)]
  BY <1>6, Zenon DEF Numeral
<1> HIDE DEF Digits
<1>8. \A n \in Nat : Numeral[n] = Digits(Numeral, n)
  BY <1>7
<1>9. Numeral[z] = IF z < 10 THEN <<Zero + z>> ELSE Append(Numeral[z \div 10], Zero + (z % 10))
  BY <1>8 DEF Digits
<1> QED BY <1>9

\* A numeral is a string of digits: never empty, and without a dot.
LEMMA NumeralFacts ==
  \A n \in Nat : /\ Numeral[n] \in Seq(Nat) /\ Len(Numeral[n]) \in Nat \ {0}
                 /\ \A k \in 1..Len(Numeral[n]) : Numeral[n][k] # Dot
<1> DEFINE Good(s) == /\ s \in Seq(Nat) /\ Len(s) \in Nat \ {0}
                      /\ \A k \in 1..Len(s) : s[k] # Dot
           T == {n \in Nat : Good(Numeral[n])}
<1>1. ASSUME NEW n \in Nat, \A m \in 0..(n - 1) : m \in T
      PROVE  Good(Numeral[n])
  <2>1. CASE n < 10
    <3> DEFINE g == Zero + n
    <3>1. Numeral[n] = <<g>>
      BY <2>1, NumeralUnfold
    <3>2. g \in Nat /\ g # Dot
      BY DEF Zero, Dot
    <3> HIDE DEF g
    <3> QED BY <3>1, <3>2
  <2>2. CASE n >= 10
    <3> DEFINE s == Numeral[n \div 10]
               g == Zero + (n % 10)
    <3>1. Good(s)
      <4>1. n \div 10 \in 0..(n - 1)
        BY <2>2, Tenths
      <4> HIDE DEF Good
      <4> QED BY <1>1, <4>1
    <3>2. g \in Nat /\ g # Dot
      BY Tenths DEF Zero, Dot
    <3>3. Numeral[n] = Append(s, g)
      BY <2>2, NumeralUnfold
    <3> HIDE DEF s, g
    <3>4. Good(Append(s, g))
      BY <3>1, <3>2, AppendFacts
    <3> QED BY <3>3, <3>4
  <2> QED BY <2>1, <2>2
<1>2. \A n \in Nat : n \in T
  <2>1. \A n \in Nat : (\A m \in 0..(n - 1) : m \in T) => n \in T
    <3> HIDE DEF Good
    <3> QED BY <1>1
  <2> HIDE DEF T
  <2> QED BY <2>1, StrongInduction
<1> QED BY <1>2

\* Different numbers have different numerals.
LEMMA NumeralsDiffer ==
  \A m, n \in Nat : Numeral[m] = Numeral[n] => m = n
<1> DEFINE T == {m \in Nat : \A n \in Nat : Numeral[m] = Numeral[n] => m = n}
<1>1. ASSUME NEW m \in Nat, \A l \in 0..(m - 1) : l \in T, NEW n \in Nat,
             Numeral[m] = Numeral[n]
      PROVE  m = n
  <2>1. ASSUME NEW l \in Nat, l < 10
        PROVE  Len(Numeral[l]) = 1 /\ Numeral[l][1] = Zero + l
    <3>1. Numeral[l] = <<Zero + l>>
      BY <2>1, NumeralUnfold
    <3> QED BY <3>1
  <2>2. ASSUME NEW l \in Nat, l >= 10
        PROVE  /\ Numeral[l \div 10] \in Seq(Nat) /\ Len(Numeral[l \div 10]) \in Nat \ {0}
               /\ Len(Numeral[l]) = Len(Numeral[l \div 10]) + 1
               /\ Numeral[l][Len(Numeral[l])] = Zero + (l % 10)
               /\ \A k \in 1..Len(Numeral[l \div 10]) :
                    Numeral[l][k] = Numeral[l \div 10][k]
    <3> DEFINE s == Numeral[l \div 10]
               g == Zero + (l % 10)
    <3>1. s \in Seq(Nat) /\ Len(s) \in Nat \ {0} /\ g \in Nat
      BY Tenths, NumeralFacts DEF Zero
    <3>2. Numeral[l] = Append(s, g)
      BY <2>2, NumeralUnfold
    <3> HIDE DEF s, g
    <3>3. /\ Len(Numeral[l]) = Len(s) + 1 /\ Numeral[l][Len(s) + 1] = g
          /\ \A k \in 1..Len(s) : Numeral[l][k] = s[k]
      BY <3>1, <3>2, AppendFacts
    <3> QED BY <3>1, <3>3 DEF s, g
  <2>3. CASE m < 10 /\ n < 10
    BY <1>1, <2>1, <2>3 DEF Zero
  <2>4. CASE m >= 10 /\ n >= 10
    <3> DEFINE s == Numeral[m \div 10]
               t == Numeral[n \div 10]
    <3>1. s \in Seq(Nat) /\ t \in Seq(Nat) /\ Len(s) \in Nat /\ Len(t) \in Nat
      BY <2>2, <2>4
    <3>2. Len(s) + 1 = Len(Numeral[m]) /\ Len(t) + 1 = Len(Numeral[m])
      BY <1>1, <2>2, <2>4
    <3>3. /\ \A k \in 1..Len(s) : s[k] = Numeral[m][k]
          /\ \A k \in 1..Len(t) : t[k] = Numeral[m][k]
      BY <1>1, <2>2, <2>4
    <3>4. Zero + (m % 10) = Zero + (n % 10)
      BY <1>1, <2>2, <2>4
    <3>5. s = t
      <4> HIDE DEF s, t
      <4>1. Len(s) = Len(t)
        BY <3>1, <3>2
      <4> QED BY <3>1, <3>3, <4>1, SameElements
    <3>6. m \div 10 = n \div 10
      <4>1. m \div 10 \in T /\ n \div 10 \in Nat
        <5>1. m \div 10 \in 0..(m - 1) /\ n \div 10 \in Nat
          BY <2>4, Tenths
        <5> HIDE DEF T
        <5> QED BY <1>1, <5>1
      <4> QED BY <3>5, <4>1
    <3>7. m % 10 = n % 10
      BY <3>4, Tenths DEF Zero
    <3> QED BY <3>6, <3>7, Tenths
  <2>5. CASE (m < 10 /\ n >= 10) \/ (m >= 10 /\ n < 10)
    <3>1. CASE m < 10 /\ n >= 10
      <4>1. Len(Numeral[m]) = 1 /\ Len(Numeral[n]) = Len(Numeral[n \div 10]) + 1
            /\ Len(Numeral[n \div 10]) \in Nat \ {0}
        BY <2>1, <2>2, <3>1
      <4>2. Len(Numeral[m]) = Len(Numeral[n])
        BY <1>1
      <4>3. \A k \in Nat \ {0} : 1 # k + 1
        OBVIOUS
      <4> QED BY <4>1, <4>2, <4>3, Zenon
    <3>2. CASE m >= 10 /\ n < 10
      <4>1. Len(Numeral[n]) = 1 /\ Len(Numeral[m]) = Len(Numeral[m \div 10]) + 1
            /\ Len(Numeral[m \div 10]) \in Nat \ {0}
        BY <2>1, <2>2, <3>2
      <4>2. Len(Numeral[m]) = Len(Numeral[n])
        BY <1>1
      <4>3. \A k \in Nat \ {0} : 1 # k + 1
        OBVIOUS
      <4> QED BY <4>1, <4>2, <4>3, Zenon
    <3> QED BY <2>5, <3>1, <3>2
  <2> QED BY <2>3, <2>4, <2>5
<1>2. \A m \in Nat : m \in T
  <2>1. \A m \in Nat : (\A l \in 0..(m - 1) : l \in T) => m \in T
    BY <1>1
  <2> HIDE DEF T
  <2> QED BY <2>1, StrongInduction
<1> QED BY <1>2

-----------------------------------------------------------------------------
(* Dotted paths.                                                           *)

\* Two strings with a dot between them.
Joined(s, t) == s \o <<Dot>> \o t

LEMMA JoinFacts ==
  ASSUME NEW s \in Seq(Nat), NEW t \in Seq(Nat)
  PROVE  /\ Joined(s, t) \in Seq(Nat)
         /\ Len(Joined(s, t)) = Len(s) + 1 + Len(t)
         /\ Joined(s, t)[Len(s) + 1] = Dot
         /\ \A k \in 1..Len(s) : Joined(s, t)[k] = s[k]
         /\ \A k \in 1..Len(t) : Joined(s, t)[Len(s) + 1 + k] = t[k]
         /\ Len(s) \in Nat /\ Len(t) \in Nat
BY DEF Dot, Joined

LEMMA BelowByElements ==
  ASSUME NEW s \in Seq(Nat), NEW t \in Seq(Nat)
  PROVE  Below(s, t) <=> /\ Len(s) < Len(t) /\ t[Len(s) + 1] = Dot
                         /\ \A k \in 1..Len(s) : s[k] = t[k]
<1> DEFINE u == Append(s, Dot)
<1>1. /\ u \in Seq(Nat) /\ Len(u) = Len(s) + 1 /\ u[Len(s) + 1] = Dot
      /\ \A k \in 1..Len(s) : u[k] = s[k]
      /\ Len(s) \in Nat /\ Len(t) \in Nat
  BY AppendFacts DEF Dot
<1> HIDE DEF u
<1>2. IsPrefix(u, t) <=> Len(u) <= Len(t) /\ \A k \in 1..Len(u) : u[k] = t[k]
  BY <1>1, PrefixByElements
<1>3. (\A k \in 1..Len(u) : u[k] = t[k]) <=>
        t[Len(s) + 1] = Dot /\ \A k \in 1..Len(s) : s[k] = t[k]
  <2>1. \A k : k \in 1..Len(u) <=> k \in 1..Len(s) \/ k = Len(s) + 1
    BY <1>1
  <2> QED BY <1>1, <2>1
<1> QED BY <1>1, <1>2, <1>3 DEF Below, u

LEMMA BelowTransitive ==
  ASSUME NEW s \in Seq(Nat), NEW t \in Seq(Nat), NEW u \in Seq(Nat), Below(s, t), Below(t, u)
  PROVE  Below(s, u)
<1>1. /\ Len(s) < Len(t) /\ t[Len(s) + 1] = Dot /\ \A k \in 1..Len(s) : s[k] = t[k]
      /\ Len(t) < Len(u) /\ \A k \in 1..Len(t) : t[k] = u[k]
      /\ Len(s) \in Nat /\ Len(t) \in Nat /\ Len(u) \in Nat
  BY BelowByElements
<1>2. Len(s) < Len(u) /\ Len(s) + 1 \in 1..Len(t) /\ \A k \in 1..Len(s) : k \in 1..Len(t)
  BY <1>1
<1> QED BY <1>1, <1>2, BelowByElements

-----------------------------------------------------------------------------
(* Ordered trees.                                                          *)

\* The nodes 1..n in the order of a walk through the tree: P[i] is the parent of i,
\* 0 the root, G[i] its place among its siblings, W[i] its path.
IsWalk(n, P, G, W) ==
  /\ n \in Nat /\ P \in [1..n -> 0..n] /\ G \in [1..n -> Nat] /\ W \in [1..n -> Seq(Nat)]
  /\ \A i \in 1..n : P[i] < i
  /\ \A i, j \in 1..n : i < j /\ P[j] < i => P[j] <= P[i]
  /\ \A i, j \in 1..n : i < j /\ P[i] = P[j] => G[i] < G[j]
  /\ \A i \in 1..n : W[i] = IF P[i] = 0 THEN Numeral[G[i]]
                            ELSE Joined(W[P[i]], Numeral[G[i]])

LEMMA WalkFacts ==
  ASSUME NEW n, NEW P, NEW G, NEW W, IsWalk(n, P, G, W), NEW j \in 1..n
  PROVE  /\ n \in Nat /\ j \in Nat /\ P[j] \in 0..n /\ P[j] \in Nat /\ P[j] < j
         /\ P[j] # 0 => P[j] \in 1..n
         /\ G[j] \in Nat /\ W[j] \in Seq(Nat)
<1>1. n \in Nat /\ j \in Nat /\ P[j] \in 0..n /\ G[j] \in Nat /\ P[j] < j
  BY DEF IsWalk
<1>2. W[j] \in Seq(Nat)
  BY DEF IsWalk
<1> QED BY <1>1, <1>2

LEMMA WalkPaths ==
  ASSUME NEW n, NEW P, NEW G, NEW W, IsWalk(n, P, G, W), NEW j \in 1..n
  PROVE  /\ P[j] = 0 => W[j] = Numeral[G[j]]
         /\ P[j] # 0 => W[j] = Joined(W[P[j]], Numeral[G[j]]) /\ W[P[j]] \in Seq(Nat)
<1>1. P[j] # 0 => W[P[j]] \in Seq(Nat)
  BY WalkFacts
<1> QED BY <1>1 DEF IsWalk

\* Where the last dot of a path is.
LastDot(P, W, j) == IF P[j] = 0 THEN 0 ELSE Len(W[P[j]]) + 1

\* A path is that of the parent, a dot, and a numeral without one.
HasParts(P, G, W, j) ==
  /\ LastDot(P, W, j) \in Nat /\ Len(Numeral[G[j]]) \in Nat \ {0}
  /\ Len(W[j]) = LastDot(P, W, j) + Len(Numeral[G[j]])
  /\ \A k \in 1..Len(Numeral[G[j]]) : /\ W[j][LastDot(P, W, j) + k] = Numeral[G[j]][k]
                                     /\ W[j][LastDot(P, W, j) + k] # Dot
  /\ P[j] # 0 => /\ LastDot(P, W, j) = Len(W[P[j]]) + 1 /\ Len(W[P[j]]) \in Nat
                 /\ W[j][LastDot(P, W, j)] = Dot
                 /\ \A k \in 1..Len(W[P[j]]) : W[j][k] = W[P[j]][k]

LEMMA PathParts ==
  ASSUME NEW n, NEW P, NEW G, NEW W, IsWalk(n, P, G, W), NEW j \in 1..n
  PROVE  HasParts(P, G, W, j)
<1> DEFINE num == Numeral[G[j]]
           w == W[P[j]]
<1>1. /\ num \in Seq(Nat) /\ Len(num) \in Nat \ {0} /\ \A k \in 1..Len(num) : num[k] # Dot
  BY WalkFacts, NumeralFacts
<1>2. CASE P[j] = 0
  <2>1. W[j] = num /\ LastDot(P, W, j) = 0
    BY <1>2, WalkPaths DEF LastDot
  <2>2. \A k \in 1..Len(num) : 0 + k = k
    BY <1>1
  <2> HIDE DEF num, w
  <2> QED BY <1>1, <1>2, <2>1, <2>2 DEF num, HasParts
<1>3. CASE P[j] # 0
  <2>1. w \in Seq(Nat) /\ W[j] = Joined(w, num) /\ LastDot(P, W, j) = Len(w) + 1
    <3>1. w \in Seq(Nat) /\ W[j] = Joined(w, num)
      BY <1>3, WalkPaths
    <3> HIDE DEF num
    <3> QED BY <1>3, <3>1 DEF LastDot
  <2> DEFINE d == LastDot(P, W, j)
  <2> HIDE DEF num, w, d
  <2>2. /\ Len(W[j]) = Len(w) + 1 + Len(num) /\ W[j][Len(w) + 1] = Dot
        /\ \A k \in 1..Len(w) : W[j][k] = w[k]
        /\ \A k \in 1..Len(num) : W[j][Len(w) + 1 + k] = num[k]
        /\ Len(w) \in Nat
    <3>1. /\ Len(Joined(w, num)) = Len(w) + 1 + Len(num) /\ Joined(w, num)[Len(w) + 1] = Dot
          /\ \A k \in 1..Len(w) : Joined(w, num)[k] = w[k]
          /\ \A k \in 1..Len(num) : Joined(w, num)[Len(w) + 1 + k] = num[k]
          /\ Len(w) \in Nat
      BY <1>1, <2>1, JoinFacts
    <3> QED BY <2>1, <3>1
  <2>3. d = Len(w) + 1
    BY <2>1 DEF d
  <2>4. /\ d \in Nat /\ Len(W[j]) = d + Len(num) /\ W[j][d] = Dot
        /\ \A k \in 1..Len(num) : W[j][d + k] = num[k] /\ W[j][d + k] # Dot
    BY <1>1, <2>2, <2>3
  <2> QED BY <1>1, <1>3, <2>2, <2>3, <2>4 DEF num, w, d, HasParts
<1> QED BY <1>2, <1>3

\* No dot comes after the last one.
LEMMA NoLaterDot ==
  ASSUME NEW n, NEW P, NEW G, NEW W, IsWalk(n, P, G, W), NEW j \in 1..n,
         NEW k \in 1..Len(W[j]), W[j][k] = Dot
  PROVE  P[j] # 0 /\ k <= LastDot(P, W, j)
<1> DEFINE d == LastDot(P, W, j)
<1>1. /\ d \in Nat /\ Len(Numeral[G[j]]) \in Nat /\ Len(W[j]) = d + Len(Numeral[G[j]])
      /\ \A m \in 1..Len(Numeral[G[j]]) : W[j][d + m] # Dot
      /\ P[j] = 0 => d = 0
  <2>1. P[j] = 0 => d = 0
    BY DEF LastDot
  <2> HIDE DEF d
  <2>2. HasParts(P, G, W, j)
    BY PathParts
  <2> QED BY <2>1, <2>2 DEF d, HasParts
<1> HIDE DEF d
<1>2. k <= d
  <2> SUFFICES ASSUME d < k PROVE FALSE
    BY <1>1
  <2>1. k - d \in 1..Len(Numeral[G[j]]) /\ d + (k - d) = k
    BY <1>1
  <2> QED BY <1>1, <2>1
<1>3. P[j] # 0
  BY <1>1, <1>2
<1> QED BY <1>2, <1>3 DEF d

\* Different nodes have different paths.
LEMMA PathsApart ==
  ASSUME NEW n, NEW P, NEW G, NEW W, IsWalk(n, P, G, W)
  PROVE  \A i, j \in 1..n : W[i] = W[j] => i = j
<1> DEFINE T == {i \in Nat : i \in 1..n => \A j \in 1..n : W[i] = W[j] => i = j}
<1>1. ASSUME NEW i \in Nat, \A l \in 0..(i - 1) : l \in T, i \in 1..n,
             NEW j \in 1..n, W[i] = W[j]
      PROVE  i = j
  <2>1. /\ P[i] \in Nat /\ P[j] \in Nat /\ P[i] < i /\ P[j] < j /\ G[i] \in Nat /\ G[j] \in Nat
        /\ i \in Nat /\ j \in Nat
        /\ P[i] # 0 => P[i] \in 1..n /\ W[P[i]] \in Seq(Nat)
        /\ P[j] # 0 => P[j] \in 1..n /\ W[P[j]] \in Seq(Nat)
    BY <1>1, WalkFacts, WalkPaths
  <2> DEFINE d == LastDot(P, W, i)
             e == LastDot(P, W, j)
             m == Numeral[G[i]]
             num == Numeral[G[j]]
  <2> HIDE DEF d, e, m, num
  <2>2. /\ d \in Nat /\ Len(m) \in Nat \ {0} /\ m \in Seq(Nat) /\ Len(W[i]) = d + Len(m)
        /\ \A k \in 1..Len(m) : W[i][d + k] = m[k]
        /\ P[i] # 0 => /\ d = Len(W[P[i]]) + 1 /\ W[i][d] = Dot /\ Len(W[P[i]]) \in Nat
                       /\ \A k \in 1..Len(W[P[i]]) : W[i][k] = W[P[i]][k]
    <3>1. Len(m) \in Nat \ {0} /\ m \in Seq(Nat)
      BY <2>1, NumeralFacts DEF m
    <3>2. HasParts(P, G, W, i)
      BY <1>1, PathParts
    <3> QED BY <3>1, <3>2 DEF d, m, HasParts
  <2>3. /\ e \in Nat /\ Len(num) \in Nat \ {0} /\ num \in Seq(Nat) /\ Len(W[i]) = e + Len(num)
        /\ \A k \in 1..Len(num) : W[i][e + k] = num[k]
        /\ P[j] # 0 => /\ e = Len(W[P[j]]) + 1 /\ W[i][e] = Dot /\ Len(W[P[j]]) \in Nat
                       /\ \A k \in 1..Len(W[P[j]]) : W[i][k] = W[P[j]][k]
    <3>1. /\ e \in Nat /\ Len(num) \in Nat \ {0} /\ num \in Seq(Nat) /\ Len(W[j]) = e + Len(num)
          /\ \A k \in 1..Len(num) : W[j][e + k] = num[k]
          /\ P[j] # 0 => /\ e = Len(W[P[j]]) + 1 /\ W[j][e] = Dot /\ Len(W[P[j]]) \in Nat
                         /\ \A k \in 1..Len(W[P[j]]) : W[j][k] = W[P[j]][k]
      <4>1. Len(num) \in Nat \ {0} /\ num \in Seq(Nat)
        BY <2>1, NumeralFacts DEF num
      <4>2. HasParts(P, G, W, j)
        BY PathParts
      <4> QED BY <4>1, <4>2 DEF e, num, HasParts
    <3> QED BY <1>1, <3>1, Zenon
  <2>4. ASSUME P[i] # 0
        PROVE  P[j] # 0 /\ d <= e
    <3>1. d \in 1..Len(W[j]) /\ W[j][d] = Dot
      <4>1. d \in 1..Len(W[i]) /\ W[i][d] = Dot
        BY <2>2, <2>4
      <4> QED BY <1>1, <4>1
    <3>2. P[j] # 0 /\ d <= LastDot(P, W, j)
      BY <3>1, NoLaterDot
    <3> QED BY <3>2 DEF e
  <2>5. ASSUME P[j] # 0
        PROVE  P[i] # 0 /\ e <= d
    <3>1. e \in 1..Len(W[i]) /\ W[i][e] = Dot
      BY <2>3, <2>5
    <3>2. P[i] # 0 /\ e <= LastDot(P, W, i)
      BY <1>1, <3>1, NoLaterDot
    <3> QED BY <3>2 DEF d
  <2>6. d = e
    <3>1. P[i] = 0 => d = 0
      BY DEF d, LastDot
    <3>2. P[j] = 0 => e = 0
      BY DEF e, LastDot
    <3> QED BY <2>2, <2>3, <2>4, <2>5, <3>1, <3>2
  <2>7. G[i] = G[j]
    <3>1. Len(m) = Len(num) /\ \A k \in 1..Len(m) : m[k] = num[k]
      BY <2>2, <2>3, <2>6
    <3>2. m = num
      BY <2>2, <2>3, <3>1, SameElements
    <3> QED BY <2>1, <3>2, NumeralsDiffer DEF m, num
  <2>8. P[i] = P[j]
    <3>1. CASE P[i] = 0
      BY <2>5, <3>1
    <3>2. CASE P[i] # 0
      <4>1. P[j] # 0 /\ Len(W[P[i]]) = Len(W[P[j]])
        <5>1. P[j] # 0
          BY <2>4, <3>2
        <5>2. d = Len(W[P[i]]) + 1 /\ Len(W[P[i]]) \in Nat
          BY <2>2, <3>2
        <5>3. e = Len(W[P[j]]) + 1 /\ Len(W[P[j]]) \in Nat
          BY <2>3, <5>1
        <5>4. \A a, b \in Nat : a + 1 = b + 1 => a = b
          OBVIOUS
        <5>5. Len(W[P[i]]) + 1 = Len(W[P[j]]) + 1
          BY <2>6, <5>2, <5>3, Zenon
        <5> QED BY <5>1, <5>2, <5>3, <5>4, <5>5, Zenon
      <4>2. \A k \in 1..Len(W[P[i]]) : W[P[i]][k] = W[P[j]][k]
        BY <2>2, <2>3, <3>2, <4>1
      <4>3. W[P[i]] = W[P[j]]
        BY <2>1, <3>2, <4>1, <4>2, SameElements
      <4>4. P[i] \in T /\ P[i] \in 1..n /\ P[j] \in 1..n
        <5>1. P[i] \in 0..(i - 1)
          BY <2>1
        <5> HIDE DEF T
        <5> QED BY <1>1, <2>1, <3>2, <4>1, <5>1
      <4> QED BY <4>3, <4>4
    <3> QED BY <3>1, <3>2
  <2>9. \A a, b \in 1..n : a < b /\ P[a] = P[b] => G[a] < G[b]
    BY DEF IsWalk
  <2>10. ~(i < j) /\ ~(j < i)
    BY <1>1, <2>1, <2>7, <2>8, <2>9
  <2> QED BY <2>1, <2>10
<1>2. \A i \in Nat : (\A l \in 0..(i - 1) : l \in T) => i \in T
  BY <1>1
<1>3. \A i \in Nat : i \in T
  <2> HIDE DEF T
  <2> QED BY <1>2, StrongInduction
<1> QED BY <1>3

\* A path is below those of the parent and of what the parent is below, and no others.
LEMMA BelowUnfold ==
  ASSUME NEW n, NEW P, NEW G, NEW W, IsWalk(n, P, G, W), NEW i \in 1..n, NEW j \in 1..n
  PROVE  Below(W[i], W[j]) <=> P[j] # 0 /\ (i = P[j] \/ Below(W[i], W[P[j]]))
<1> DEFINE d == LastDot(P, W, j)
           w == W[P[j]]
<1>1. /\ W[i] \in Seq(Nat) /\ W[j] \in Seq(Nat) /\ Len(W[i]) \in Nat /\ Len(W[j]) \in Nat
      /\ P[j] # 0 => P[j] \in 1..n /\ w \in Seq(Nat)
  <2>1. W[i] \in Seq(Nat)
    BY WalkFacts
  <2>2. W[j] \in Seq(Nat) /\ (P[j] # 0 => P[j] \in 1..n /\ w \in Seq(Nat))
    BY WalkFacts, WalkPaths
  <2> QED BY <2>1, <2>2
<1>2. P[j] # 0 => /\ d = Len(w) + 1 /\ d < Len(W[j]) /\ W[j][Len(w) + 1] = Dot
                  /\ Len(w) \in Nat /\ \A k \in 1..Len(w) : W[j][k] = w[k]
  <2>1. /\ d \in Nat /\ Len(Numeral[G[j]]) \in Nat \ {0} /\ Len(W[j]) = d + Len(Numeral[G[j]])
        /\ P[j] # 0 => /\ d = Len(w) + 1 /\ W[j][d] = Dot /\ Len(w) \in Nat
                       /\ \A k \in 1..Len(w) : W[j][k] = w[k]
    <3>1. HasParts(P, G, W, j)
      BY PathParts
    <3> QED BY <3>1 DEF HasParts
  <2> HIDE DEF d, w
  <2> QED BY <2>1
<1>3. P[j] # 0 => Below(w, W[j])
  <2> SUFFICES ASSUME P[j] # 0 PROVE Below(w, W[j])
    OBVIOUS
  <2> HIDE DEF d, w
  <2>1. Len(w) < Len(W[j])
    BY <1>1, <1>2
  <2> QED BY <1>1, <1>2, <2>1, BelowByElements
<1>4. ASSUME P[j] # 0, i = P[j] \/ Below(W[i], w)
      PROVE  Below(W[i], W[j])
  <2>1. CASE i = P[j]
    BY <1>3, <1>4, <2>1
  <2>2. CASE Below(W[i], w)
    <3> HIDE DEF w
    <3> QED BY <1>1, <1>3, <1>4, <2>2, BelowTransitive
  <2> QED BY <1>4, <2>1, <2>2
<1>5. ASSUME Below(W[i], W[j])
      PROVE  P[j] # 0 /\ (i = P[j] \/ Below(W[i], w))
  <2> DEFINE k == Len(W[i])
  <2>1. /\ k < Len(W[j]) /\ W[j][k + 1] = Dot /\ k \in Nat
        /\ \A m \in 1..k : W[i][m] = W[j][m]
    BY <1>1, <1>5, BelowByElements
  <2>2. P[j] # 0 /\ k + 1 <= d
    <3>1. k + 1 \in 1..Len(W[j])
      BY <1>1, <2>1
    <3> HIDE DEF k
    <3> QED BY <2>1, <3>1, NoLaterDot
  <2> HIDE DEF w, d
  <2>3. CASE k = Len(w)
    <3>1. W[i] = w
      <4>1. \A m \in 1..Len(W[i]) : W[i][m] = w[m]
        BY <1>2, <2>1, <2>2, <2>3
      <4> QED BY <1>1, <2>2, <2>3, <4>1, SameElements
    <3>2. i = P[j]
      BY <1>1, <2>2, <3>1, PathsApart DEF w
    <3> QED BY <2>2, <3>2
  <2>4. CASE k < Len(w)
    <3>1. w[k + 1] = Dot /\ \A m \in 1..k : W[i][m] = w[m]
      <4>1. k + 1 \in 1..Len(w) /\ \A m \in 1..k : m \in 1..Len(w)
        BY <1>2, <2>1, <2>2, <2>4
      <4> HIDE DEF k
      <4> QED BY <1>2, <2>1, <2>2, <4>1
    <3> QED BY <1>1, <2>2, <2>4, <3>1, BelowByElements
  <2>5. k = Len(w) \/ k < Len(w)
    <3> HIDE DEF k
    <3> QED BY <1>2, <2>1, <2>2
  <2> QED BY <2>3, <2>4, <2>5
<1> QED BY <1>4, <1>5

\* A[j] are the positions, counted from 0, of the ancestors of every node j.
IsAncestry(n, P, A) ==
  \A j \in 1..n : A[j] = IF P[j] = 0 THEN {} ELSE {P[j] - 1} \cup A[P[j]]

LEMMA AncestryUnfold ==
  ASSUME NEW n, NEW P, NEW G, NEW W, NEW A, IsWalk(n, P, G, W), IsAncestry(n, P, A),
         NEW i \in 1..n, NEW j \in 1..n
  PROVE  i - 1 \in A[j] <=> P[j] # 0 /\ (i = P[j] \/ i - 1 \in A[P[j]])
<1>1. P[j] \in Int /\ i \in Int
  BY WalkFacts
<1>2. i - 1 = P[j] - 1 <=> i = P[j]
  BY <1>1
<1> QED BY <1>2 DEF IsAncestry

\* The paths below that of a node are those of the nodes below it.
LEMMA WalkNests ==
  ASSUME NEW n, NEW P, NEW G, NEW W, NEW A, IsWalk(n, P, G, W), IsAncestry(n, P, A),
         NEW i \in 1..n
  PROVE  \A j \in 1..n : /\ i - 1 \in A[j] => i < j
                         /\ Below(W[i], W[j]) <=> i - 1 \in A[j]
<1> DEFINE T == {j \in Nat : j \in 1..n => /\ i - 1 \in A[j] => i < j
                                           /\ Below(W[i], W[j]) <=> i - 1 \in A[j]}
<1>1. ASSUME NEW j \in Nat, \A l \in 0..(j - 1) : l \in T, j \in 1..n
      PROVE  /\ i - 1 \in A[j] => i < j
             /\ Below(W[i], W[j]) <=> i - 1 \in A[j]
  <2>1. P[j] \in Nat /\ P[j] < j /\ i \in Nat /\ (P[j] # 0 => P[j] \in 1..n)
    BY <1>1, WalkFacts
  <2>2. P[j] # 0 => P[j] \in T /\ P[j] \in 1..n
    <3>1. P[j] \in 0..(j - 1)
      BY <1>1, <2>1
    <3> HIDE DEF T
    <3> QED BY <1>1, <2>1, <3>1
  <2>3. P[j] # 0 => /\ i - 1 \in A[P[j]] => i < P[j]
                    /\ Below(W[i], W[P[j]]) <=> i - 1 \in A[P[j]]
    BY <2>2
  <2>4. Below(W[i], W[j]) <=> P[j] # 0 /\ (i = P[j] \/ Below(W[i], W[P[j]]))
    BY <1>1, BelowUnfold
  <2>5. i - 1 \in A[j] <=> P[j] # 0 /\ (i = P[j] \/ i - 1 \in A[P[j]])
    BY <1>1, AncestryUnfold
  <2>6. i - 1 \in A[j] => i <= P[j]
    BY <2>1, <2>3, <2>5
  <2>7. i - 1 \in A[j] => i < j
    BY <1>1, <2>1, <2>6
  <2> QED BY <2>3, <2>4, <2>5, <2>7
<1>2. \A j \in Nat : (\A l \in 0..(j - 1) : l \in T) => j \in T
  BY <1>1
<1>3. \A j \in Nat : j \in T
  <2> HIDE DEF T
  <2> QED BY <1>2, StrongInduction
<1> QED BY <1>3

\* The nodes between a node and one below it are below it too.
LEMMA SubtreeInOnePiece ==
  ASSUME NEW n, NEW P, NEW G, NEW W, NEW A, IsWalk(n, P, G, W), IsAncestry(n, P, A),
         NEW i \in 1..n
  PROVE  \A j \in 1..n : i - 1 \in A[j] => \A k \in (i + 1)..j : i - 1 \in A[k]
<1> DEFINE Whole(j) == \A k \in (i + 1)..j : i - 1 \in A[k]
           T == {j \in Nat : j \in 1..n /\ i - 1 \in A[j] => Whole(j)}
<1>1. ASSUME NEW j \in Nat, \A l \in 0..(j - 1) : l \in T, j \in 1..n, i - 1 \in A[j]
      PROVE  Whole(j)
  <2>1. /\ P[j] \in Nat /\ P[j] < j /\ P[j] # 0 /\ i \in Nat /\ n \in Nat
        /\ P[j] \in 1..n /\ (i = P[j] \/ i - 1 \in A[P[j]])
    <3>1. P[j] # 0 /\ (i = P[j] \/ i - 1 \in A[P[j]])
      BY <1>1, AncestryUnfold
    <3> QED BY <1>1, <3>1, WalkFacts
  <2>2. i <= P[j]
    BY <2>1, WalkNests
  <2>3. \A k \in (i + 1)..P[j] : i - 1 \in A[k]
    <3>1. CASE i = P[j]
      BY <2>1, <3>1
    <3>2. CASE i - 1 \in A[P[j]]
      <4>1. P[j] \in T /\ P[j] \in 1..n
        <5>1. P[j] \in 0..(j - 1)
          BY <1>1, <2>1
        <5> HIDE DEF T
        <5> QED BY <1>1, <2>1, <5>1
      <4> QED BY <3>2, <4>1
    <3> QED BY <2>1, <3>1, <3>2
  <2> DEFINE S == {k \in Nat : k \in (i + 1)..j => i - 1 \in A[k]}
  <2>4. ASSUME NEW k \in Nat, \A l \in 0..(k - 1) : l \in S, k \in (i + 1)..j
        PROVE  i - 1 \in A[k]
    <3>1. CASE k <= P[j]
      BY <2>1, <2>3, <2>4, <3>1
    <3>2. CASE k = j
      BY <1>1, <3>2
    <3>3. CASE P[j] < k /\ k < j
      <4>1. k \in 1..n
        BY <1>1, <2>1, <2>4
      <4>2. P[j] <= P[k] /\ P[k] \in Nat /\ P[k] < k
        BY <1>1, <3>3, <4>1, WalkFacts DEF IsWalk
      <4>3. P[k] # 0 /\ i <= P[k]
        BY <2>1, <2>2, <4>2
      <4>4. i = P[k] \/ i - 1 \in A[P[k]]
        <5> SUFFICES ASSUME i # P[k] PROVE i - 1 \in A[P[k]]
          OBVIOUS
        <5>1. P[k] \in 0..(k - 1) /\ P[k] \in (i + 1)..j
          BY <2>1, <2>4, <4>2, <4>3
        <5>2. P[k] \in S
          <6> HIDE DEF S
          <6> QED BY <2>4, <5>1
        <5> QED BY <5>1, <5>2
      <4> QED BY <4>1, <4>3, <4>4, AncestryUnfold
    <3> QED BY <1>1, <2>1, <2>4, <3>1, <3>2, <3>3
  <2>5. \A k \in Nat : k \in S
    <3>1. \A k \in Nat : (\A l \in 0..(k - 1) : l \in S) => k \in S
      BY <2>4
    <3> HIDE DEF S
    <3> QED BY <3>1, StrongInduction
  <2> QED BY <2>1, <2>5
<1>2. \A j \in Nat : j \in T
  <2>1. \A j \in Nat : (\A l \in 0..(j - 1) : l \in T) => j \in T
    <3> HIDE DEF Whole
    <3> QED BY <1>1
  <2> HIDE DEF T
  <2> QED BY <2>1, StrongInduction
<1> QED BY <1>2

\* Nodes whose parents are node i or among them are all below node i.
LEMMA WalkBelow ==
  ASSUME NEW n, NEW P, NEW G, NEW W, IsWalk(n, P, G, W), NEW i \in 1..n,
         NEW S \in SUBSET (1..n), \A j \in S : P[j] = i \/ P[j] \in S
  PROVE  \A j \in S : Below(W[i], W[j])
<1> DEFINE T == {j \in Nat : j \in S => Below(W[i], W[j])}
<1>1. ASSUME NEW j \in Nat, \A l \in 0..(j - 1) : l \in T, j \in S
      PROVE  Below(W[i], W[j])
  <2>1. j \in 1..n /\ P[j] \in Nat /\ P[j] < j /\ (P[j] = i \/ P[j] \in S)
    BY <1>1, WalkFacts
  <2>2. P[j] # 0 /\ i \in Nat /\ i # 0
    BY <2>1, WalkFacts
  <2>3. P[j] \in S => Below(W[i], W[P[j]])
    <3>1. P[j] \in 0..(j - 1)
      BY <1>1, <2>1
    <3>2. P[j] \in T
      <4> HIDE DEF T
      <4> QED BY <1>1, <3>1
    <3> QED BY <3>2
  <2> QED BY <2>1, <2>2, <2>3, BelowUnfold
<1>2. \A j \in Nat : (\A l \in 0..(j - 1) : l \in T) => j \in T
  BY <1>1
<1>3. \A j \in Nat : j \in T
  <2> HIDE DEF T
  <2> QED BY <1>2, StrongInduction
<1> QED BY <1>3

-----------------------------------------------------------------------------
(* The nodes.                                                              *)

LEMMA InitIInv == Init => IInv
<1> SUFFICES ASSUME Init PROVE IInv
    OBVIOUS
<1> USE InputAssumption DEF Init, MergeInit
<1>1. TypeOK
  BY DEF TypeOK, None, Levels, Items, ParsedNodes
<1>2. PositionsAreReadingOrder /\ HeadingsNest /\ ContentUnderLastHeading
  BY DEF PositionsAreReadingOrder, HeadingsNest, ContentUnderLastHeading
<1>3. StackKnowsLast
  <2> SUFFICES ASSUME NEW depth \in 1..(MaxDepth + 1), NEW parent \in None..(position - 1),
                      IsNearest(parent, depth)
               PROVE  IsLast(parent, {p \in Headings(position) : At(p).level < depth})
      BY DEF StackKnowsLast
  <2>1. parent = None
    BY DEF None
  <2>2. Headings(position) = {}
    BY DEF Headings
  <2> QED BY <2>1, <2>2 DEF IsLast
<1> QED BY <1>1, <1>2, <1>3 DEF IInv

\* Steps that leave the tree alone.
LEMMA TreeStays ==
  ASSUME IInv, UNCHANGED <<position, stack, nodes>>, TypeOK'
  PROVE  IInv'
<1>1. PositionsAreReadingOrder'
  BY DEF IInv, PositionsAreReadingOrder
<1>2. StackKnowsLast'
  <2>1. StackKnowsLast
    BY DEF IInv
  <2>2. StackKnowsLast' <=> StackKnowsLast
    BY ONLY UNCHANGED <<position, stack, nodes>>
       DEF StackKnowsLast, IsNearest, IsLast, Headings, At
  <2> QED BY <2>1, <2>2
<1>3. HeadingsNest' /\ ContentUnderLastHeading'
  <2>1. HeadingsNest /\ ContentUnderLastHeading
    BY DEF IInv
  <2>2. /\ HeadingsNest' <=> HeadingsNest
        /\ ContentUnderLastHeading' <=> ContentUnderLastHeading
    BY ONLY UNCHANGED <<position, stack, nodes>>
       DEF HeadingsNest, ContentUnderLastHeading, NestsAt, IsContentAt, IsLast, Headings, At
  <2> QED BY <2>1, <2>2
<1> QED BY <1>1, <1>2, <1>3 DEF IInv

\* The merge leaves the nodes alone and puts only well-formed items into the
\* stream (hierarchy_builder.py:274-343).
LEMMA MergeKeepsItems ==
  ASSUME IInv, Merge
  PROVE  IInv'
<1> USE InputAssumption DEF Merge, build, IsInput
<1> TypeOK
  BY DEF IInv
<1>0. UNCHANGED <<item, position, stack, nodes, paths>> /\ UNCHANGED input
  BY DEF MergeStep, InsertTable, InsertBlock, SkipBlock, InsertLeftover, EndOfMerge
<1>1. \A i \in DOMAIN blocks : IsBlock(blocks[i])
  BY DEF TypeOK, blocks
<1>2. \A t \in DOMAIN tables : TableItem(t) \in Items /\ TableItem(t).kind = "table"
  BY DEF TypeOK, tables, TableItem, Items
<1>3. \A i \in DOMAIN blocks : blocks[i].kind # "skipped" =>
        /\ BlockItem(i) \in Items
        /\ BlockItem(i).kind = "heading" => BlockItem(i).level # 0
  <2> TAKE i \in DOMAIN blocks
  <2> HAVE blocks[i].kind # "skipped"
  <2>1. i \in Nat /\ MaxDepth \in Nat
    BY DEF TypeOK, blocks
  <2> HIDE InputAssumption
  <2> QED BY <1>1, <2>1 DEF IsBlock, BlockItem, Items, Kinds
<1>4. TypeOK'
  <2>1. next' \in Nat \ {0} /\ phase' \in {"merge", "build", "paths", "done"}
    BY DEF TypeOK, MergeStep, InsertTable, InsertBlock, SkipBlock, InsertLeftover, EndOfMerge
  <2>2. \/ stream' = stream
        \/ \E x \in Items : /\ x.kind = "heading" => x.level # 0
                            /\ stream' = Append(stream, x)
    <3>1. CASE InsertTable
      BY <3>1, <1>2 DEF InsertTable, DueBefore
    <3>2. CASE InsertBlock
      <4>1. next \in DOMAIN blocks
        BY <3>2 DEF InsertBlock, TypeOK, blocks
      <4> QED BY <4>1, <3>2, <1>3 DEF InsertBlock
    <3>3. CASE InsertLeftover
      BY <3>3, <1>2 DEF InsertLeftover, Leftover
    <3> QED BY <3>1, <3>2, <3>3 DEF MergeStep, SkipBlock, EndOfMerge
  <2>3. /\ stream' \in Seq(Items)
        /\ \A i \in DOMAIN stream' : stream'[i].kind = "heading" => stream'[i].level # 0
    <3>1. CASE stream' = stream
      BY <3>1 DEF TypeOK
    <3>2. ASSUME NEW x \in Items, x.kind = "heading" => x.level # 0,
                 stream' = Append(stream, x)
          PROVE  /\ stream' \in Seq(Items)
                 /\ \A i \in DOMAIN stream' :
                      stream'[i].kind = "heading" => stream'[i].level # 0
      <4>1. stream \in Seq(Items)
        BY DEF TypeOK
      <4>2. /\ Len(stream') = Len(stream) + 1 /\ stream'[Len(stream) + 1] = x
            /\ \A i \in 1..Len(stream) : stream'[i] = stream[i]
            /\ stream' \in Seq(Items)
        BY <3>2, <4>1
      <4> QED BY <3>2, <4>1, <4>2 DEF TypeOK
    <3> QED BY <2>2, <3>1, <3>2
  <2> QED BY <1>0, <2>1, <2>3 DEF TypeOK
<1> QED BY <1>0, <1>4, TreeStays

-----------------------------------------------------------------------------
\* What the steps of the main loop have in common: the list only grows.
Grows == /\ nodes' \in Seq(ParsedNodes)
         /\ Len(nodes) <= Len(nodes')
         /\ \A i \in 1..Len(nodes) : nodes'[i] = nodes[i]

LEMMA EarlierNodesStay ==
  ASSUME IInv, Grows
  PROVE  /\ \A p \in 0..(Len(nodes) - 1) : At(p)' = At(p)
         /\ \A n \in 0..Len(nodes) : Headings(n)' = Headings(n)
<1>1. nodes \in Seq(ParsedNodes)
  BY DEF IInv, TypeOK
<1>2. \A p \in 0..(Len(nodes) - 1) : At(p)' = At(p)
  BY <1>1 DEF Grows, At
<1>3. ASSUME NEW n \in 0..Len(nodes) PROVE Headings(n)' = Headings(n)
  BY <1>1, <1>2 DEF Headings
<1> QED BY <1>2, <1>3

LEMMA EarlierNodesStayRight ==
  ASSUME IInv, Grows, NEW i \in 1..Len(nodes)
  PROVE  NestsAt(i)' /\ IsContentAt(i)'
<1>1. nodes \in Seq(ParsedNodes) /\ nodes'[i] = nodes[i] /\ Len(nodes) \in Nat
  BY DEF IInv, TypeOK, Grows
<1>2. Headings(i - 1)' = Headings(i - 1)
  BY <1>1, EarlierNodesStay
<1>3. \A p \in Headings(i - 1) : At(p)' = At(p)
  BY <1>1, EarlierNodesStay DEF Headings
<1>4. \A p \in 0..(i - 2) : At(p)' = At(p)
  BY <1>1, EarlierNodesStay
<1>5. NestsAt(i) /\ IsContentAt(i)
  BY <1>1 DEF IInv, HeadingsNest, ContentUnderLastHeading
<1>6. NestsAt(i)'
  <2>1. {p \in Headings(i - 1) : At(p).level < nodes[i].level}'
          = {p \in Headings(i - 1) : At(p).level < nodes[i].level}
    BY <1>1, <1>2, <1>3
  <2> QED BY <1>1, <1>5, <2>1 DEF NestsAt, IsLast
<1>7. IsContentAt(i)'
  <2>1. {p \in 0..(i - 2) : At(p).kind = "list"}' = {p \in 0..(i - 2) : At(p).kind = "list"}
    BY <1>4
  <2> QED BY <1>1, <1>2, <1>5, <2>1 DEF IsContentAt, IsLast
<1> QED BY <1>6, <1>7

\* A stack that no heading has touched keeps what it knows.
LEMMA StackStays ==
  ASSUME IInv, Grows, UNCHANGED stack, position' = Len(nodes'),
         \A i \in (Len(nodes) + 1)..Len(nodes') : nodes'[i].level = 0
  PROVE  StackKnowsLast'
<1>1. /\ nodes \in Seq(ParsedNodes) /\ nodes' \in Seq(ParsedNodes)
      /\ Len(nodes) \in Nat /\ Len(nodes') \in Nat /\ position = Len(nodes)
      /\ stack \in [Levels -> None..(position - 1)]
  BY DEF IInv, TypeOK, Grows, PositionsAreReadingOrder
<1>2. Headings(position)' = Headings(position)
  <2>1. \A p \in position..(position' - 1) : nodes'[p + 1].level = 0
    BY <1>1
  <2>2. \A p \in 0..(position - 1) : At(p)' = At(p)
    BY <1>1, EarlierNodesStay
  <2>3. position <= position'
    BY <1>1 DEF Grows
  <2>4. \A p \in 0..(position - 1) : nodes'[p + 1] = nodes[p + 1]
    BY <2>2 DEF At
  <2> QED BY <1>1, <2>1, <2>3, <2>4 DEF Headings, At
<1>3. \A p \in Headings(position) : At(p)' = At(p)
  BY <1>1, EarlierNodesStay DEF Headings
<1>4. SUFFICES ASSUME NEW depth \in 1..(MaxDepth + 1), NEW parent \in None..(position' - 1),
                      IsNearest(parent, depth)'
               PROVE  IsLast(parent, {p \in Headings(position) : At(p).level < depth})
  <2>1. ASSUME NEW depth \in 1..(MaxDepth + 1)
        PROVE  {p \in Headings(position) : At(p).level < depth}'
                 = {p \in Headings(position) : At(p).level < depth}
    BY <1>2, <1>3
  <2> QED BY <2>1 DEF StackKnowsLast, IsLast
<1>5. IsNearest(parent, depth) /\ parent \in None..(position - 1)
  BY <1>1, <1>4, InputAssumption DEF IsNearest, Levels, None
<1> QED BY <1>5 DEF IInv, StackKnowsLast

\* The list gets one more node.
LEMMA OneMore ==
  ASSUME IInv, NEW n \in ParsedNodes, nodes' = Append(nodes, n)
  PROVE  Grows /\ Len(nodes') = Len(nodes) + 1 /\ nodes'[Len(nodes) + 1] = n
BY DEF IInv, TypeOK, Grows

LEMMA PlainStep == IInv /\ AddPlain => IInv'
<1> SUFFICES ASSUME IInv, AddPlain PROVE IInv'
    OBVIOUS
<1>1. /\ nodes \in Seq(ParsedNodes) /\ Len(nodes) \in Nat /\ position = Len(nodes)
      /\ stack \in [Levels -> None..(position - 1)] /\ position \in Nat /\ MaxDepth \in Nat
  BY InputAssumption DEF IInv, TypeOK, PositionsAreReadingOrder
<1> PICK parent \in Parents :
      /\ IsCurrentParent(parent)
      /\ nodes' = Append(nodes, Node(Current.kind, 0, position, parent, Current.src))
  BY DEF AddPlain
<1> DEFINE n == Node(Current.kind, 0, position, parent, Current.src)
<1>2. n \in ParsedNodes /\ n.kind \in {"paragraph", "table"} /\ n.level = 0
      /\ n.pos = position /\ n.parent = parent
  <2>1. Current \in Items
    BY DEF AddPlain, Handle, Current, IInv, TypeOK
  <2> QED BY <1>1, <2>1 DEF AddPlain, Handle, Node, ParsedNodes, Parents, Kinds, None, Items
<1>3. Grows /\ Len(nodes') = Len(nodes) + 1 /\ nodes'[Len(nodes) + 1] = n
  BY <1>2, OneMore
<1> HIDE DEF n
<1>4. TypeOK'
  <2>1. /\ UNCHANGED <<phase, input, next, stream, stack, paths>>
        /\ item' = item + 1 /\ position' = position + 1
    BY DEF AddPlain, Handle, merge
  <2>2. stack' \in [Levels -> None..(Len(nodes') - 1)]
    BY <1>1, <1>3, <2>1 DEF IInv, TypeOK, Levels, None
  <2> QED BY <1>1, <1>3, <2>1, <2>2 DEF IInv, TypeOK, Grows, blocks, tables
<1>5. PositionsAreReadingOrder'
  <2>1. DOMAIN nodes' = 1..(position + 1) /\ position' = Len(nodes')
    BY <1>1, <1>3 DEF AddPlain, Grows
  <2>2. \A i \in 1..position : nodes'[i].pos = i - 1 /\ nodes'[i].parent < i - 1
    <3>1. \A i \in 1..position : nodes[i].pos = i - 1 /\ nodes[i].parent < i - 1
      BY <1>1 DEF IInv, PositionsAreReadingOrder
    <3>2. \A i \in 1..position : nodes'[i] = nodes[i]
      BY <1>1, <1>3 DEF Grows
    <3> QED BY <3>1, <3>2
  <2>3. nodes'[position + 1].pos = position /\ nodes'[position + 1].parent < position
    BY <1>1, <1>2, <1>3 DEF Parents, None
  <2> QED BY <1>1, <2>1, <2>2, <2>3 DEF PositionsAreReadingOrder
<1>6. StackKnowsLast'
  BY <1>1, <1>2, <1>3, StackStays DEF AddPlain
<1>7. IsLast(parent, Headings(position))
  <2>1. IsLast(parent, {p \in Headings(position) : At(p).level < MaxDepth + 1})
    BY <1>1 DEF IInv, StackKnowsLast, IsCurrentParent, Parents
  <2>2. \A p \in Headings(position) : At(p).level < MaxDepth + 1
    <3>1. ASSUME NEW p \in Headings(position) PROVE nodes[p + 1] \in ParsedNodes
      BY <1>1 DEF Headings
    <3> QED BY <1>1, <3>1 DEF At, ParsedNodes
  <2>3. {p \in Headings(position) : At(p).level < MaxDepth + 1} = Headings(position)
    BY <2>2
  <2> QED BY <2>1, <2>3
<1>8. ASSUME NEW i \in Nat, i = position + 1 PROVE NestsAt(i)' /\ IsContentAt(i)'
  <2>1. Headings(i - 1)' = Headings(position)
    BY <1>1, <1>3, <1>8, EarlierNodesStay
  <2>2. nodes'[i] = n
    BY <1>1, <1>3, <1>8
  <2> QED BY <1>2, <1>7, <2>1, <2>2 DEF NestsAt, IsContentAt, IsLast
<1>9. HeadingsNest' /\ ContentUnderLastHeading'
  <2>1. ASSUME NEW i \in DOMAIN nodes' PROVE NestsAt(i)' /\ IsContentAt(i)'
    <3>1. i \in 1..Len(nodes) \/ i = position + 1
      BY <1>1, <1>3 DEF Grows
    <3> QED BY <1>1, <1>3, <1>8, <3>1, EarlierNodesStayRight
  <2> QED BY <2>1 DEF HeadingsNest, ContentUnderLastHeading
<1> QED BY <1>4, <1>5, <1>6, <1>9 DEF IInv

LEMMA HeadingStep == IInv /\ AddHeading => IInv'
<1> SUFFICES ASSUME IInv, AddHeading PROVE IInv'
    OBVIOUS
<1>1. /\ nodes \in Seq(ParsedNodes) /\ Len(nodes) \in Nat /\ position = Len(nodes)
      /\ stack \in [Levels -> None..(position - 1)] /\ position \in Nat
      /\ MaxDepth \in Nat \ {0}
  BY InputAssumption DEF IInv, TypeOK, PositionsAreReadingOrder
<1> DEFINE level == Current.level
<1>2. level \in 1..MaxDepth
  <2>1. Current \in Items /\ Current.level # 0
    BY DEF AddHeading, Handle, Current, IInv, TypeOK
  <2> QED BY <1>1, <2>1 DEF Items
<1> PICK parent \in Parents :
      /\ IsNearest(parent, level)
      /\ nodes' = Append(nodes, Node("heading", level, position, parent, Current.src))
  BY DEF AddHeading
<1> DEFINE n == Node("heading", level, position, parent, Current.src)
<1>3. n \in ParsedNodes /\ n.kind = "heading" /\ n.level = level
      /\ n.pos = position /\ n.parent = parent
  <2>1. Current \in Items
    BY DEF AddHeading, Handle, Current, IInv, TypeOK
  <2> QED BY <1>1, <1>2, <2>1 DEF Node, ParsedNodes, Parents, Kinds, None, Items
<1>4. Grows /\ Len(nodes') = Len(nodes) + 1 /\ nodes'[Len(nodes) + 1] = n
  BY <1>3, OneMore
<1> HIDE DEF n
<1>5. /\ stack' = [l \in Levels |-> IF l < level THEN stack[l]
                                    ELSE IF l = level THEN position ELSE None]
      /\ position' = position + 1
  BY DEF AddHeading, Open
<1> HIDE DEF level
<1>6. TypeOK'
  <2>1. stack' \in [Levels -> None..(Len(nodes') - 1)]
    BY <1>1, <1>4, <1>5 DEF Levels, None
  <2> QED BY <1>1, <1>4, <1>5, <2>1
          DEF AddHeading, Handle, IInv, TypeOK, Grows, merge
<1>7. PositionsAreReadingOrder'
  <2>1. DOMAIN nodes' = 1..(position + 1) /\ position' = Len(nodes')
    BY <1>1, <1>4, <1>5 DEF Grows
  <2>2. \A i \in 1..position : nodes'[i].pos = i - 1 /\ nodes'[i].parent < i - 1
    <3>1. \A i \in 1..position : nodes[i].pos = i - 1 /\ nodes[i].parent < i - 1
      BY <1>1 DEF IInv, PositionsAreReadingOrder
    <3>2. \A i \in 1..position : nodes'[i] = nodes[i]
      BY <1>1, <1>4 DEF Grows
    <3> QED BY <3>1, <3>2
  <2>3. nodes'[position + 1].pos = position /\ nodes'[position + 1].parent < position
    BY <1>1, <1>3, <1>4 DEF Parents, None
  <2> QED BY <1>1, <2>1, <2>2, <2>3 DEF PositionsAreReadingOrder
<1>8. /\ \A p \in 0..(position - 1) : nodes'[p + 1] = nodes[p + 1]
      /\ nodes'[position + 1].level = level
  BY <1>1, <1>3, <1>4 DEF Grows
<1>9. ASSUME NEW depth \in 1..(MaxDepth + 1), NEW par \in None..position,
             IsNearest(par, depth)'
      PROVE  IsLast(par, {p \in Headings(position) : At(p).level < depth}')
  <2>1. CASE depth <= level
    <3>1. \A l \in 1..(depth - 1) : l \in Levels /\ stack'[l] = stack[l]
      BY <1>1, <1>2, <1>5, <2>1 DEF Levels
    <3>2. IsNearest(par, depth) /\ par \in None..(position - 1)
      <4>1. CASE par = None /\ \A l \in 1..(depth - 1) : stack'[l] = None
        <5>1. \A l \in 1..(depth - 1) : stack[l] = None
          BY <3>1, <4>1
        <5>2. par \in None..(position - 1)
          BY <1>1, <4>1 DEF None
        <5> QED BY <4>1, <5>1, <5>2 DEF IsNearest
      <4>2. ASSUME NEW l \in 1..(depth - 1), par = stack'[l], stack'[l] # None,
                   \A m \in (l + 1)..(depth - 1) : stack'[m] = None
            PROVE  IsNearest(par, depth) /\ par \in None..(position - 1)
        <5>1. \A m \in (l + 1)..(depth - 1) : m \in 1..(depth - 1)
          BY <4>2
        <5>2. par = stack[l] /\ stack[l] # None /\ l \in Levels
              /\ \A m \in (l + 1)..(depth - 1) : stack[m] = None
          BY <3>1, <4>2, <5>1
        <5> QED BY <1>1, <4>2, <5>2 DEF IsNearest
      <4> QED BY <1>9, <4>1, <4>2 DEF IsNearest
    <3>3. {p \in Headings(position) : At(p).level < depth}'
            = {p \in Headings(position) : At(p).level < depth}
      BY <1>1, <1>2, <1>5, <1>8, <2>1 DEF Headings, At
    <3> QED BY <3>2, <3>3 DEF IInv, StackKnowsLast
  <2>2. CASE depth > level
    <3>1. /\ level \in Levels /\ stack'[level] = position
          /\ \A m \in (level + 1)..(depth - 1) : stack'[m] = None
          /\ level \in 1..(depth - 1)
      BY <1>1, <1>2, <1>5, <2>2 DEF Levels
    <3>2. par = position
      BY <1>1, <1>2, <1>9, <3>1 DEF IsNearest, None
    <3>3. position \in {p \in Headings(position) : At(p).level < depth}'
      BY <1>1, <1>2, <1>5, <1>8, <2>2 DEF Headings, At
    <3>4. \A q \in {p \in Headings(position) : At(p).level < depth}' : q <= position
      BY <1>1, <1>5 DEF Headings
    <3> QED BY <3>2, <3>3, <3>4 DEF IsLast
  <2> QED BY <1>1, <1>2, <2>1, <2>2
<1>10. StackKnowsLast'
  <2>1. position' - 1 = position
    BY <1>1, <1>5
  <2>2. ASSUME NEW depth \in 1..(MaxDepth + 1), NEW par \in None..position,
               IsNearest(par, depth)'
        PROVE  IsLast(par, {p \in Headings(position) : At(p).level < depth})'
    BY <1>9, <2>2 DEF IsLast
  <2> QED BY <2>1, <2>2 DEF StackKnowsLast, None
<1>11. ASSUME NEW i \in Nat, i = position + 1 PROVE NestsAt(i)' /\ IsContentAt(i)'
  <2>1. Headings(i - 1)' = Headings(position) /\ nodes'[i] = n
    BY <1>1, <1>4, <1>11, EarlierNodesStay
  <2>2. IsLast(parent, {p \in Headings(position) : At(p).level < level})
    BY <1>1, <1>2 DEF IInv, StackKnowsLast, Parents
  <2>3. \A p \in Headings(position) : At(p)' = At(p)
    BY <1>1, <1>4, EarlierNodesStay DEF Headings
  <2>4. {p \in Headings(i - 1) : At(p).level < nodes[i].level}'
          = {p \in Headings(position) : At(p).level < level}
    BY <1>3, <2>1, <2>3
  <2> QED BY <1>3, <2>1, <2>2, <2>4 DEF NestsAt, IsContentAt, IsLast
<1>12. HeadingsNest' /\ ContentUnderLastHeading'
  <2>1. ASSUME NEW i \in DOMAIN nodes' PROVE NestsAt(i)' /\ IsContentAt(i)'
    <3>1. i \in 1..Len(nodes) \/ i = position + 1
      BY <1>1, <1>4 DEF Grows
    <3> QED BY <1>1, <1>4, <1>11, <3>1, EarlierNodesStayRight
  <2> QED BY <2>1 DEF HeadingsNest, ContentUnderLastHeading
<1> QED BY <1>6, <1>7, <1>10, <1>12 DEF IInv

\* A sequence, one more element and another sequence, put together.
LEMMA ThreeParts ==
  ASSUME NEW S, NEW s \in Seq(S), NEW x \in S, NEW t \in Seq(S), NEW r, r = s \o <<x>> \o t
  PROVE  /\ r \in Seq(S) /\ Len(r) = Len(s) + 1 + Len(t)
         /\ \A i \in 1..Len(s) : r[i] = s[i]
         /\ r[Len(s) + 1] = x
         /\ \A i \in 1..Len(t) : r[Len(s) + 1 + i] = t[i]
<1> DEFINE u == s \o <<x>>
<1>1. u \in Seq(S) /\ Len(u) = Len(s) + 1 /\ u[Len(s) + 1] = x
      /\ \A i \in 1..Len(s) : u[i] = s[i]
  OBVIOUS
<1>2. r = u \o t
  OBVIOUS
<1> HIDE DEF u
<1>3. r \in Seq(S) /\ Len(r) = Len(u) + Len(t)
      /\ (\A i \in 1..Len(u) : r[i] = u[i]) /\ \A i \in 1..Len(t) : r[Len(u) + i] = t[i]
  BY <1>1, <1>2
<1> QED BY <1>1, <1>3

\* What _expand_list adds, node by node.
LEMMA ListNodes ==
  ASSUME IInv, AddList
  PROVE  \E parent \in Parents, count \in Nat :
           /\ IsCurrentParent(parent)
           /\ count = Current.size
           /\ position' = position + count + 1
           /\ nodes' \in Seq(ParsedNodes) /\ Len(nodes') = position + count + 1
           /\ \A i \in 1..position : nodes'[i] = nodes[i]
           /\ nodes'[position + 1] = Node("list", 0, position, parent, Current.src)
           /\ \A i \in 1..count :
                nodes'[position + 1 + i] = Node("list_item", 0, position + i, position, 0)
<1>1. nodes \in Seq(ParsedNodes) /\ Len(nodes) \in Nat /\ position = Len(nodes)
      /\ position \in Nat /\ MaxDepth \in Nat
  BY InputAssumption DEF IInv, TypeOK, PositionsAreReadingOrder
<1> PICK parent \in Parents :
      /\ IsCurrentParent(parent)
      /\ nodes' = nodes \o <<Node("list", 0, position, parent, Current.src)>>
                    \o [i \in 1..Current.size |-> Node("list_item", 0, position + i, position, 0)]
  BY DEF AddList
<1> DEFINE count == Current.size
           n == Node("list", 0, position, parent, Current.src)
           t == [i \in 1..count |-> Node("list_item", 0, position + i, position, 0)]
<1>2. count \in Nat
  <2>1. Current \in Items
    BY DEF AddList, Handle, Current, IInv, TypeOK
  <2> QED BY <2>1 DEF Items
<1>3. n \in ParsedNodes
  <2>1. Current \in Items
    BY DEF AddList, Handle, Current, IInv, TypeOK
  <2> QED BY <1>1, <2>1 DEF Node, ParsedNodes, Parents, None, Kinds, Items
<1>4. t \in Seq(ParsedNodes) /\ Len(t) = count
      /\ \A i \in 1..count : t[i] = Node("list_item", 0, position + i, position, 0)
  <2>1. \A i \in 1..count : t[i] = Node("list_item", 0, position + i, position, 0)
    OBVIOUS
  <2>2. \A i \in 1..count : t[i] \in ParsedNodes
    BY <1>1, <1>2 DEF Node, ParsedNodes
  <2>3. t \in [1..count -> ParsedNodes]
    BY <2>2
  <2> HIDE DEF count, t
  <2> QED BY <1>2, <2>1, <2>3
<1>5. position' = position + count + 1
  BY <1>1, <1>2 DEF AddList, PositionAfterList
<1>6. nodes' = nodes \o <<n>> \o t
  OBVIOUS
<1>7. /\ nodes' \in Seq(ParsedNodes) /\ Len(nodes') = Len(nodes) + 1 + Len(t)
      /\ \A i \in 1..Len(nodes) : nodes'[i] = nodes[i]
      /\ nodes'[Len(nodes) + 1] = n
      /\ \A i \in 1..Len(t) : nodes'[Len(nodes) + 1 + i] = t[i]
  <2> HIDE DEF count, n, t
  <2>1. t \in Seq(ParsedNodes)
    BY <1>4
  <2>2. nodes' = nodes \o <<n>> \o t
    BY <1>6
  <2>3. ASSUME NEW r, r = nodes \o <<n>> \o t
        PROVE  /\ r \in Seq(ParsedNodes) /\ Len(r) = Len(nodes) + 1 + Len(t)
               /\ \A i \in 1..Len(nodes) : r[i] = nodes[i]
               /\ r[Len(nodes) + 1] = n
               /\ \A i \in 1..Len(t) : r[Len(nodes) + 1 + i] = t[i]
    BY ONLY <1>1, <1>3, <2>1, <2>3, ThreeParts
  <2> QED BY <2>2, <2>3, Zenon
<1>8. count = Current.size
  OBVIOUS
<1> QED
  <2> HIDE DEF count, t
  <2>1. \A i \in 1..count :
          nodes'[position + 1 + i] = Node("list_item", 0, position + i, position, 0)
    BY ONLY <1>1, <1>4, <1>7
  <2>2. Len(nodes') = position + count + 1
    BY ONLY <1>1, <1>2, <1>4, <1>7
  <2> QED BY <1>1, <1>2, <1>5, <1>7, <1>8, <2>1, <2>2

LEMMA ListStep == IInv /\ AddList => IInv'
<1> SUFFICES ASSUME IInv, AddList PROVE IInv'
    OBVIOUS
<1>1. /\ nodes \in Seq(ParsedNodes) /\ Len(nodes) \in Nat /\ position = Len(nodes)
      /\ stack \in [Levels -> None..(position - 1)] /\ position \in Nat /\ MaxDepth \in Nat
  BY InputAssumption DEF IInv, TypeOK, PositionsAreReadingOrder
<1>2. PICK parent \in Parents, count \in Nat :
        /\ IsCurrentParent(parent)
        /\ position' = position + count + 1
        /\ nodes' \in Seq(ParsedNodes) /\ Len(nodes') = position + count + 1
        /\ \A i \in 1..position : nodes'[i] = nodes[i]
        /\ nodes'[position + 1] = Node("list", 0, position, parent, Current.src)
        /\ \A i \in 1..count :
             nodes'[position + 1 + i] = Node("list_item", 0, position + i, position, 0)
  BY ListNodes
<1> DEFINE n == Node("list", 0, position, parent, Current.src)
<1>3. n.kind = "list" /\ n.level = 0 /\ n.pos = position /\ n.parent = parent
  BY DEF Node
<1> HIDE DEF n
<1>8. /\ \A i \in 1..position : nodes'[i] = nodes[i]
      /\ nodes'[position + 1] = n
  BY <1>2 DEF n
<1>4. UNCHANGED <<merge, paths, stack>> /\ item' = item + 1
  BY DEF AddList, Handle
<1>9. Grows
  BY <1>1, <1>2 DEF Grows
<1>10. \A i \in (position + 2)..(position + count + 1) :
         /\ nodes'[i].kind = "list_item" /\ nodes'[i].level = 0
         /\ nodes'[i].pos = i - 1 /\ nodes'[i].parent = position
  <2> TAKE i \in (position + 2)..(position + count + 1)
  <2>1. PICK k \in 1..count : i = position + 1 + k
    <3>1. i - (position + 1) \in 1..count /\ i = position + 1 + (i - (position + 1))
      BY <1>1
    <3> QED BY <3>1
  <2>2. nodes'[i] = Node("list_item", 0, position + k, position, 0)
    BY <1>2, <2>1
  <2> QED BY <1>1, <2>1, <2>2 DEF Node
<1>11. TypeOK'
  <2>1. stack' \in [Levels -> None..(Len(nodes') - 1)]
    BY <1>1, <1>2, <1>4 DEF Levels, None
  <2>2. TypeOK
    BY DEF IInv
  <2> QED BY <1>1, <1>2, <1>4, <2>1, <2>2 DEF TypeOK, merge
<1>12. PositionsAreReadingOrder'
  <2>1. DOMAIN nodes' = 1..(position + count + 1) /\ position' = Len(nodes')
    BY <1>1, <1>2, <1>8
  <2>2. \A i \in 1..position : nodes'[i].pos = i - 1 /\ nodes'[i].parent < i - 1
    BY <1>1, <1>8 DEF IInv, PositionsAreReadingOrder
  <2>3. nodes'[position + 1].pos = position /\ nodes'[position + 1].parent < position
    BY <1>1, <1>3, <1>8 DEF Parents, None
  <2>4. \A i \in (position + 2)..(position + count + 1) :
          nodes'[i].pos = i - 1 /\ nodes'[i].parent < i - 1
    BY <1>1, <1>2, <1>10
  <2>5. ASSUME NEW i \in DOMAIN nodes' PROVE nodes'[i].pos = i - 1 /\ nodes'[i].parent < i - 1
    <3>1. i \in 1..position \/ i = position + 1 \/ i \in (position + 2)..(position + count + 1)
      BY <1>1, <1>2, <2>1
    <3> QED BY <1>1, <2>2, <2>3, <2>4, <3>1
  <2> QED BY <2>1, <2>5 DEF PositionsAreReadingOrder
<1>13. StackKnowsLast'
  <2>1. \A i \in (Len(nodes) + 1)..Len(nodes') : nodes'[i].level = 0
    <3> TAKE i \in (Len(nodes) + 1)..Len(nodes')
    <3>1. i = position + 1 \/ i \in (position + 2)..(position + count + 1)
      BY <1>1, <1>2, <1>8
    <3> QED BY <1>3, <1>8, <1>10, <3>1
  <2> QED BY <1>1, <1>2, <1>8, <1>9, <2>1, <1>4, StackStays
<1>14. IsLast(parent, Headings(position))
  <2>1. IsLast(parent, {p \in Headings(position) : At(p).level < MaxDepth + 1})
    <3>1. IsNearest(parent, MaxDepth + 1) /\ MaxDepth + 1 \in 1..(MaxDepth + 1)
      BY <1>1, <1>2 DEF IsCurrentParent
    <3> QED BY <3>1 DEF IInv, StackKnowsLast, Parents
  <2>2. \A p \in Headings(position) : At(p).level < MaxDepth + 1
    <3>1. ASSUME NEW p \in Headings(position) PROVE nodes[p + 1] \in ParsedNodes
      BY <1>1 DEF Headings
    <3> QED BY <1>1, <3>1 DEF At, ParsedNodes
  <2>3. {p \in Headings(position) : At(p).level < MaxDepth + 1} = Headings(position)
    BY <2>2
  <2> QED BY <2>1, <2>3
<1>15. ASSUME NEW i \in Nat, i = position + 1 PROVE NestsAt(i)' /\ IsContentAt(i)'
  <2>1. Headings(i - 1)' = Headings(position)
    BY <1>1, <1>9, <1>15, EarlierNodesStay
  <2>2. nodes'[i] = n
    BY <1>1, <1>8, <1>15
  <2> QED BY <1>3, <1>14, <2>1, <2>2 DEF NestsAt, IsContentAt, IsLast
<1>16. ASSUME NEW i \in (position + 2)..(position + count + 1)
       PROVE  NestsAt(i)' /\ IsContentAt(i)'
  <2>1. nodes'[i].kind = "list_item" /\ nodes'[i].parent = position
    BY <1>10
  <2>2. position \in {p \in 0..(i - 2) : At(p).kind = "list"}'
    BY <1>1, <1>2, <1>3, <1>8 DEF At
  <2>3. \A q \in {p \in 0..(i - 2) : At(p).kind = "list"}' : q <= position
    <3>1. ASSUME NEW q \in 0..(i - 2), q > position PROVE nodes'[q + 1].kind = "list_item"
      <4>1. q + 1 \in (position + 2)..(position + count + 1)
        BY <1>1, <1>2, <3>1
      <4> QED BY <1>10, <4>1
    <3>2. \A q \in 0..(i - 2) : nodes'[q + 1].kind = "list" => q <= position
      BY <1>1, <3>1
    <3> QED BY <3>2 DEF At
  <2> QED BY <2>1, <2>2, <2>3 DEF NestsAt, IsContentAt, IsLast
<1>17. HeadingsNest' /\ ContentUnderLastHeading'
  <2>1. ASSUME NEW i \in DOMAIN nodes' PROVE NestsAt(i)' /\ IsContentAt(i)'
    <3>1. \/ i \in 1..Len(nodes) \/ i = position + 1
          \/ i \in (position + 2)..(position + count + 1)
      BY <1>1, <1>2, <1>8
    <3> QED BY <1>1, <1>9, <1>15, <1>16, <3>1, EarlierNodesStayRight
  <2> QED BY <2>1 DEF HeadingsNest, ContentUnderLastHeading
<1> QED BY <1>11, <1>12, <1>13, <1>17 DEF IInv

LEMMA PathStep == IInv /\ AssignPath => IInv'
<1> SUFFICES ASSUME IInv, AssignPath PROVE IInv'
    OBVIOUS
<1> DEFINE i == Len(paths) + 1
           parent == nodes[i].parent
           num == Numeral[SiblingIndex(i)]
<1>1. /\ paths \in Seq(Seq(Nat)) /\ nodes \in Seq(ParsedNodes)
      /\ i \in 1..Len(nodes) /\ i \in DOMAIN nodes
  BY DEF AssignPath, IInv, TypeOK
<1>2. SiblingIndex(i) \in Nat
  <2> DEFINE earlier == {j \in 1..(i - 1) : nodes[j].parent = nodes[i].parent}
  <2>1. IsFiniteSet(1..(i - 1))
    BY <1>1, FS_Interval
  <2>2. IsFiniteSet(earlier)
    BY <2>1, FS_Subset
  <2>3. Cardinality(earlier) \in Nat
    BY <2>2, FS_CardinalityType
  <2> QED BY <2>3 DEF SiblingIndex
<1>3. parent # None => paths[parent + 1] \in Seq(Nat)
  <2>1. nodes[i] \in ParsedNodes /\ nodes[i].parent < i - 1
    BY <1>1 DEF IInv, PositionsAreReadingOrder
  <2> SUFFICES ASSUME parent # None PROVE paths[parent + 1] \in Seq(Nat)
    OBVIOUS
  <2>2. parent \in Nat
    BY <2>1 DEF ParsedNodes
  <2>3. Len(paths) \in Nat /\ i - 1 = Len(paths) /\ parent < i - 1
    BY <1>1, <2>1
  <2>4. parent + 1 \in 1..Len(paths)
    <3> HIDE DEF parent, i
    <3> QED BY <2>2, <2>3
  <2> QED BY <1>1, <2>4
<1>4. paths' = Append(paths, PathOf(i))
  BY DEF AssignPath
<1>5. paths' \in Seq(Seq(Nat))
  <2>1. num \in Seq(Nat)
    BY <1>2, NumeralFacts
  <2>2. parent = None => PathOf(i) = num
    BY DEF PathOf
  <2>3. parent # None => PathOf(i) = Joined(paths[parent + 1], num)
    BY DEF PathOf, Joined
  <2> HIDE DEF i, parent, num
  <2>4. PathOf(i) \in Seq(Nat)
    BY <1>3, <2>1, <2>2, <2>3, JoinFacts
  <2> QED BY <1>1, <1>4, <2>4
<1>6. UNCHANGED <<merge, item, position, stack, nodes>>
  BY DEF AssignPath
<1>7. TypeOK'
  BY <1>5, <1>6 DEF IInv, TypeOK, merge
<1> QED BY <1>6, <1>7, TreeStays

LEMMA InductiveStep == IInv /\ [Next]_vars => IInv'
<1> SUFFICES ASSUME IInv, [Next]_vars PROVE IInv'
    OBVIOUS
<1>1. CASE Merge
  BY <1>1, MergeKeepsItems
<1>2. CASE AddPlain
  BY <1>2, PlainStep
<1>3. CASE AddHeading
  BY <1>3, HeadingStep
<1>4. CASE AddList
  BY <1>4, ListStep
<1>5. CASE EndOfStream
  BY <1>5, TreeStays DEF EndOfStream, build, IInv, TypeOK
<1>6. CASE AssignPath
  BY <1>6, PathStep
<1>7. CASE Return
  BY <1>7, TreeStays DEF Return, build, IInv, TypeOK
<1>8. CASE UNCHANGED vars
  BY <1>8, TreeStays DEF vars, merge, build, IInv, TypeOK
<1> QED BY <1>1, <1>2, <1>3, <1>4, <1>5, <1>6, <1>7, <1>8 DEF Next

-----------------------------------------------------------------------------
(* The merge.                                                              *)

LEMMA StreamGrows ==
  ASSUME NEW x, stream \in Seq(Items), stream' = Append(stream, x)
  PROVE  /\ Len(stream) \in Nat /\ DOMAIN stream = 1..Len(stream)
         /\ DOMAIN stream' = 1..(Len(stream) + 1)
         /\ \A p \in DOMAIN stream : p \in DOMAIN stream' /\ stream'[p] = stream[p]
         /\ stream'[Len(stream) + 1] = x
OBVIOUS

\* Places in the stream do not move.
LEMMA PlacesStay ==
  ASSUME NEW x, stream \in Seq(Items), stream' = Append(stream, x)
  PROVE  /\ \A t : TablePlaces(t) \subseteq TablePlaces(t)'
         /\ \A i : BlockPlaces(i) \subseteq BlockPlaces(i)'
BY StreamGrows DEF TablePlaces, BlockPlaces

\* A table that is due before the block at hand, or left over at the end.
LEMMA TableInserted ==
  ASSUME TypeOK, MergeInv, phase = "merge",
         NEW t \in DOMAIN tables \ Inserted,
         stream' = Append(stream, TableItem(t)), UNCHANGED <<phase, input, next>>,
         \A s \in DOMAIN tables :
           tables[s].page = tables[t].page /\ tables[s].top < tables[t].top => s \in Inserted,
         \/ next \in Text /\ Above(t, blocks[next])
         \/ next > Len(blocks)
  PROVE  MergeInv'
<1> DEFINE n == Len(stream)
<1>1. stream \in Seq(Items) /\ next \in Nat /\ tables' = tables /\ blocks' = blocks /\ Text' = Text
  BY DEF TypeOK, tables, blocks, Text
<1>2. /\ n \in Nat /\ DOMAIN stream = 1..n /\ DOMAIN stream' = 1..(n + 1)
      /\ \A p \in 1..n : stream'[p] = stream[p]
      /\ stream'[n + 1] = TableItem(t)
  BY <1>1, StreamGrows
<1>3. TableItem(t).kind = "table" /\ TableItem(t).src = t
  BY DEF TableItem
<1>4. \A p \in 1..n : stream[p].kind = "table" => stream[p].src # t
  BY <1>2 DEF Inserted
<1>5. /\ \A s : TablePlaces(s) \subseteq TablePlaces(s)'
      /\ \A i : BlockPlaces(i) \subseteq BlockPlaces(i)'
  BY <1>1, PlacesStay
<1>6. \A i \in Text : i \in Nat
  BY DEF TypeOK, IsInput, Text, blocks
<1> HIDE DEF n
<1>7. SourcesKnown'
  <2>1. SourcesKnown
    BY DEF MergeInv
  <2> QED BY <1>1, <1>2, <1>3, <2>1 DEF SourcesKnown
<1>8. ItemsApart'
  <2>1. ItemsApart
    BY DEF MergeInv
  <2> QED BY <1>2, <1>3, <1>4, <2>1 DEF ItemsApart
<1>9. TextPlaced'
  <2>1. TextPlaced
    BY DEF MergeInv
  <2> QED BY <1>1, <1>5, <2>1 DEF TextPlaced
<1>10. HigherTablesFirst'
  <2> SUFFICES ASSUME NEW q \in 1..(n + 1), NEW s \in DOMAIN tables,
                      LET at == IF stream'[q].kind = "table" THEN tables[stream'[q].src]
                                                             ELSE blocks[stream'[q].src]
                      IN  tables[s].page = at.page /\ tables[s].top < at.top
               PROVE  \E p \in TablePlaces(s)' : p < q
    BY <1>1, <1>2 DEF HigherTablesFirst, Above, PlaceOf
  <2>1. CASE q \in 1..n
    <3>1. Above(s, PlaceOf(stream[q]))
      BY <1>1, <1>2, <2>1 DEF Above, PlaceOf
    <3>2. \E p \in TablePlaces(s) : p < q
      BY <1>2, <2>1, <3>1 DEF MergeInv, HigherTablesFirst
    <3> QED BY <1>5, <3>2
  <2>2. CASE q = n + 1
    <3>1. tables[s].page = tables[t].page /\ tables[s].top < tables[t].top
      BY <1>1, <1>2, <1>3, <2>2 DEF Above, PlaceOf
    <3>2. PICK p \in DOMAIN stream : stream[p].kind = "table" /\ stream[p].src = s
      BY <3>1 DEF Inserted
    <3>3. p \in TablePlaces(s) /\ p < q
      BY <1>2, <2>2, <3>2 DEF TablePlaces
    <3> QED BY <1>5, <3>3
  <2> QED BY <1>2, <2>1, <2>2
<1>11. LowerTextFollows'
  <2> SUFFICES ASSUME NEW p \in 1..(n + 1), stream'[p].kind = "table"
               PROVE  \/ \E j \in Text :
                           /\ j <= next /\ Above(stream'[p].src, blocks[j])
                           /\ \A q \in 1..(n + 1) :
                                p < q /\ stream'[q].kind # "table" => j <= stream'[q].src
                      \/ /\ next > Len(blocks)
                         /\ \A q \in 1..(n + 1) : p < q => stream'[q].kind = "table"
    BY <1>1, <1>2 DEF LowerTextFollows, Above
  <2>1. CASE p \in 1..n
    <3>1. \/ \E j \in Text :
               /\ j <= next /\ Above(stream[p].src, blocks[j])
               /\ \A q \in 1..n : p < q /\ stream[q].kind # "table" => j <= stream[q].src
          \/ /\ next > Len(blocks)
             /\ \A q \in 1..n : p < q => stream[q].kind = "table"
      BY <1>2, <2>1 DEF MergeInv, LowerTextFollows
    <3> QED BY <1>2, <1>3, <2>1, <3>1
  <2>2. CASE p = n + 1
    BY <1>2, <1>3, <1>6, <2>2
  <2> QED BY <1>2, <2>1, <2>2
<1>12. MergeEnds'
  BY DEF MergeEnds
<1> QED BY <1>7, <1>8, <1>9, <1>10, <1>11, <1>12 DEF MergeInv

\* The block at hand, when no table is due before it.
LEMMA BlockInserted ==
  ASSUME TypeOK, MergeInv, phase = "merge", next \in Text, DueBefore(blocks[next]) = {},
         stream' = Append(stream, BlockItem(next)), next' = next + 1,
         UNCHANGED <<phase, input>>
  PROVE  MergeInv'
<1> DEFINE n == Len(stream)
<1>1. stream \in Seq(Items) /\ next \in Nat /\ tables' = tables /\ blocks' = blocks /\ Text' = Text
  BY DEF TypeOK, tables, blocks, Text
<1>2. /\ n \in Nat /\ DOMAIN stream = 1..n /\ DOMAIN stream' = 1..(n + 1)
      /\ \A p \in 1..n : stream'[p] = stream[p]
      /\ stream'[n + 1] = BlockItem(next)
  BY <1>1, StreamGrows
<1>3. BlockItem(next).kind # "table" /\ BlockItem(next).src = next
  BY DEF BlockItem, Text, TypeOK, IsInput, IsBlock, Kinds, blocks
<1>5. /\ \A s : TablePlaces(s) \subseteq TablePlaces(s)'
      /\ \A i : BlockPlaces(i) \subseteq BlockPlaces(i)'
  BY <1>1, PlacesStay
<1>6. next <= Len(blocks) /\ \A i \in Text : i \in Nat
  BY DEF TypeOK, IsInput, Text, blocks
<1>s. SourcesKnown
  BY DEF MergeInv
<1>t. \A p \in 1..n : stream[p].kind # "table" => stream[p].src \in Text /\ stream[p].src < next
  BY <1>2, <1>s DEF SourcesKnown
<1> HIDE DEF n
<1>7. SourcesKnown'
  <2> SUFFICES ASSUME NEW p \in 1..(n + 1)
               PROVE  IF stream'[p].kind = "table" THEN stream'[p].src \in DOMAIN tables
                      ELSE stream'[p].src \in Text /\ stream'[p].src < next + 1
    BY <1>1, <1>2 DEF SourcesKnown
  <2>1. CASE p \in 1..n
    <3>1. stream[p].kind = "table" => stream[p].src \in DOMAIN tables
      BY <1>2, <1>s, <2>1 DEF SourcesKnown
    <3>2. stream[p].kind # "table" =>
            stream[p].src \in Text /\ stream[p].src \in Nat /\ stream[p].src < next
      BY <1>6, <1>t, <2>1
    <3>3. stream[p].kind # "table" => stream[p].src < next + 1
      BY <1>1, <3>2
    <3>4. stream'[p] = stream[p]
      BY <1>2, <2>1
    <3> QED BY <3>1, <3>2, <3>3, <3>4
  <2>2. CASE p = n + 1
    BY <1>1, <1>2, <1>3, <2>2
  <2> QED BY <1>2, <2>1, <2>2
<1>8. ItemsApart'
  <2>1. ItemsApart
    BY DEF MergeInv
  <2> QED BY <1>2, <1>3, <1>t, <2>1 DEF ItemsApart
<1>9. TextPlaced'
  <2>1. TextPlaced
    BY DEF MergeInv
  <2> SUFFICES ASSUME NEW i \in Text, i < next + 1
               PROVE  BlockPlaces(i)' # {}
    BY <1>1 DEF TextPlaced
  <2>2. CASE i < next
    BY <1>5, <2>1, <2>2 DEF TextPlaced
  <2>3. CASE i = next
    <3>1. stream'[n + 1].kind # "table" /\ stream'[n + 1].src = i
      BY <1>2, <1>3, <2>3
    <3>2. n + 1 \in BlockPlaces(i)'
      BY <1>2, <3>1 DEF BlockPlaces
    <3> QED BY <3>2
  <2> QED BY <1>1, <1>6, <2>2, <2>3
<1>10. HigherTablesFirst'
  <2> SUFFICES ASSUME NEW q \in 1..(n + 1), NEW s \in DOMAIN tables,
                      LET at == IF stream'[q].kind = "table" THEN tables[stream'[q].src]
                                                             ELSE blocks[stream'[q].src]
                      IN  tables[s].page = at.page /\ tables[s].top < at.top
               PROVE  \E p \in TablePlaces(s)' : p < q
    BY <1>1, <1>2 DEF HigherTablesFirst, Above, PlaceOf
  <2>1. CASE q \in 1..n
    <3>1. Above(s, PlaceOf(stream[q]))
      BY <1>1, <1>2, <2>1 DEF Above, PlaceOf
    <3>2. \E p \in TablePlaces(s) : p < q
      BY <1>2, <2>1, <3>1 DEF MergeInv, HigherTablesFirst
    <3> QED BY <1>5, <3>2
  <2>2. CASE q = n + 1
    <3>1. Above(s, blocks[next])
      BY <1>1, <1>2, <1>3, <2>2 DEF Above, PlaceOf
    <3>2. s \in Inserted
      BY <3>1 DEF DueBefore
    <3>3. PICK p \in DOMAIN stream : stream[p].kind = "table" /\ stream[p].src = s
      BY <3>2 DEF Inserted
    <3>4. p \in TablePlaces(s) /\ p < q
      BY <1>2, <2>2, <3>3 DEF TablePlaces
    <3> QED BY <1>5, <3>4
  <2> QED BY <1>2, <2>1, <2>2
<1>11. LowerTextFollows'
  <2> SUFFICES ASSUME NEW p \in 1..n, stream[p].kind = "table"
               PROVE  \E j \in Text :
                        /\ j <= next + 1 /\ Above(stream'[p].src, blocks[j])
                        /\ \A q \in 1..(n + 1) :
                             p < q /\ stream'[q].kind # "table" => j <= stream'[q].src
    <3>1. \A p \in 1..(n + 1) : stream'[p].kind = "table" =>
             p \in 1..n /\ stream[p].kind = "table"
      BY <1>2, <1>3
    <3> SUFFICES ASSUME NEW p \in DOMAIN stream', stream'[p].kind = "table"
                 PROVE  \E j \in Text :
                          /\ j <= next + 1
                          /\ tables[stream'[p].src].page = blocks[j].page
                          /\ tables[stream'[p].src].top < blocks[j].top
                          /\ \A q \in DOMAIN stream' :
                               p < q /\ stream'[q].kind # "table" => j <= stream'[q].src
      BY <1>1 DEF LowerTextFollows, Above
    <3> QED BY <1>2, <3>1 DEF Above
  <2>1. PICK j \in Text :
          /\ j <= next /\ Above(stream[p].src, blocks[j])
          /\ \A q \in 1..n : p < q /\ stream[q].kind # "table" => j <= stream[q].src
    <3>1. LowerTextFollows /\ p \in DOMAIN stream
      BY <1>2 DEF MergeInv
    <3>2. ~(next > Len(blocks)) /\ DOMAIN stream = 1..n
      <4>1. Len(blocks) \in Nat
        BY DEF TypeOK, IsInput, blocks
      <4> QED BY <1>1, <1>2, <1>6, <4>1
    <3> QED BY <3>1, <3>2, Zenon DEF LowerTextFollows
  <2> QED BY <1>1, <1>2, <1>3, <1>6, <2>1
<1>12. MergeEnds'
  BY DEF MergeEnds
<1> QED BY <1>7, <1>8, <1>9, <1>10, <1>11, <1>12 DEF MergeInv

\* Steps that leave the stream alone and pass by no text.
LEMMA StreamStays ==
  ASSUME TypeOK, MergeInv, UNCHANGED <<input, stream>>,
         next' = next \/ (next' = next + 1 /\ next \notin Text),
         MergeEnds'
  PROVE  MergeInv'
<1>1. /\ tables' = tables /\ blocks' = blocks /\ Text' = Text /\ next \in Nat
      /\ \A t : TablePlaces(t)' = TablePlaces(t)
      /\ \A i : BlockPlaces(i)' = BlockPlaces(i)
  BY DEF tables, blocks, Text, TablePlaces, BlockPlaces, TypeOK
<1>2. next <= next' /\ \A i \in Text : i \in Nat /\ (i < next' => i < next)
  BY <1>1 DEF TypeOK, IsInput, Text, blocks
<1>2a. next' \in Nat /\ Len(blocks) \in Nat
  BY <1>1 DEF TypeOK, IsInput, blocks
<1>3. SourcesKnown' /\ ItemsApart'
  BY <1>1, <1>2, <1>2a DEF MergeInv, SourcesKnown, ItemsApart
<1>4. TextPlaced' /\ HigherTablesFirst'
  <2>1. TextPlaced /\ HigherTablesFirst
    BY DEF MergeInv
  <2>2. TextPlaced'
    BY <1>1, <1>2, <2>1 DEF TextPlaced
  <2>3. HigherTablesFirst'
    BY <1>1, <2>1 DEF HigherTablesFirst, Above, PlaceOf
  <2> QED BY <2>2, <2>3
<1>5. LowerTextFollows'
  <2>1. LowerTextFollows
    BY DEF MergeInv
  <2> QED BY <1>1, <1>2, <1>2a, <2>1 DEF LowerTextFollows, Above
<1> QED BY <1>3, <1>4, <1>5 DEF MergeInv

LEMMA MergeStepKeepsOrder ==
  ASSUME TypeOK, MergeInv, MergeStep
  PROVE  MergeInv'
<1>0. /\ next \in Nat \ {0} /\ DOMAIN blocks = 1..Len(blocks) /\ Len(blocks) \in Nat
      /\ DOMAIN tables = 1..Len(tables) /\ Len(tables) \in Nat
      /\ \A t \in DOMAIN tables : IsTable(tables[t])
      /\ \A s, t \in DOMAIN tables :
           s < t /\ tables[s].page = tables[t].page => tables[s].top <= tables[t].top
  BY DEF TypeOK, IsInput, blocks, tables
<1>1. CASE InsertTable
  <2>1. PICK t \in DueBefore(blocks[next]) :
          /\ \A u \in DueBefore(blocks[next]) \ {t} : Higher(t, u)
          /\ stream' = Append(stream, TableItem(t))
    BY <1>1 DEF InsertTable
  <2>2. next \in Text /\ Above(t, blocks[next]) /\ t \in DOMAIN tables \ Inserted
    BY <1>0, <1>1, <2>1 DEF InsertTable, DueBefore, Text
  <2>3. ASSUME NEW s \in DOMAIN tables,
               tables[s].page = tables[t].page, tables[s].top < tables[t].top
        PROVE  s \in Inserted
    <3> SUFFICES ASSUME s \notin Inserted PROVE FALSE
      OBVIOUS
    <3>1. /\ tables[s].top \in Nat /\ tables[t].top \in Nat /\ blocks[next].top \in Nat
          /\ s # t
      BY <1>0, <2>2, <2>3 DEF IsTable, TypeOK, IsInput, IsBlock, blocks, Text
    <3>2. Above(s, blocks[next])
      BY <2>2, <2>3, <3>1 DEF Above
    <3>3. Higher(t, s)
      BY <2>1, <3>1, <3>2 DEF DueBefore
    <3> QED BY <2>3, <3>1, <3>3 DEF Higher
  <2> QED BY <1>1, <2>1, <2>2, <2>3, TableInserted DEF InsertTable
<1>2. CASE InsertBlock
  <2>1. next \in Text
    BY <1>0, <1>2 DEF InsertBlock, Text
  <2> QED BY <1>2, <2>1, BlockInserted DEF InsertBlock
<1>3. CASE SkipBlock
  <2>1. next \notin Text /\ MergeEnds'
    BY <1>3 DEF SkipBlock, Text, MergeEnds
  <2> QED BY <1>3, <2>1, StreamStays DEF SkipBlock
<1>4. CASE InsertLeftover
  <2>1. PICK t \in Leftover : /\ \A u \in Leftover : t <= u
                              /\ stream' = Append(stream, TableItem(t))
    BY <1>4 DEF InsertLeftover
  <2>2. ASSUME NEW s \in DOMAIN tables,
               tables[s].page = tables[t].page, tables[s].top < tables[t].top
        PROVE  s \in Inserted
    <3> SUFFICES ASSUME s \notin Inserted PROVE FALSE
      OBVIOUS
    <3>1. t \in DOMAIN tables /\ t <= s /\ s # t
      BY <1>0, <2>1, <2>2 DEF Leftover, IsTable
    <3>2. tables[t].top <= tables[s].top
      BY <1>0, <2>2, <3>1
    <3> QED BY <1>0, <2>2, <3>1, <3>2 DEF IsTable
  <2> QED BY <1>4, <2>1, <2>2, TableInserted DEF InsertLeftover, Leftover
<1>5. CASE EndOfMerge
  <2>1. Leftover' = Leftover /\ blocks' = blocks
    BY <1>5 DEF EndOfMerge, Leftover, Inserted, tables, blocks
  <2>2. MergeEnds'
    BY <1>5, <2>1 DEF EndOfMerge, MergeEnds
  <2> QED BY <1>5, <2>2, StreamStays DEF EndOfMerge
<1> QED BY <1>1, <1>2, <1>3, <1>4, <1>5 DEF MergeStep

\* The rest of the builder only reads the stream.
LEMMA MergeOrderStep ==
  ASSUME TypeOK, MergeInv, [Next]_vars
  PROVE  MergeInv'
<1>1. CASE Merge
  BY <1>1, MergeStepKeepsOrder DEF Merge
<1>2. CASE UNCHANGED merge
  <2>1. MergeEnds'
    BY <1>2 DEF merge, MergeInv, MergeEnds, Leftover, Inserted, tables, blocks
  <2> QED BY <1>2, <2>1, StreamStays DEF merge
<1>3. CASE EndOfStream \/ Return
  <2>1. /\ UNCHANGED <<input, next, stream>> /\ phase # "merge"
    BY <1>3 DEF EndOfStream, Return
  <2>2. MergeEnds'
    BY <2>1 DEF MergeInv, MergeEnds, Leftover, Inserted, tables, blocks
  <2> QED BY <2>1, <2>2, StreamStays
<1> QED BY <1>1, <1>2, <1>3 DEF Next, vars, AddPlain, AddHeading, AddList, Handle, AssignPath

\* The stream the merge leaves.
LEMMA MergedStream ==
  ASSUME IsInput(input), stream \in Seq(Items), next \in Nat, MergeInv, phase # "merge"
  PROVE  /\ Len(stream) \in Nat /\ DOMAIN stream = 1..Len(stream)
         /\ Len(tables) \in Nat /\ DOMAIN tables = 1..Len(tables)
         /\ IsFiniteSet(Text) /\ \A i \in Text : i \in Nat
         /\ \A p \in DOMAIN stream :
              IF stream[p].kind = "table" THEN stream[p].src \in DOMAIN tables
                                          ELSE stream[p].src \in Text
         /\ \A t \in DOMAIN tables : TablePlaces(t) # {}
         /\ \A i \in Text : BlockPlaces(i) # {}
         /\ \A p, q \in DOMAIN stream :
              \/ p = q
              \/ (stream[p].kind = "table") # (stream[q].kind = "table")
              \/ stream[p].src # stream[q].src
<1>1. /\ Len(stream) \in Nat /\ DOMAIN stream = 1..Len(stream)
      /\ Len(tables) \in Nat /\ DOMAIN tables = 1..Len(tables)
      /\ Len(blocks) \in Nat /\ DOMAIN blocks = 1..Len(blocks)
  BY DEF IsInput, tables, blocks
<1>2. IsFiniteSet(Text) /\ \A i \in Text : i \in Nat /\ i < next
  <2>1. IsFiniteSet(1..Len(blocks))
    BY <1>1, FS_Interval
  <2>2. Text \in SUBSET (1..Len(blocks))
    BY <1>1 DEF Text
  <2>3. Len(blocks) < next
    BY <1>1 DEF MergeInv, MergeEnds
  <2>4. IsFiniteSet(Text)
    BY <2>1, <2>2, FS_Subset
  <2>5. \A i \in Text : i \in Nat /\ i <= Len(blocks)
    BY <1>1, <2>2
  <2> QED BY <1>1, <2>3, <2>4, <2>5
<1>3. \A p \in DOMAIN stream :
        IF stream[p].kind = "table" THEN stream[p].src \in DOMAIN tables
                                    ELSE stream[p].src \in Text
  BY DEF MergeInv, SourcesKnown
<1>4. ASSUME NEW t \in DOMAIN tables PROVE TablePlaces(t) # {}
  <2>1. t \in Inserted
    BY DEF MergeInv, MergeEnds, Leftover
  <2> QED BY <2>1 DEF Inserted, TablePlaces
<1>5. \A i \in Text : BlockPlaces(i) # {}
  BY <1>2 DEF MergeInv, TextPlaced
<1>6. ASSUME NEW p \in DOMAIN stream, NEW q \in DOMAIN stream, p < q,
             (stream[p].kind = "table") = (stream[q].kind = "table")
      PROVE  stream[p].src # stream[q].src
  <2>1. ItemsApart
    BY DEF MergeInv
  <2>2. CASE stream[p].kind = "table"
    BY <1>6, <2>1, <2>2 DEF ItemsApart
  <2>3. CASE stream[p].kind # "table"
    <3>1. stream[p].src < stream[q].src
      BY <1>6, <2>1, <2>3 DEF ItemsApart
    <3>2. stream[p].src \in Nat /\ stream[q].src \in Nat
      BY <1>2, <1>3, <1>6, <2>3
    <3> QED BY <3>1, <3>2
  <2> QED BY <2>2, <2>3
<1>7. \A p, q \in DOMAIN stream : p = q \/ p < q \/ q < p
  BY <1>1
<1> QED BY <1>1, <1>2, <1>3, <1>4, <1>5, <1>6, <1>7

LEMMA MergeIsComplete ==
  ASSUME IsInput(input), stream \in Seq(Items), next \in Nat, MergeInv
  PROVE  StreamIsComplete
<1> SUFFICES ASSUME phase # "merge"
             PROVE  /\ Len(stream) = Cardinality(Text) + Len(tables)
                    /\ \A t \in DOMAIN tables : TablePlaces(t) # {}
                    /\ \A i \in Text : BlockPlaces(i) # {}
                    /\ \A i, j \in Text : i < j =>
                         \A p \in BlockPlaces(i), q \in BlockPlaces(j) : p < q
    BY DEF StreamIsComplete
<1> DEFINE T == {p \in DOMAIN stream : stream[p].kind = "table"}
           B == DOMAIN stream \ T
           f == [p \in T |-> stream[p].src]
           g == [p \in B |-> stream[p].src]
<1>1. f \in Injection(T, DOMAIN tables) /\ g \in Injection(B, Text)
  BY MergedStream DEF Injection, IsInjective
<1>2. f \in Surjection(T, DOMAIN tables)
  <2>1. f \in [T -> DOMAIN tables]
    BY MergedStream
  <2>2. ASSUME NEW t \in DOMAIN tables PROVE \E p \in T : f[p] = t
    <3>1. PICK p : p \in TablePlaces(t)
      BY MergedStream
    <3> QED BY <3>1 DEF TablePlaces
  <2> QED BY <2>1, <2>2 DEF Surjection
<1>3. g \in Surjection(B, Text)
  <2>1. g \in [B -> Text]
    BY MergedStream
  <2>2. ASSUME NEW i \in Text PROVE \E p \in B : g[p] = i
    <3>1. PICK p : p \in BlockPlaces(i)
      BY MergedStream
    <3> QED BY <3>1 DEF BlockPlaces
  <2> QED BY <2>1, <2>2 DEF Surjection
<1>4. /\ IsFiniteSet(DOMAIN stream) /\ Cardinality(DOMAIN stream) = Len(stream)
      /\ IsFiniteSet(DOMAIN tables) /\ Cardinality(DOMAIN tables) = Len(tables)
  <2>1. \A k \in Nat : IsFiniteSet(1..k) /\ Cardinality(1..k) = k
    <3> TAKE k \in Nat
    <3>1. IsFiniteSet(1..k) /\ Cardinality(1..k) = IF 1 > k THEN 0 ELSE k - 1 + 1
      BY FS_Interval
    <3> QED BY <3>1
  <2> QED BY <2>1, MergedStream
<1>5. DOMAIN stream = T \cup B /\ T \cap B = {}
  OBVIOUS
<1>6. IsFiniteSet(T) /\ IsFiniteSet(B) /\ Cardinality({}) = 0
  BY <1>4, FS_Subset, FS_EmptySet
<1>7. Cardinality(T) = Len(tables) /\ Cardinality(B) = Cardinality(Text)
  <2> HIDE DEF f, g, T, B
  <2>1. Cardinality(T) = Cardinality(DOMAIN tables)
    BY <1>1, <1>2, <1>4, FS_Injection
  <2>2. Cardinality(B) = Cardinality(Text)
    BY <1>1, <1>3, MergedStream, FS_Injection
  <2> QED BY <1>4, <2>1, <2>2
<1>8. Len(stream) = Cardinality(Text) + Len(tables)
  <2> HIDE DEF f, g, T, B
  <2>1. Cardinality(T \cup B) = Cardinality(T) + Cardinality(B) - Cardinality(T \cap B)
    BY <1>6, FS_Union
  <2>2. Cardinality(T) \in Nat /\ Cardinality(B) \in Nat
    BY <1>6, FS_CardinalityType
  <2>3. Cardinality(T \cap B) = 0 /\ Cardinality(T \cup B) = Len(stream)
    BY <1>4, <1>5, <1>6
  <2>4. Len(stream) = Cardinality(T) + Cardinality(B)
    BY <2>1, <2>2, <2>3
  <2> QED BY <1>7, <2>2, <2>4
<1>9. ASSUME NEW i \in Text, NEW j \in Text, i < j,
             NEW p \in BlockPlaces(i), NEW q \in BlockPlaces(j)
      PROVE  p < q
  <2>1. /\ p \in DOMAIN stream /\ q \in DOMAIN stream /\ p \in Nat /\ q \in Nat
        /\ stream[p].kind # "table" /\ stream[q].kind # "table"
        /\ stream[p].src = i /\ stream[q].src = j
    BY MergedStream DEF BlockPlaces
  <2>2. q < p => j < i
    BY <2>1 DEF MergeInv, ItemsApart
  <2>3. i \in Nat /\ j \in Nat /\ p # q
    BY <1>9, <2>1, MergedStream
  <2> QED BY <1>9, <2>1, <2>2, <2>3
<1> QED BY <1>8, <1>9, MergedStream

LEMMA MergePlacesTables ==
  ASSUME IsInput(input), stream \in Seq(Items), next \in Nat, MergeInv
  PROVE  TablesInPlace
<1> SUFFICES ASSUME phase # "merge", NEW t \in DOMAIN tables
             PROVE  /\ \A i \in Text :
                         blocks[i].page = tables[t].page =>
                           ((\A p \in TablePlaces(t), q \in BlockPlaces(i) : p < q)
                              <=> \E j \in Text : /\ j <= i /\ blocks[j].page = tables[t].page
                                                  /\ tables[t].top < blocks[j].top)
                    /\ \A s \in DOMAIN tables :
                         tables[s].page = tables[t].page /\ tables[s].top < tables[t].top =>
                           \A p \in TablePlaces(s), q \in TablePlaces(t) : p < q
    BY DEF TablesInPlace
<1>1. /\ DOMAIN stream \subseteq Nat
      /\ \A s, p : p \in TablePlaces(s) <=>
           p \in DOMAIN stream /\ stream[p].kind = "table" /\ stream[p].src = s
      /\ \A i, p : p \in BlockPlaces(i) <=>
           p \in DOMAIN stream /\ stream[p].kind # "table" /\ stream[p].src = i
  BY MergedStream DEF TablePlaces, BlockPlaces
<1>2. \A s, p, q : p \in TablePlaces(s) /\ q \in TablePlaces(s) => p = q
  BY <1>1, MergedStream
<1>3. PICK p0 : p0 \in TablePlaces(t)
  BY MergedStream
<1>4. ASSUME NEW i \in Text, NEW q \in BlockPlaces(i), NEW j \in Text, j <= i,
             blocks[j].page = tables[t].page, tables[t].top < blocks[j].top
      PROVE  p0 < q
  <2>1. PICK r : r \in BlockPlaces(j)
    BY MergedStream
  <2>2. Above(t, PlaceOf(stream[r]))
    BY <1>1, <1>4, <2>1 DEF Above, PlaceOf
  <2>3. p0 < r
    BY <1>1, <1>2, <1>3, <2>1, <2>2 DEF MergeInv, HigherTablesFirst
  <2>4. r <= q
    <3>1. i \in Nat /\ j \in Nat /\ r \in Nat /\ q \in Nat
      BY <1>1, <2>1, MergedStream
    <3>2. q < r => i < j
      BY <1>1, <2>1 DEF MergeInv, ItemsApart
    <3> QED BY <1>4, <3>1, <3>2
  <2> QED BY <1>1, <1>3, <2>1, <2>3, <2>4
<1>5. ASSUME NEW i \in Text, \A p \in TablePlaces(t), q \in BlockPlaces(i) : p < q
      PROVE  \E j \in Text : /\ j <= i /\ blocks[j].page = tables[t].page
                             /\ tables[t].top < blocks[j].top
  <2>1. PICK q : q \in BlockPlaces(i)
    BY MergedStream
  <2>2. p0 < q
    BY <1>3, <1>5, <2>1
  <2>3. PICK j \in Text :
          /\ j <= next /\ Above(t, blocks[j])
          /\ \A r \in DOMAIN stream : p0 < r /\ stream[r].kind # "table" => j <= stream[r].src
    BY <1>1, <1>3, <2>1, <2>2 DEF MergeInv, LowerTextFollows
  <2>4. j <= i
    BY <1>1, <2>1, <2>2, <2>3
  <2> QED BY <2>3, <2>4 DEF Above
<1>6. ASSUME NEW s \in DOMAIN tables,
             tables[s].page = tables[t].page, tables[s].top < tables[t].top,
             NEW p \in TablePlaces(s), NEW q \in TablePlaces(t)
      PROVE  p < q
  <2>1. Above(s, PlaceOf(stream[q]))
    BY <1>1, <1>6 DEF Above, PlaceOf
  <2>2. \E r \in TablePlaces(s) : r < q
    BY <1>1, <2>1 DEF MergeInv, HigherTablesFirst
  <2> QED BY <1>2, <2>2
<1>7. ASSUME NEW i \in Text, blocks[i].page = tables[t].page
      PROVE  (\A p \in TablePlaces(t), q \in BlockPlaces(i) : p < q)
               <=> \E j \in Text : /\ j <= i /\ blocks[j].page = tables[t].page
                                   /\ tables[t].top < blocks[j].top
  <2>1. \A p \in TablePlaces(t) : p = p0
    BY <1>2, <1>3
  <2> QED BY <1>4, <1>5, <2>1
<1> QED BY <1>6, <1>7

-----------------------------------------------------------------------------
\* The inductive invariant holds in every reachable state.
THEOREM Invariance == Spec => []IInv
<1>1. Init => IInv
  BY InitIInv
<1>2. IInv /\ [Next]_vars => IInv'
  BY InductiveStep
<1> QED BY <1>1, <1>2, PTL DEF Spec

\* The builder's variables keep their types; every node it makes is well-formed
\* (hierarchy_builder.py:55-245).
THEOREM TypeCorrect == Spec => []TypeOK
<1>1. IInv => TypeOK
  BY DEF IInv
<1> QED BY <1>1, Invariance, PTL

\* position_index is the place in the list and parents come first
\* (hierarchy_builder.py:92-118), whatever the document.
THEOREM PositionsCorrect == Spec => []PositionsAreReadingOrder
<1>1. IInv => PositionsAreReadingOrder
  BY DEF IInv
<1> QED BY <1>1, Invariance, PTL

\* heading_stack finds each heading's parent: the last one before it with a
\* smaller level (hierarchy_builder.py:124-172).
THEOREM HeadingsNestCorrectly == Spec => []HeadingsNest
<1>1. IInv => HeadingsNest
  BY DEF IInv
<1> QED BY <1>1, Invariance, PTL

\* Text, tables and lists belong to the last heading before them, items to their
\* list (hierarchy_builder.py:124-129, 175-245).
THEOREM ContentPlaced == Spec => []ContentUnderLastHeading
<1>1. IInv => ContentUnderLastHeading
  BY DEF IInv
<1> QED BY <1>1, Invariance, PTL
-----------------------------------------------------------------------------
(* The paths.                                                              *)

\* What the three steps add to the list.
LEMMA NodesAdded ==
  ASSUME IInv, AddPlain \/ AddHeading \/ AddList
  PROVE  /\ Grows /\ Len(nodes) \in Nat /\ Len(nodes') \in Nat /\ Len(nodes) < Len(nodes')
         /\ Current \in Items /\ Current = stream[item] /\ item \in DOMAIN stream
         /\ phase = "build" /\ item' = item + 1 /\ UNCHANGED <<merge, paths>>
         /\ nodes'[Len(nodes) + 1].kind = Current.kind
         /\ nodes'[Len(nodes) + 1].src = Current.src
         /\ nodes'[Len(nodes) + 1].level = IF Current.kind = "heading" THEN Current.level ELSE 0
         /\ \A n \in (Len(nodes) + 2)..Len(nodes') :
              /\ nodes'[n].kind = "list_item" /\ nodes'[n].level = 0
              /\ nodes'[n].parent = Len(nodes)
<1>1. /\ nodes \in Seq(ParsedNodes) /\ Len(nodes) \in Nat /\ position = Len(nodes)
      /\ position \in Nat /\ MaxDepth \in Nat
  BY InputAssumption DEF IInv, TypeOK, PositionsAreReadingOrder
<1>2. /\ item \in DOMAIN stream /\ Current = stream[item] /\ Current \in Items
      /\ phase = "build" /\ item' = item + 1 /\ UNCHANGED <<merge, paths>>
  BY DEF AddPlain, AddHeading, AddList, Handle, Current, IInv, TypeOK
<1>3. CASE AddPlain \/ AddHeading
  <2>1. PICK n : /\ nodes' = Append(nodes, n) /\ n.kind = Current.kind /\ n.src = Current.src
                 /\ n.level = IF Current.kind = "heading" THEN Current.level ELSE 0
                 /\ n \in ParsedNodes
    <3>1. CASE AddPlain
      <4>1. PICK parent \in Parents :
              nodes' = Append(nodes, Node(Current.kind, 0, position, parent, Current.src))
        BY <3>1 DEF AddPlain
      <4>2. Current.kind \in {"paragraph", "table"}
        BY <3>1 DEF AddPlain, Handle
      <4>3. Node(Current.kind, 0, position, parent, Current.src) \in ParsedNodes
        BY <1>1, <1>2, <4>2 DEF Node, ParsedNodes, Parents, Kinds, None, Items
      <4> QED BY <4>1, <4>2, <4>3 DEF Node
    <3>2. CASE AddHeading
      <4>1. PICK parent \in Parents :
              nodes' = Append(nodes,
                              Node("heading", Current.level, position, parent, Current.src))
        BY <3>2 DEF AddHeading
      <4>2. Current.kind = "heading"
        BY <3>2 DEF AddHeading, Handle
      <4>3. Node("heading", Current.level, position, parent, Current.src) \in ParsedNodes
        BY <1>1, <1>2 DEF Node, ParsedNodes, Parents, Kinds, None, Items
      <4> QED BY <4>1, <4>2, <4>3 DEF Node
    <3> QED BY <1>3, <3>1, <3>2
  <2>2. Grows /\ Len(nodes') = Len(nodes) + 1 /\ nodes'[Len(nodes) + 1] = n
    BY <2>1, OneMore
  <2> QED BY <1>1, <1>2, <2>1, <2>2
<1>4. CASE AddList
  <2>1. PICK parent \in Parents, count \in Nat :
          /\ nodes' \in Seq(ParsedNodes) /\ Len(nodes') = position + count + 1
          /\ \A i \in 1..position : nodes'[i] = nodes[i]
          /\ nodes'[position + 1] = Node("list", 0, position, parent, Current.src)
          /\ \A i \in 1..count :
               nodes'[position + 1 + i] = Node("list_item", 0, position + i, position, 0)
    BY <1>4, ListNodes
  <2>2. Current.kind = "list"
    BY <1>4 DEF AddList, Handle
  <2>3. Grows /\ Len(nodes') \in Nat /\ Len(nodes) < Len(nodes')
    BY <1>1, <2>1 DEF Grows
  <2>4. ASSUME NEW n \in (Len(nodes) + 2)..Len(nodes')
        PROVE  /\ nodes'[n].kind = "list_item" /\ nodes'[n].level = 0
               /\ nodes'[n].parent = Len(nodes)
    <3>1. n - (position + 1) \in 1..count /\ n = position + 1 + (n - (position + 1))
      BY <1>1, <2>1
    <3>2. nodes'[n] = Node("list_item", 0, position + (n - (position + 1)), position, 0)
      BY <2>1, <3>1
    <3> QED BY <1>1, <3>2 DEF Node
  <2>5. /\ nodes'[Len(nodes) + 1].kind = "list" /\ nodes'[Len(nodes) + 1].level = 0
        /\ nodes'[Len(nodes) + 1].src = Current.src
    BY <1>1, <2>1 DEF Node
  <2> QED BY <1>1, <1>2, <2>2, <2>3, <2>4, <2>5
<1> QED BY <1>3, <1>4

LEMMA InitTreeInv == Init => TreeInv /\ SourceInv
BY DEF Init, MergeInit, TreeInv, LevelsAreHeadings, ItemsFollowList, PathsSoFar, SourceInv,
       ItemsAreBlocks, LoopBounds, NodesOfHeadings, HeadingItems

\* Every new node takes its place in the tree.
LEMMA TreeOfNodes ==
  ASSUME IInv, TreeInv, AddPlain \/ AddHeading \/ AddList
  PROVE  TreeInv'
<1> DEFINE size == Len(nodes)
<1>1. /\ nodes \in Seq(ParsedNodes) /\ DOMAIN nodes = 1..size
      /\ \A n \in 1..size : nodes[n] \in ParsedNodes
  BY DEF IInv, TypeOK
<1>2. /\ nodes' \in Seq(ParsedNodes) /\ DOMAIN nodes' = 1..Len(nodes')
      /\ \A n \in 1..size : nodes'[n] = nodes[n]
  BY NodesAdded DEF Grows
<1>3. ASSUME NEW n \in DOMAIN nodes'
      PROVE  \/ n \in 1..size
             \/ n = size + 1
             \/ n \in (size + 2)..Len(nodes')
  BY <1>2, NodesAdded
<1>4. LevelsAreHeadings'
  <2>1. Current.kind = "heading" => Current.level # 0
    BY NodesAdded DEF IInv, TypeOK
  <2>2. ASSUME NEW n \in DOMAIN nodes' PROVE nodes'[n].kind = "heading" <=> nodes'[n].level # 0
    <3>1. CASE n \in 1..size
      BY <1>1, <1>2, <3>1 DEF TreeInv, LevelsAreHeadings, IsHeading
    <3>2. CASE n = size + 1
      BY <2>1, <3>2, NodesAdded
    <3>3. CASE n \in (size + 2)..Len(nodes')
      BY <3>3, NodesAdded
    <3> QED BY <1>3, <3>1, <3>2, <3>3
  <2> QED BY <2>2 DEF LevelsAreHeadings, IsHeading
<1>5. ItemsFollowList'
  <2>1. ASSUME NEW n \in DOMAIN nodes', nodes'[n].kind = "list_item",
               NEW k \in (nodes'[n].parent + 2)..n
        PROVE  nodes'[k].kind = "list_item"
    <3>1. CASE n \in 1..size
      <4>1. nodes[n].parent \in Nat \cup {None} /\ nodes'[n] = nodes[n]
        BY <1>1, <1>2, <3>1 DEF ParsedNodes
      <4>2. k \in 1..size
        BY <2>1, <3>1, <4>1, NodesAdded DEF None
      <4> QED BY <1>1, <1>2, <2>1, <3>1, <4>1, <4>2 DEF TreeInv, ItemsFollowList
    <3>2. CASE n = size + 1
      BY <2>1, <3>2, NodesAdded DEF Items, Kinds
    <3>3. CASE n \in (size + 2)..Len(nodes')
      <4>1. k \in (size + 2)..Len(nodes')
        BY <2>1, <3>3, NodesAdded
      <4> QED BY <4>1, NodesAdded
    <3> QED BY <1>3, <3>1, <3>2, <3>3
  <2> QED BY <2>1 DEF ItemsFollowList
<1>6. PathsSoFar'
  <2>1. paths' = <<>> /\ phase' = "build"
    BY NodesAdded DEF TreeInv, PathsSoFar, merge
  <2> QED BY <2>1, NodesAdded DEF PathsSoFar
<1> QED BY <1>4, <1>5, <1>6 DEF TreeInv

\* assign_paths extends the list of paths, and nothing else.
LEMMA TreeOfPaths ==
  ASSUME IInv, TreeInv, AssignPath
  PROVE  TreeInv'
<1> DEFINE k == Len(paths)
<1>1. /\ paths \in Seq(Seq(Nat)) /\ k \in Nat /\ DOMAIN paths = 1..k
      /\ nodes \in Seq(ParsedNodes) /\ Len(nodes) \in Nat /\ k < Len(nodes)
  BY DEF AssignPath, IInv, TypeOK
<1>2. /\ UNCHANGED <<phase, nodes>> /\ phase = "paths"
      /\ paths' = Append(paths, PathOf(k + 1))
  BY DEF AssignPath, merge
<1>3. /\ paths' \in Seq(Seq(Nat))
      /\ Len(paths') = k + 1 /\ DOMAIN paths' = 1..(k + 1) /\ paths'[k + 1] = PathOf(k + 1)
      /\ \A i \in 1..k : paths'[i] = paths[i]
  <2>1. IInv'
    BY PathStep
  <2>2. paths' \in Seq(Seq(Nat))
    BY <2>1 DEF IInv, TypeOK
  <2> HIDE DEF k
  <2>3. ASSUME NEW p, paths' = Append(paths, p)
        PROVE  /\ Len(paths') = Len(paths) + 1 /\ paths'[Len(paths) + 1] = p
               /\ \A i \in 1..Len(paths) : paths'[i] = paths[i]
    BY <1>1, <2>3
  <2>4. /\ Len(paths') = Len(paths) + 1 /\ paths'[Len(paths) + 1] = PathOf(k + 1)
        /\ \A i \in 1..Len(paths) : paths'[i] = paths[i]
    BY <1>2, <2>3
  <2> QED BY <1>1, <2>2, <2>4 DEF k
<1>4. ASSUME NEW i \in 1..(k + 1) PROVE PathOf(i)' = PathOf(i)
  <2>1. nodes[i] \in ParsedNodes /\ nodes[i].parent < i - 1
    BY <1>1 DEF IInv, PositionsAreReadingOrder
  <2>2. nodes[i].parent # None => nodes[i].parent + 1 \in 1..k
    <3>1. nodes[i].parent # None => nodes[i].parent \in Nat
      BY <2>1 DEF ParsedNodes
    <3> HIDE DEF k
    <3> QED BY <1>1, <2>1, <3>1
  <2>3. nodes' = nodes /\ SiblingIndex(i)' = SiblingIndex(i)
    BY <1>2 DEF SiblingIndex
  <2> HIDE DEF k
  <2> QED BY <1>3, <2>2, <2>3 DEF PathOf
<1>5. PathsSoFar'
  <2>1. ASSUME NEW i \in 1..(k + 1) PROVE paths'[i] = PathOf(i)
    <3>1. CASE i \in 1..k
      BY <1>1, <1>3, <3>1 DEF TreeInv, PathsSoFar
    <3>2. CASE i = k + 1
      BY <1>3, <3>2
    <3> QED BY <1>1, <3>1, <3>2
  <2>2. \A i \in DOMAIN paths' : paths'[i] = PathOf(i)'
    BY <1>3, <1>4, <2>1
  <2>3. Len(paths') <= Len(nodes')
    <3> HIDE DEF k
    <3> QED BY <1>1, <1>2, <1>3
  <2> QED BY <1>2, <2>2, <2>3 DEF PathsSoFar
<1>6. LevelsAreHeadings' /\ ItemsFollowList'
  BY <1>2 DEF TreeInv, LevelsAreHeadings, ItemsFollowList, IsHeading
<1> QED BY <1>5, <1>6 DEF TreeInv

LEMMA TreeStep == IInv /\ TreeInv /\ [Next]_vars => TreeInv'
<1> SUFFICES ASSUME IInv, TreeInv, [Next]_vars PROVE TreeInv'
    OBVIOUS
<1>1. CASE AddPlain \/ AddHeading \/ AddList
  BY <1>1, TreeOfNodes
<1>2. CASE AssignPath
  BY <1>2, TreeOfPaths
<1>3. CASE Merge \/ EndOfStream \/ Return \/ UNCHANGED vars
  <2>1. /\ UNCHANGED <<nodes, paths>>
        /\ phase' \notin {"paths", "done"} => phase \notin {"paths", "done"}
        /\ phase' = "done" => phase = "done" \/ Len(paths) = Len(nodes)
    BY <1>3 DEF Merge, MergeStep, InsertTable, InsertBlock, SkipBlock, InsertLeftover,
                EndOfMerge, EndOfStream, Return, vars, merge, build
  <2>2. PathsSoFar'
    BY <2>1 DEF TreeInv, PathsSoFar, PathOf, SiblingIndex
  <2> QED BY <2>1, <2>2 DEF TreeInv, LevelsAreHeadings, ItemsFollowList, IsHeading
<1> QED BY <1>1, <1>2, <1>3 DEF Next

-----------------------------------------------------------------------------
\* No subtree starts in another one and ends behind it: a node between a parent and
\* its child hangs at or behind that parent.
LEMMA SubtreesAreIntervals ==
  ASSUME IInv, TreeInv, NEW i \in DOMAIN nodes, NEW j \in DOMAIN nodes,
         i < j, nodes[j].parent < i - 1
  PROVE  nodes[j].parent <= nodes[i].parent
<1> DEFINE p == nodes[j].parent
           q == nodes[i].parent
<1>1. /\ nodes[i] \in ParsedNodes /\ nodes[j] \in ParsedNodes
      /\ i \in Nat /\ j \in Nat
      /\ p \in Nat \cup {-1} /\ q \in Nat \cup {-1}
  <2>1. nodes[i] \in ParsedNodes /\ nodes[j] \in ParsedNodes /\ i \in Nat /\ j \in Nat
    BY DEF IInv, TypeOK
  <2> QED BY <2>1 DEF ParsedNodes, None
<1>2. /\ NestsAt(i) /\ NestsAt(j) /\ IsContentAt(i) /\ IsContentAt(j)
      /\ LevelsAreHeadings /\ ItemsFollowList
      /\ DOMAIN nodes = 1..Len(nodes)
  BY DEF IInv, TypeOK, HeadingsNest, ContentUnderLastHeading, TreeInv
<1> SUFFICES ASSUME p # -1 PROVE p <= q
  BY <1>1
<1>3. p \in Nat /\ p < i - 1 /\ p + 1 \in DOMAIN nodes /\ At(p) = nodes[p + 1]
  BY <1>1, <1>2 DEF At
<1>4. nodes[i].kind \in {"heading", "paragraph", "table", "list", "list_item"}
      /\ nodes[j].kind \in {"heading", "paragraph", "table", "list", "list_item"}
  BY <1>1 DEF ParsedNodes, Kinds
<1>5. CASE nodes[j].kind = "list_item"
  <2>1. \A k \in (p + 2)..j : nodes[k].kind = "list_item"
    BY <1>2, <1>5 DEF ItemsFollowList
  <2>2. nodes[i].kind = "list_item"
    BY <1>1, <1>3, <2>1
  <2>3. IsLast(p, {r \in 0..(j - 2) : At(r).kind = "list"})
    BY <1>2, <1>5 DEF IsContentAt
  <2>4. p \in {r \in 0..(j - 2) : At(r).kind = "list"}
    BY <1>3, <2>3 DEF IsLast, None
  <2>5. p \in {r \in 0..(i - 2) : At(r).kind = "list"}
    BY <1>1, <1>3, <2>4
  <2>6. IsLast(q, {r \in 0..(i - 2) : At(r).kind = "list"})
    BY <1>2, <2>2 DEF IsContentAt
  <2> QED BY <2>5, <2>6 DEF IsLast
<1>6. CASE nodes[j].kind # "list_item"
  <2>1. /\ p \in Headings(j - 1)
        /\ \A r \in Headings(j - 1) :
             \/ r <= p
             \/ nodes[j].kind = "heading" /\ nodes[j].level <= At(r).level
        /\ nodes[j].kind = "heading" => At(p).level < nodes[j].level
    <3>1. CASE nodes[j].kind = "heading"
      <4> DEFINE S == {r \in Headings(j - 1) : At(r).level < nodes[j].level}
      <4>1. IsLast(p, S)
        BY <1>2, <3>1 DEF NestsAt
      <4>2. p \in S /\ \A r \in S : r <= p
        <5> HIDE DEF S
        <5> QED BY <1>3, <4>1 DEF IsLast, None
      <4>3. ASSUME NEW r \in Headings(j - 1)
            PROVE  At(r).level < nodes[j].level \/ nodes[j].level <= At(r).level
        <5>1. nodes[r + 1] \in ParsedNodes
          <6>1. nodes \in Seq(ParsedNodes)
            BY DEF IInv, TypeOK
          <6>2. r \in 0..(j - 1 - 1)
            BY DEF Headings
          <6>3. Len(nodes) \in Nat /\ DOMAIN nodes = 1..Len(nodes) /\ j \in 1..Len(nodes)
            BY <1>2, <6>1
          <6>4. r + 1 \in DOMAIN nodes
            BY <6>2, <6>3
          <6> QED BY <6>1, <6>4
        <5>2. nodes[r + 1].level \in Int /\ nodes[j].level \in Int
          BY <1>1, <5>1, InputAssumption DEF ParsedNodes
        <5> QED BY <5>2 DEF At
      <4> QED BY <3>1, <4>2, <4>3
    <3>2. CASE nodes[j].kind \in {"paragraph", "table", "list"}
      BY <1>2, <1>3, <3>2 DEF IsContentAt, IsLast, None
    <3> QED BY <1>4, <1>6, <3>1, <3>2
  <2>2. p \in Headings(i - 1) /\ At(p).kind = "heading"
    BY <1>1, <1>2, <1>3, <2>1 DEF Headings, LevelsAreHeadings, IsHeading
  <2>3. CASE nodes[i].kind = "heading"
    <3>1. i - 1 \in Headings(j - 1) /\ At(i - 1) = nodes[i]
      BY <1>1, <1>2, <2>3 DEF Headings, LevelsAreHeadings, IsHeading, At
    <3>2. nodes[j].level <= nodes[i].level /\ At(p).level < nodes[j].level
      BY <1>1, <1>3, <2>1, <3>1
    <3>3. At(p).level < nodes[i].level
      <4>1. nodes[p + 1] \in ParsedNodes
        BY <1>3 DEF IInv, TypeOK
      <4>2. /\ At(p).level \in Int /\ nodes[i].level \in Int /\ nodes[j].level \in Int
        BY <1>1, <1>3, <4>1, InputAssumption DEF ParsedNodes
      <4> QED BY <3>2, <4>2
    <3>4. IsLast(q, {r \in Headings(i - 1) : At(r).level < nodes[i].level})
      BY <1>2, <2>3 DEF NestsAt
    <3> QED BY <2>2, <3>3, <3>4 DEF IsLast
  <2>4. CASE nodes[i].kind \in {"paragraph", "table", "list"}
    <3>1. IsLast(q, Headings(i - 1))
      BY <1>2, <2>4 DEF IsContentAt
    <3> QED BY <2>2, <3>1 DEF IsLast
  <2>5. CASE nodes[i].kind = "list_item"
    <3>1. IsLast(q, {r \in 0..(i - 2) : At(r).kind = "list"})
      BY <1>2, <2>5 DEF IsContentAt
    <3>2. \A k \in (q + 2)..i : nodes[k].kind = "list_item"
      BY <1>2, <2>5 DEF ItemsFollowList
    <3>3. p + 1 \notin (q + 2)..i
      BY <2>2, <3>2 DEF At
    <3> QED BY <1>1, <1>3, <3>3
  <2> QED BY <1>4, <2>3, <2>4, <2>5
<1> QED BY <1>5, <1>6

\* The counter of the siblings only grows (hierarchy_builder.py:386).
LEMMA SiblingsCounted ==
  ASSUME NEW i \in Nat, NEW j \in Nat
  PROVE  /\ SiblingIndex(i) \in Nat
         /\ i # 0 /\ i < j /\ nodes[i].parent = nodes[j].parent => SiblingIndex(i) < SiblingIndex(j)
<1> DEFINE S(n) == {m \in 1..(n - 1) : nodes[m].parent = nodes[n].parent}
<1>1. ASSUME NEW n \in Nat PROVE IsFiniteSet(S(n)) /\ Cardinality(S(n)) \in Nat
  <2>1. IsFiniteSet(1..(n - 1)) /\ S(n) \subseteq 1..(n - 1)
    BY FS_Interval
  <2> QED BY <2>1, FS_Subset, FS_CardinalityType
<1>2. ASSUME i # 0, i < j, nodes[i].parent = nodes[j].parent
      PROVE  Cardinality(S(i)) < Cardinality(S(j))
  <2>1. S(i) \subseteq S(j) /\ i \in S(j) /\ i \notin S(i)
    BY <1>2
  <2>2. IsFiniteSet(S(j)) /\ S(i) # S(j)
    BY <1>1, <2>1
  <2>3. Cardinality(S(i)) <= Cardinality(S(j)) /\ Cardinality(S(i)) # Cardinality(S(j))
    <3> HIDE DEF S
    <3> QED BY <2>1, <2>2, FS_Subset
  <2> QED BY <1>1, <2>3
<1> QED BY <1>1, <1>2 DEF SiblingIndex

\* The ancestors of a node, unfolded once.
LEMMA AncestorsUnfold ==
  ASSUME nodes \in Seq(ParsedNodes),
         \A i \in DOMAIN nodes : nodes[i].parent < i - 1
  PROVE  \A j \in DOMAIN nodes :
           Ancestors(j) = IF nodes[j].parent = None THEN {}
                          ELSE {nodes[j].parent} \cup Ancestors(nodes[j].parent + 1)
<1> DEFINE n == Len(nodes)
           Sol(u, m) == u = [j \in 1..m |-> IF nodes[j].parent = None THEN {}
                                            ELSE {nodes[j].parent} \cup u[nodes[j].parent + 1]]
           T == {m \in Nat : m <= n => \E u : Sol(u, m)}
<1>1. /\ n \in Nat /\ DOMAIN nodes = 1..n
      /\ \A j \in 1..n : nodes[j].parent # None => nodes[j].parent + 1 \in 1..(j - 1)
  <2>1. \A j \in 1..Len(nodes) : nodes[j] \in ParsedNodes
    OBVIOUS
  <2>2. ASSUME NEW j \in 1..Len(nodes), nodes[j].parent # None
        PROVE  nodes[j].parent + 1 \in 1..(j - 1)
    <3>1. nodes[j].parent \in Nat /\ nodes[j].parent < j - 1 /\ j \in Nat
      BY <2>1, <2>2 DEF ParsedNodes
    <3> QED BY <3>1
  <2> QED BY <2>2
<1>2. ASSUME NEW m \in Nat, \A l \in 0..(m - 1) : l \in T, m <= n
      PROVE  \E u : Sol(u, m)
  <2>1. CASE m = 0
    <3>1. Sol([j \in 1..0 |-> {}], 0)
      OBVIOUS
    <3> QED BY <2>1, <3>1
  <2>2. CASE m # 0
    <3>1. m - 1 \in T /\ m - 1 \in Nat /\ m - 1 <= n
      <4> HIDE DEF T, n, Sol
      <4> QED BY <1>1, <1>2, <2>2
    <3>2. PICK u : Sol(u, m - 1)
      BY <3>1
    <3> DEFINE v == [j \in 1..m |-> IF nodes[j].parent = None THEN {}
                                    ELSE {nodes[j].parent} \cup u[nodes[j].parent + 1]]
    <3>3. \A j \in 1..m : nodes[j].parent # None => nodes[j].parent + 1 \in 1..(m - 1)
      <4>1. \A j \in 1..m : j \in 1..n /\ \A k \in 1..(j - 1) : k \in 1..(m - 1)
        BY <1>1, <1>2
      <4> QED BY <1>1, <4>1
    <3>4. \A j \in 1..(m - 1) : v[j] = u[j]
      <4>1. \A j \in 1..(m - 1) : j \in 1..m
        BY <1>2
      <4> QED BY <3>2, <4>1
    <3>5. Sol(v, m)
      BY <3>3, <3>4
    <3> QED BY <3>5
  <2> QED BY <2>1, <2>2
<1>3. \A m \in Nat : (\A l \in 0..(m - 1) : l \in T) => m \in T
  <2> HIDE DEF Sol
  <2> QED BY <1>2
<1>4. \A m \in Nat : m \in T
  <2> HIDE DEF T, Sol
  <2> QED BY <1>3, StrongInduction
<1>5. n \in T
  BY <1>1, <1>4
<1>6. \E u : Sol(u, n)
  <2> HIDE DEF Sol
  <2> QED BY <1>1, <1>5
<1> DEFINE up == CHOOSE up : up = [j \in DOMAIN nodes |->
                   IF nodes[j].parent = None THEN {}
                   ELSE {nodes[j].parent} \cup up[nodes[j].parent + 1]]
<1>7. \A j : Ancestors(j) = up[j]
  BY DEF Ancestors
<1>8. up = [j \in DOMAIN nodes |-> IF nodes[j].parent = None THEN {}
                                   ELSE {nodes[j].parent} \cup up[nodes[j].parent + 1]]
  <2>1. \E u : u = [j \in DOMAIN nodes |-> IF nodes[j].parent = None THEN {}
                                   ELSE {nodes[j].parent} \cup u[nodes[j].parent + 1]]
    BY <1>1, <1>6
  <2> QED BY <2>1, Zenon
<1> HIDE DEF up
<1> QED BY <1>7, <1>8

-----------------------------------------------------------------------------
\* The nodes that have a path are walked through in order.
ParentIn == [i \in 1..Len(paths) |-> nodes[i].parent + 1]
PlaceIn  == [i \in 1..Len(paths) |-> SiblingIndex(i)]
PathIn   == [i \in 1..Len(paths) |-> paths[i]]

LEMMA PathsWalk ==
  ASSUME IInv, TreeInv
  PROVE  IsWalk(Len(paths), ParentIn, PlaceIn, PathIn)
<1> DEFINE n == Len(paths)
<1>1. /\ n \in Nat /\ DOMAIN paths = 1..n /\ paths \in Seq(Seq(Nat))
      /\ DOMAIN nodes = 1..Len(nodes) /\ Len(nodes) \in Nat /\ n <= Len(nodes)
      /\ PositionsAreReadingOrder
  BY DEF IInv, TypeOK, TreeInv, PathsSoFar
<1>2. ASSUME NEW i \in 1..n
      PROVE  /\ i \in DOMAIN nodes /\ i \in Nat
             /\ nodes[i].parent + 1 \in 0..n /\ nodes[i].parent + 1 < i
             /\ nodes[i].parent \in Nat \cup {None}
  <2>1. i \in DOMAIN nodes
    BY <1>1
  <2>2. nodes[i] \in ParsedNodes /\ nodes[i].parent < i - 1
    BY <2>1 DEF IInv, TypeOK, PositionsAreReadingOrder
  <2>3. nodes[i].parent \in Nat \cup {-1}
    BY <2>2 DEF ParsedNodes, None
  <2> QED BY <1>1, <2>1, <2>2, <2>3 DEF None
<1>3. ParentIn \in [1..n -> 0..n] /\ \A i \in 1..n : ParentIn[i] = nodes[i].parent + 1
  BY <1>2 DEF ParentIn
<1>4. PlaceIn \in [1..n -> Nat] /\ \A i \in 1..n : PlaceIn[i] = SiblingIndex(i)
  <2>1. \A i \in 1..n : SiblingIndex(i) \in Nat
    BY <1>2, SiblingsCounted
  <2> QED BY <2>1 DEF PlaceIn
<1>5. PathIn \in [1..n -> Seq(Nat)] /\ \A i \in 1..n : PathIn[i] = paths[i]
  BY <1>1 DEF PathIn
<1>6. ASSUME NEW i \in 1..n, NEW j \in 1..n, i < j, ParentIn[j] < i
      PROVE  ParentIn[j] <= ParentIn[i]
  <2>1. nodes[j].parent < i - 1
    BY <1>2, <1>3, <1>6 DEF None
  <2>2. nodes[j].parent <= nodes[i].parent
    BY <1>2, <1>6, <2>1, SubtreesAreIntervals
  <2> QED BY <1>2, <1>3, <2>2 DEF None
<1>7. ASSUME NEW i \in 1..n, NEW j \in 1..n, i < j, ParentIn[i] = ParentIn[j]
      PROVE  PlaceIn[i] < PlaceIn[j]
  <2>1. nodes[i].parent = nodes[j].parent
    BY <1>2, <1>3, <1>7 DEF None
  <2> QED BY <1>2, <1>4, <1>7, <2>1, SiblingsCounted
<1>8. ASSUME NEW i \in 1..n
      PROVE  PathIn[i] = IF ParentIn[i] = 0 THEN Numeral[PlaceIn[i]]
                         ELSE Joined(PathIn[ParentIn[i]], Numeral[PlaceIn[i]])
  <2>1. PathIn[i] = PathOf(i)
    BY <1>1, <1>5 DEF TreeInv, PathsSoFar
  <2>2. CASE nodes[i].parent = None
    <3>1. ParentIn[i] = 0
      BY <1>3, <2>2 DEF None
    <3> QED BY <1>4, <2>1, <2>2, <3>1 DEF PathOf
  <2>3. CASE nodes[i].parent # None
    <3>1. ParentIn[i] = nodes[i].parent + 1 /\ ParentIn[i] # 0 /\ ParentIn[i] \in 1..n
      BY <1>1, <1>2, <1>3, <2>3 DEF None
    <3>2. PathIn[ParentIn[i]] = paths[nodes[i].parent + 1]
      BY <1>5, <3>1
    <3>3. PathOf(i) = Joined(paths[nodes[i].parent + 1], Numeral[SiblingIndex(i)])
      BY <2>3 DEF PathOf, Joined
    <3> QED BY <1>4, <2>1, <3>1, <3>2, <3>3
  <2> QED BY <2>2, <2>3
<1>9. \A i \in 1..n : ParentIn[i] < i
  BY <1>2, <1>3
<1> HIDE DEF n
<1> QED BY <1>1, <1>3, <1>4, <1>5, <1>6, <1>7, <1>8, <1>9 DEF IsWalk, n

LEMMA TreeHasPaths ==
  ASSUME IInv, TreeInv
  PROVE  PathsIndexTree
<1> DEFINE n == Len(paths)
           A == [j \in 1..n |-> Ancestors(j)]
<1>1. /\ n \in Nat /\ DOMAIN paths = 1..n /\ \A j \in 1..n : j \in DOMAIN nodes /\ j \in Nat
      /\ \A j \in 1..n : PathIn[j] = paths[j]
      /\ \A j \in 1..n : ParentIn[j] = nodes[j].parent + 1
  <2>1. /\ n \in Nat /\ DOMAIN paths = 1..n /\ n <= Len(nodes) /\ Len(nodes) \in Nat
        /\ DOMAIN nodes = 1..Len(nodes)
    BY DEF IInv, TypeOK, TreeInv, PathsSoFar
  <2> QED BY <2>1 DEF PathIn, ParentIn
<1>2. IsWalk(n, ParentIn, PlaceIn, PathIn)
  BY PathsWalk
<1>3. ASSUME NEW j \in 1..n
      PROVE  A[j] = IF ParentIn[j] = 0 THEN {} ELSE {ParentIn[j] - 1} \cup A[ParentIn[j]]
  <2> DEFINE p == nodes[j].parent
  <2>1. Ancestors(j) = IF p = None THEN {} ELSE {p} \cup Ancestors(p + 1)
    <3>1. nodes \in Seq(ParsedNodes) /\ \A i \in DOMAIN nodes : nodes[i].parent < i - 1
      BY DEF IInv, TypeOK, PositionsAreReadingOrder
    <3> QED BY <1>1, <3>1, AncestorsUnfold
  <2>2. ParentIn[j] = p + 1 /\ p + 1 \in 0..n /\ p \in Int
    <3>1. nodes[j] \in ParsedNodes
      BY <1>1 DEF IInv, TypeOK
    <3>2. p \in Nat \cup {-1}
      BY <3>1 DEF ParsedNodes, None
    <3>3. ParentIn[j] \in 0..n
      BY <1>2, WalkFacts
    <3> QED BY <1>1, <3>2, <3>3
  <2>3. /\ p = None <=> p + 1 = 0
        /\ p # None => p + 1 \in 1..n
        /\ p + 1 - 1 = p
    BY <1>1, <2>2 DEF None
  <2> HIDE DEF p, n
  <2> QED BY <2>1, <2>2, <2>3
<1>4. IsAncestry(n, ParentIn, A)
  <2> HIDE DEF A, n
  <2> QED BY <1>3 DEF IsAncestry
<1>5. ASSUME NEW i \in 1..n, NEW j \in 1..n
      PROVE  /\ paths[i] = paths[j] => i = j
             /\ Below(paths[i], paths[j]) <=> i - 1 \in A[j]
             /\ i - 1 \in A[j] => \A k \in (i + 1)..j : Below(paths[i], paths[k])
  <2> HIDE DEF A, n
  <2>1. PathIn[i] = PathIn[j] => i = j
    BY <1>2, PathsApart
  <2>2. \A k \in 1..n : Below(PathIn[i], PathIn[k]) <=> i - 1 \in A[k]
    BY <1>2, <1>4, WalkNests
  <2>3. i - 1 \in A[j] => \A k \in (i + 1)..j : i - 1 \in A[k]
    BY <1>2, <1>4, SubtreeInOnePiece
  <2>4. \A k \in (i + 1)..j : k \in 1..n
    BY <1>1
  <2> QED BY <1>1, <2>1, <2>2, <2>3, <2>4
<1> QED BY <1>1, <1>5 DEF PathsIndexTree

-----------------------------------------------------------------------------
(* Heading blocks and heading nodes.                                       *)

\* What the merge adds stands for a block or a table; it has no nodes yet.
LEMMA SourcesOfMerge ==
  ASSUME TypeOK, SourceInv, Merge
  PROVE  SourceInv'
<1>1. /\ phase = "merge" /\ item = 1 /\ nodes = <<>>
      /\ input' = input /\ item' = 1 /\ nodes' = <<>>
      /\ phase' \in {"merge", "build"}
  BY DEF Merge, MergeStep, InsertTable, InsertBlock, SkipBlock, InsertLeftover, EndOfMerge,
         SourceInv, LoopBounds, build
<1>2. \/ stream' = stream
      \/ \E x : /\ x.kind # "table" => x = BlockItem(x.src)
                /\ stream' = Append(stream, x)
  <2>1. \A t : TableItem(t).kind = "table"
    BY DEF TableItem
  <2>2. \A i : BlockItem(i).src = i
    BY DEF BlockItem
  <2> QED BY <2>1, <2>2
          DEF Merge, MergeStep, InsertTable, InsertBlock, SkipBlock, InsertLeftover, EndOfMerge
<1>3. \A i : BlockItem(i)' = BlockItem(i)
  BY <1>1 DEF BlockItem, blocks
<1>4. ItemsAreBlocks'
  <2>1. CASE stream' = stream
    BY <1>3, <2>1 DEF SourceInv, ItemsAreBlocks
  <2>2. ASSUME NEW x, x.kind # "table" => x = BlockItem(x.src), stream' = Append(stream, x)
        PROVE  ItemsAreBlocks'
    <3>1. /\ Len(stream) \in Nat /\ DOMAIN stream = 1..Len(stream)
          /\ DOMAIN stream' = 1..(Len(stream) + 1)
          /\ \A p \in DOMAIN stream : stream'[p] = stream[p]
          /\ stream'[Len(stream) + 1] = x
      BY <2>2, StreamGrows DEF TypeOK
    <3>2. ASSUME NEW p \in DOMAIN stream', stream'[p].kind # "table"
          PROVE  stream'[p] = BlockItem(stream'[p].src)
      <4>1. CASE p \in DOMAIN stream
        BY <3>1, <3>2, <4>1 DEF SourceInv, ItemsAreBlocks
      <4>2. CASE p = Len(stream) + 1
        BY <2>2, <3>1, <3>2, <4>2
      <4> QED BY <3>1, <4>1, <4>2
    <3> QED BY <1>3, <3>2 DEF ItemsAreBlocks
  <2> QED BY <1>2, <2>1, <2>2
<1>5. NodesOfHeadings'
  <2>1. \A p \in HeadingItems' : ~(p < item')
    <3>1. \A p \in DOMAIN stream' : p \in Nat /\ p >= 1
      <4>1. CASE stream' = stream
        BY <4>1 DEF TypeOK
      <4>2. ASSUME NEW x, stream' = Append(stream, x) PROVE DOMAIN stream' = 1..(Len(stream) + 1)
        BY <4>2, StreamGrows DEF TypeOK
      <4> QED BY <1>2, <4>1, <4>2 DEF TypeOK
    <3> QED BY <1>1, <3>1 DEF HeadingItems
  <2> QED BY <1>1, <2>1 DEF NodesOfHeadings
<1> QED BY <1>1, <1>4, <1>5 DEF SourceInv, LoopBounds

\* A heading gets a node of its own, behind those of the headings before it.
LEMMA SourcesOfNodes ==
  ASSUME IInv, MergeInv, SourceInv, AddPlain \/ AddHeading \/ AddList
  PROVE  SourceInv'
<1> DEFINE size == Len(nodes)
<1>1. /\ UNCHANGED <<phase, input, stream>> /\ phase = "build" /\ item' = item + 1
      /\ item \in DOMAIN stream /\ item \in Nat /\ Current = stream[item]
      /\ DOMAIN nodes = 1..size /\ DOMAIN nodes' = 1..Len(nodes')
      /\ size \in Nat /\ Len(nodes') \in Nat /\ size < Len(nodes')
      /\ \A n \in 1..size : nodes'[n] = nodes[n]
      /\ DOMAIN stream \subseteq Nat
  BY NodesAdded DEF IInv, TypeOK, Grows, merge
<1>2. /\ nodes'[size + 1].kind = Current.kind /\ nodes'[size + 1].src = Current.src
      /\ Current.kind = "heading" => nodes'[size + 1].level = Current.level
      /\ \A n \in (size + 2)..Len(nodes') : nodes'[n].kind # "heading"
  BY NodesAdded
<1>3. \A n \in DOMAIN nodes' : \/ n \in 1..size
                               \/ n = size + 1
                               \/ nodes'[n].kind # "heading"
  BY <1>1, <1>2
<1> HIDE DEF size
<1>4. HeadingItems' = HeadingItems /\ item < item'
  BY <1>1 DEF HeadingItems
<1>5. ASSUME NEW n \in DOMAIN nodes', nodes'[n].kind = "heading"
      PROVE  \E p \in HeadingItems : /\ p < item'
                                     /\ nodes'[n].src = stream[p].src
                                     /\ nodes'[n].level = stream[p].level
  <2>1. CASE n \in 1..size
    <3>1. PICK p \in HeadingItems : /\ p < item
                                    /\ nodes[n].src = stream[p].src
                                    /\ nodes[n].level = stream[p].level
      BY <1>1, <1>5, <2>1 DEF SourceInv, NodesOfHeadings, IsHeading
    <3>2. p < item'
      BY <1>1, <3>1 DEF HeadingItems
    <3> QED BY <1>1, <2>1, <3>1, <3>2
  <2>2. CASE n = size + 1
    BY <1>1, <1>2, <1>4, <1>5, <2>2 DEF HeadingItems
  <2> QED BY <1>3, <1>5, <2>1, <2>2
<1>6. ASSUME NEW p \in HeadingItems, p < item'
      PROVE  \E n \in DOMAIN nodes' : nodes'[n].kind = "heading" /\ nodes'[n].src = stream[p].src
  <2>1. CASE p < item
    <3>1. PICK n \in DOMAIN nodes : nodes[n].kind = "heading" /\ nodes[n].src = stream[p].src
      BY <2>1 DEF SourceInv, NodesOfHeadings, IsHeading
    <3>2. n \in DOMAIN nodes'
      BY <1>1, <3>1
    <3> QED BY <1>1, <3>1, <3>2
  <2>2. CASE p = item
    <3>1. size + 1 \in DOMAIN nodes'
      BY <1>1
    <3> QED BY <1>1, <1>2, <2>2, <3>1 DEF HeadingItems
  <2> QED BY <1>1, <1>6, <2>1, <2>2 DEF HeadingItems
<1>7. ASSUME NEW m \in DOMAIN nodes', NEW n \in DOMAIN nodes', m < n,
             nodes'[m].kind = "heading", nodes'[n].kind = "heading"
      PROVE  nodes'[m].src < nodes'[n].src
  <2>1. CASE n \in 1..size
    <3>1. m \in 1..size
      BY <1>1, <1>7, <2>1
    <3> QED BY <1>1, <1>7, <2>1, <3>1 DEF SourceInv, NodesOfHeadings, IsHeading
  <2>2. CASE n = size + 1
    <3>1. m \in 1..size
      BY <1>1, <1>7, <2>2
    <3>2. PICK p \in HeadingItems : p < item /\ nodes[m].src = stream[p].src
      BY <1>1, <1>7, <3>1 DEF SourceInv, NodesOfHeadings, IsHeading
    <3>3. stream[p].src < stream[item].src
      <4>1. stream[p].kind = "heading" /\ stream[item].kind = "heading"
        BY <1>1, <1>2, <1>7, <2>2, <3>2 DEF HeadingItems
      <4> QED BY <1>1, <3>2, <4>1 DEF MergeInv, ItemsApart, HeadingItems
    <3> QED BY <1>1, <1>2, <2>2, <3>1, <3>2, <3>3
  <2> QED BY <1>3, <1>7, <2>1, <2>2
<1>8. NodesOfHeadings'
  BY <1>1, <1>4, <1>5, <1>6, <1>7 DEF NodesOfHeadings, IsHeading
<1>9. ItemsAreBlocks' /\ LoopBounds'
  BY <1>1 DEF SourceInv, ItemsAreBlocks, LoopBounds, BlockItem, blocks
<1> QED BY <1>8, <1>9 DEF SourceInv

LEMMA SourceStep == IInv /\ MergeInv /\ SourceInv /\ [Next]_vars => SourceInv'
<1> SUFFICES ASSUME IInv, MergeInv, SourceInv, [Next]_vars PROVE SourceInv'
    OBVIOUS
<1>1. CASE Merge
  BY <1>1, SourcesOfMerge DEF IInv
<1>2. CASE AddPlain \/ AddHeading \/ AddList
  BY <1>2, SourcesOfNodes
<1>3. CASE EndOfStream \/ AssignPath \/ Return \/ UNCHANGED vars
  <2>1. /\ UNCHANGED <<input, stream, item, nodes>>
        /\ phase' \notin {"build", "paths", "done"} => phase \notin {"build", "paths", "done"}
        /\ phase' \in {"paths", "done"} => phase \in {"paths", "done"} \/ item \notin DOMAIN stream
    BY <1>3 DEF EndOfStream, AssignPath, Return, vars, merge, build
  <2>2. LoopBounds'
    BY <2>1 DEF SourceInv, LoopBounds
  <2> QED BY <2>1, <2>2 DEF SourceInv, ItemsAreBlocks, NodesOfHeadings, HeadingItems, IsHeading,
                           BlockItem, blocks
<1> QED BY <1>1, <1>2, <1>3 DEF Next

\* The tree of a document as the theorems below need it.
BuiltInv == IInv /\ MergeInv /\ TreeInv /\ SourceInv

LEMMA BuiltStep == BuiltInv /\ [Next]_vars => BuiltInv'
<1>1. IInv => TypeOK
  BY DEF IInv
<1> QED BY <1>1, InductiveStep, MergeOrderStep, TreeStep, SourceStep, Zenon DEF BuiltInv

LEMMA InitBuiltInv == Init => BuiltInv
<1>1. Init => MergeInv
  BY DEF Init, MergeInit, MergeInv, SourcesKnown, ItemsApart, TextPlaced, HigherTablesFirst,
         LowerTextFollows, MergeEnds, Text
<1> QED BY <1>1, InitIInv, InitTreeInv DEF BuiltInv

\* The path strings identify the nodes and index the tree, for any input and any number
\* of siblings: what begins with a path and a dot is the subtree, which stands in one
\* piece in the list (hierarchy_builder.py:386).
THEOREM PathsIndexTheTree == Spec => []PathsIndexTree
<1>1. Init => BuiltInv
  BY InitBuiltInv
<1>2. BuiltInv /\ [Next]_vars => BuiltInv'
  BY BuiltStep
<1>3. BuiltInv => PathsIndexTree
  BY TreeHasPaths DEF BuiltInv
<1> QED BY <1>1, <1>2, <1>3, PTL DEF Spec

-----------------------------------------------------------------------------
(* Items and nodes.                                                        *)

\* No two items of the stream have the kind and the source in common.
LEMMA ItemsDiffer ==
  ASSUME stream \in Seq(Items), ItemsApart,
         NEW p \in DOMAIN stream, NEW q \in DOMAIN stream,
         stream[p].kind = stream[q].kind, stream[p].src = stream[q].src
  PROVE  p = q
<1>1. stream[p].src \in Nat /\ p \in Nat /\ q \in Nat
  <2>1. stream[p] \in Items
    OBVIOUS
  <2>2. p \in Nat /\ q \in Nat
    OBVIOUS
  <2> QED BY <2>1, <2>2 DEF Items
<1>2. ~(p < q) /\ ~(q < p)
  BY <1>1 DEF ItemsApart
<1> QED BY <1>1, <1>2

\* Only list items have another parent than a heading.
LEMMA ParentsAreHeadings ==
  IInv /\ TreeInv =>
    \A n \in DOMAIN nodes :
      nodes[n].kind # "list_item" /\ nodes[n].parent # None =>
        nodes[nodes[n].parent + 1].kind = "heading"
<1> SUFFICES ASSUME IInv, TreeInv, NEW n \in DOMAIN nodes,
                    nodes[n].kind # "list_item", nodes[n].parent # None
             PROVE  nodes[nodes[n].parent + 1].kind = "heading"
    OBVIOUS
<1>1. nodes \in Seq(ParsedNodes) /\ NestsAt(n) /\ IsContentAt(n) /\ LevelsAreHeadings
  BY DEF IInv, TypeOK, HeadingsNest, ContentUnderLastHeading, TreeInv
<1>2. nodes[n].parent \in Headings(n - 1)
  <2>1. nodes[n].kind \in {"heading", "paragraph", "table", "list"}
    <3>1. nodes[n] \in ParsedNodes
      BY <1>1
    <3> QED BY <3>1 DEF ParsedNodes, Kinds
  <2>2. \A S : IsLast(nodes[n].parent, S) => nodes[n].parent \in S
    BY DEF IsLast
  <2>3. CASE nodes[n].kind = "heading"
    BY <1>1, <2>2, <2>3 DEF NestsAt
  <2>4. CASE nodes[n].kind # "heading"
    BY <1>1, <2>1, <2>2, <2>4 DEF IsContentAt
  <2> QED BY <2>3, <2>4
<1>3. nodes[n].parent + 1 \in DOMAIN nodes /\ nodes[nodes[n].parent + 1].level # 0
  <2>1. n \in 1..Len(nodes) /\ Len(nodes) \in Nat /\ DOMAIN nodes = 1..Len(nodes)
    BY <1>1
  <2> QED BY <1>2, <2>1 DEF Headings, At
<1> QED BY <1>1, <1>3 DEF LevelsAreHeadings, IsHeading

LEMMA ParentsAreHeadingsNext ==
  (IInv /\ TreeInv =>
    \A n \in DOMAIN nodes :
      nodes[n].kind # "list_item" /\ nodes[n].parent # None =>
        nodes[nodes[n].parent + 1].kind = "heading")'
BY ParentsAreHeadings, PTL

\* An item becomes a node; a list brings its items, and no other list gets any.
LEMMA NodesOfItem ==
  ASSUME IInv, IInv', TreeInv', MergeInv, NodesInv, AddPlain \/ AddHeading \/ AddList
  PROVE  NodesInv'
<1> DEFINE size == Len(nodes)
<1>1. /\ stream' = stream /\ item' = item + 1 /\ item \in DOMAIN stream /\ item \in Nat
      /\ DOMAIN stream \subseteq Nat /\ Current = stream[item]
      /\ size \in Nat /\ Len(nodes') \in Nat /\ size < Len(nodes')
      /\ DOMAIN nodes = 1..size /\ DOMAIN nodes' = 1..Len(nodes')
      /\ \A n \in 1..size : nodes'[n] = nodes[n]
      /\ \A p \in DOMAIN stream : stream[p].kind # "list_item"
      /\ stream \in Seq(Items) /\ ItemsApart
  <2>1. \A x \in Items : x.kind # "list_item"
    BY DEF Items, Kinds
  <2> QED BY <2>1, NodesAdded DEF IInv, TypeOK, Grows, merge, MergeInv
<1>2. /\ nodes'[size + 1].kind = Current.kind /\ nodes'[size + 1].src = Current.src
      /\ \A n \in (size + 2)..Len(nodes') :
           nodes'[n].kind = "list_item" /\ nodes'[n].parent = size
  BY NodesAdded
<1>3. Current.kind = "list" => Current.size \in Nat /\ Len(nodes') = size + 1 + Current.size
  <2> SUFFICES ASSUME Current.kind = "list"
               PROVE  Current.size \in Nat /\ Len(nodes') = size + 1 + Current.size
      OBVIOUS
  <2>1. AddList
    BY DEF AddPlain, AddHeading, Handle
  <2>2. PICK count \in Nat : Len(nodes') = position + count + 1 /\ count = Current.size
    BY <2>1, ListNodes
  <2>3. position = size /\ size \in Nat
    BY <1>1 DEF IInv, PositionsAreReadingOrder
  <2>4. count \in Nat /\ count = Current.size /\ Len(nodes') = position + count + 1
    BY <2>2
  <2> HIDE DEF size
  <2>5. Len(nodes') = size + 1 + count
    BY ONLY <2>3, <2>4
  <2> QED BY <2>4, <2>5
<1> HIDE DEF size
<1> PICK fresh \in Nat : fresh = size + 1
  BY <1>1
<1> PICK here \in DOMAIN stream : here = item
  BY <1>1
<1>4. ASSUME NEW n \in DOMAIN nodes', NEW p \in DOMAIN stream, MadeOf(n, p)'
      PROVE  \/ n \in 1..size /\ MadeOf(n, p) /\ p < item
             \/ n = size + 1 /\ p = item
  <2>1. nodes'[n].kind = stream[p].kind /\ nodes'[n].src = stream[p].src
    BY <1>1, <1>4 DEF MadeOf
  <2>2. n \in 1..(size + 1)
    BY <1>1, <1>2, <2>1
  <2>3. CASE n \in 1..size
    <3>1. MadeOf(n, p) /\ n \in DOMAIN nodes /\ nodes[n].kind # "list_item"
      BY <1>1, <2>1, <2>3 DEF MadeOf
    <3>2. PICK q \in DOMAIN stream : q < item /\ MadeOf(n, q)
      BY <3>1 DEF NodesInv
    <3>3. p = q
      BY <1>1, <3>1, <3>2, ItemsDiffer DEF MadeOf
    <3> QED BY <2>3, <3>1, <3>2, <3>3
  <2>4. CASE n = size + 1
    BY <1>1, <1>2, <2>1, <2>4, ItemsDiffer
  <2> QED BY <1>1, <2>2, <2>3, <2>4
<1>5. ASSUME NEW n \in DOMAIN nodes', nodes'[n].kind # "list_item"
      PROVE  \E p \in DOMAIN stream' : p < item' /\ MadeOf(n, p)'
  <2>1. CASE n \in 1..size
    <3>1. PICK p \in DOMAIN stream : p < item /\ MadeOf(n, p)
      BY <1>1, <1>5, <2>1 DEF NodesInv
    <3>2. p < item' /\ MadeOf(n, p)'
      BY <1>1, <2>1, <3>1 DEF MadeOf
    <3> QED BY <1>1, <3>2
  <2>2. CASE n = size + 1
    <3>1. here < item' /\ MadeOf(n, here)'
      BY <1>1, <1>2, <2>2 DEF MadeOf
    <3> QED BY <1>1, <3>1
  <2> QED BY <1>1, <1>2, <1>5, <2>1, <2>2
<1>6. ASSUME NEW p \in DOMAIN stream', p < item'
      PROVE  \E n \in DOMAIN nodes' : MadeOf(n, p)'
  <2>1. CASE p < item
    <3>1. PICK n \in DOMAIN nodes : MadeOf(n, p)
      BY <1>1, <2>1 DEF NodesInv
    <3>2. n \in DOMAIN nodes' /\ MadeOf(n, p)'
      BY <1>1, <3>1 DEF MadeOf
    <3> QED BY <3>2
  <2>2. CASE p = item
    <3>1. fresh \in DOMAIN nodes' /\ MadeOf(fresh, p)'
      BY <1>1, <1>2, <2>2 DEF MadeOf
    <3> QED BY <3>1
  <2> QED BY <1>1, <1>6, <2>1, <2>2
<1>7. ASSUME NEW m \in DOMAIN nodes', NEW n \in DOMAIN nodes',
             NEW p \in DOMAIN stream', NEW q \in DOMAIN stream',
             m < n, MadeOf(m, p)', MadeOf(n, q)'
      PROVE  p < q
  <2>1. p \in DOMAIN stream /\ q \in DOMAIN stream
    BY <1>1
  <2>2. /\ m \in 1..size /\ MadeOf(m, p) /\ p < item
    BY <1>1, <1>4, <1>7, <2>1
  <2>3. CASE n \in 1..size /\ MadeOf(n, q) /\ q < item
    BY <1>1, <1>7, <2>1, <2>2, <2>3 DEF NodesInv
  <2> QED BY <1>4, <1>7, <2>1, <2>2, <2>3
<1>8. ASSUME NEW n \in DOMAIN nodes', NEW p \in DOMAIN stream',
             nodes'[n].kind = "list", MadeOf(n, p)'
      PROVE  ChildrenOf(n)' = (n + 1)..(n + stream'[p].size)
  <2>1. nodes'[size + 1].parent # None =>
          nodes'[nodes'[size + 1].parent + 1].kind = "heading" \/ nodes'[size + 1].kind = "list_item"
    BY <1>1, ParentsAreHeadingsNext
  <2>2. \A m \in DOMAIN nodes' : nodes'[m].parent < m - 1
    BY DEF IInv, PositionsAreReadingOrder
  <2>3. CASE n \in 1..size /\ MadeOf(n, p) /\ p < item
    <3>1. ChildrenOf(n) = (n + 1)..(n + stream[p].size)
      BY <1>1, <1>8, <2>3 DEF NodesInv
    <3>2. ASSUME NEW m \in DOMAIN nodes' PROVE nodes'[m].parent = n - 1 <=> m \in ChildrenOf(n)
      <4>1. CASE m \in 1..size
        BY <1>1, <4>1 DEF ChildrenOf
      <4>2. CASE m = size + 1
        <5>1. nodes'[m].parent # n - 1
          <6> SUFFICES ASSUME nodes'[m].parent = n - 1 PROVE FALSE
              OBVIOUS
          <6>1. n \in Nat \ {0} /\ nodes'[m].parent # None /\ nodes'[m].parent + 1 = n
            BY <1>1, <2>3 DEF None
          <6>2. nodes'[m].kind # "list_item"
            BY <1>1, <1>2, <4>2
          <6> QED BY <1>8, <2>1, <4>2, <6>1, <6>2
        <5> QED BY <1>1, <4>2, <5>1 DEF ChildrenOf
      <4>3. CASE m \in (size + 2)..Len(nodes')
        BY <1>1, <1>2, <2>3, <4>3 DEF ChildrenOf
      <4> QED BY <1>1, <4>1, <4>2, <4>3
    <3>3. ChildrenOf(n)' = ChildrenOf(n)
      BY <1>1, <3>2 DEF ChildrenOf
    <3> QED BY <1>1, <3>1, <3>3
  <2>4. CASE n = size + 1 /\ p = item
    <3>1. stream'[p] = Current /\ Current.kind = "list"
      BY <1>1, <1>2, <1>8, <2>4
    <3>2. ASSUME NEW m \in DOMAIN nodes'
          PROVE  nodes'[m].parent = n - 1 <=> m \in (size + 2)..Len(nodes')
      <4>1. nodes'[m].parent \in Int
        <5>1. nodes'[m] \in ParsedNodes
          BY DEF IInv, TypeOK
        <5> QED BY <5>1 DEF ParsedNodes, None
      <4> QED BY <1>1, <1>2, <2>2, <2>4, <4>1
    <3>3. (size + 2)..Len(nodes') = (n + 1)..(n + stream'[p].size)
      BY <1>1, <1>3, <2>4, <3>1
    <3>4. ChildrenOf(n)' = (size + 2)..Len(nodes')
      <4>1. (size + 2)..Len(nodes') \subseteq DOMAIN nodes'
        BY <1>1
      <4> QED BY <3>2, <4>1 DEF ChildrenOf
    <3> QED BY <3>3, <3>4
  <2> QED BY <1>1, <1>4, <1>8, <2>3, <2>4
<1> QED BY <1>5, <1>6, <1>7, <1>8 DEF NodesInv

LEMMA NodesStep == BuiltInv /\ NodesInv /\ [Next]_vars => NodesInv'
<1> SUFFICES ASSUME BuiltInv, NodesInv, [Next]_vars PROVE NodesInv'
    OBVIOUS
<1>0. BuiltInv'
  BY BuiltStep
<1>1. CASE Merge
  <2>1. item' = 1 /\ nodes' = <<>>
    BY <1>1 DEF Merge, MergeStep, InsertTable, InsertBlock, SkipBlock, InsertLeftover,
         EndOfMerge, build, BuiltInv, SourceInv, LoopBounds
  <2>2. \A p \in DOMAIN stream' : ~(p < item')
    BY <1>0, <2>1 DEF BuiltInv, IInv, TypeOK
  <2> QED BY <2>1, <2>2 DEF NodesInv
<1>2. CASE AddPlain \/ AddHeading \/ AddList
  BY <1>0, <1>2, NodesOfItem DEF BuiltInv
<1>3. CASE EndOfStream \/ AssignPath \/ Return \/ UNCHANGED vars
  <2>1. UNCHANGED <<stream, item, nodes>>
    BY <1>3 DEF EndOfStream, AssignPath, Return, vars, merge, build
  <2> QED BY <2>1 DEF NodesInv, MadeOf, ChildrenOf
<1> QED BY <1>1, <1>2, <1>3 DEF Next

\* Blocks and tables become items, and items become nodes.
LEMMA TreeOfStream ==
  ASSUME BuiltInv, NodesInv
  PROVE  TreeIsComplete
<1> SUFFICES ASSUME phase = "done" PROVE TreeIsComplete
    BY DEF TreeIsComplete
<1>1. /\ stream \in Seq(Items) /\ DOMAIN stream \subseteq Nat /\ ItemsApart
      /\ \A p \in DOMAIN stream : p < item
      /\ \A n \in DOMAIN nodes : n \in Nat /\ nodes[n] \in ParsedNodes
      /\ \A p \in DOMAIN stream :
           IF stream[p].kind = "table" THEN stream[p].src \in DOMAIN tables
                                       ELSE stream[p].src \in Text
      /\ \A t \in DOMAIN tables : TablePlaces(t) # {}
      /\ \A i \in Text : BlockPlaces(i) # {}
  <2>1. IsInput(input) /\ stream \in Seq(Items) /\ next \in Nat /\ MergeInv /\ item \in Nat \ {0}
    BY DEF BuiltInv, IInv, TypeOK
  <2>2. item \notin DOMAIN stream
    BY DEF BuiltInv, SourceInv, LoopBounds
  <2>3. \A p \in DOMAIN stream : p < item
    BY <2>1, <2>2
  <2> QED BY <2>1, <2>3, MergedStream DEF BuiltInv, IInv, TypeOK, MergeInv
<1>2. ASSUME NEW n \in DOMAIN nodes, nodes[n].kind # "list_item"
      PROVE  \E p \in DOMAIN stream : MadeOf(n, p)
  BY <1>2 DEF NodesInv
\* A node made of an item is the only one of its kind and source.
<1>3. ASSUME NEW p \in DOMAIN stream
      PROVE  \E n \in DOMAIN nodes :
               /\ MadeOf(n, p)
               /\ \A m \in DOMAIN nodes :
                    /\ (nodes[m].kind = "table" <=> stream[p].kind = "table")
                    /\ nodes[m].kind # "list_item" /\ nodes[m].src = stream[p].src
                    => m = n
  <2>1. PICK n \in DOMAIN nodes : MadeOf(n, p)
    BY <1>1 DEF NodesInv
  <2>2. ASSUME NEW m \in DOMAIN nodes,
               (nodes[m].kind = "table" <=> stream[p].kind = "table"),
               nodes[m].kind # "list_item", nodes[m].src = stream[p].src
        PROVE  m = n
    <3>1. PICK q \in DOMAIN stream : MadeOf(m, q)
      BY <1>2, <2>2
    <3>2. p = q
      <4>1. stream[p].src = stream[q].src /\ stream[p].src \in Nat
            /\ (stream[p].kind = "table" <=> stream[q].kind = "table")
        <5>1. stream[p].src \in Nat
          <6>1. stream[p] \in Items
            BY <1>1
          <6> QED BY <6>1 DEF Items
        <5> QED BY <2>2, <3>1, <5>1 DEF MadeOf
      <4>2. ~(p < q) /\ ~(q < p)
        BY <1>1, <4>1 DEF ItemsApart
      <4> QED BY <1>1, <4>2
    <3>3. ~(m < n) /\ ~(n < m)
      <4>1. ~(p < p)
        BY <1>1
      <4> QED BY <1>1, <2>1, <3>1, <3>2, <4>1 DEF NodesInv
    <3> QED BY <1>1, <3>3
  <2> QED BY <2>1, <2>2
<1>4. ASSUME NEW i \in Text
      PROVE  \E n \in DOMAIN nodes :
               /\ NodesOfBlock(i) = {n} /\ nodes[n].kind = blocks[i].kind
               /\ blocks[i].kind = "list" => ChildrenOf(n) = (n + 1)..(n + blocks[i].size)
  <2>1. PICK p \in DOMAIN stream : stream[p].kind # "table" /\ stream[p].src = i
    BY <1>1 DEF BlockPlaces
  <2>2. stream[p].kind = blocks[i].kind /\ stream[p].size = blocks[i].size
    <3>1. stream[p] = BlockItem(i)
      BY <2>1 DEF BuiltInv, SourceInv, ItemsAreBlocks
    <3> QED BY <3>1 DEF BlockItem
  <2>3. blocks[i].kind \in Kinds
    <3>1. IsBlock(blocks[i]) /\ blocks[i].kind # "skipped"
      BY DEF BuiltInv, IInv, TypeOK, IsInput, Text, blocks
    <3> QED BY <3>1 DEF IsBlock
  <2>4. PICK n \in DOMAIN nodes :
          /\ MadeOf(n, p)
          /\ \A m \in DOMAIN nodes :
               /\ (nodes[m].kind = "table" <=> stream[p].kind = "table")
               /\ nodes[m].kind # "list_item" /\ nodes[m].src = stream[p].src
               => m = n
    BY <1>3
  <2>5. NodesOfBlock(i) = {n}
    <3>1. n \in NodesOfBlock(i)
      BY <2>1, <2>2, <2>3, <2>4 DEF MadeOf, NodesOfBlock
    <3>2. ASSUME NEW m \in NodesOfBlock(i) PROVE m = n
      <4>1. m \in DOMAIN nodes /\ nodes[m].kind \in Kinds /\ nodes[m].src = i
        BY DEF NodesOfBlock
      <4>2. nodes[m].kind # "table" /\ nodes[m].kind # "list_item"
        BY <4>1 DEF Kinds
      <4> QED BY <2>1, <2>4, <4>1, <4>2
    <3> QED BY <3>1, <3>2
  <2>6. blocks[i].kind = "list" => ChildrenOf(n) = (n + 1)..(n + blocks[i].size)
    BY <1>1, <2>2, <2>4 DEF NodesInv, MadeOf
  <2> QED BY <2>2, <2>4, <2>5, <2>6 DEF MadeOf
<1>5. ASSUME NEW t \in DOMAIN tables PROVE \E n \in DOMAIN nodes : NodesOfTable(t) = {n}
  <2>1. PICK p \in DOMAIN stream : stream[p].kind = "table" /\ stream[p].src = t
    BY <1>1 DEF TablePlaces
  <2>2. PICK n \in DOMAIN nodes :
          /\ MadeOf(n, p)
          /\ \A m \in DOMAIN nodes :
               /\ (nodes[m].kind = "table" <=> stream[p].kind = "table")
               /\ nodes[m].kind # "list_item" /\ nodes[m].src = stream[p].src
               => m = n
    BY <1>3
  <2>3. n \in NodesOfTable(t) /\ \A m \in NodesOfTable(t) : m = n
    BY <2>1, <2>2 DEF MadeOf, NodesOfTable
  <2> QED BY <2>3
<1>6. ASSUME NEW n \in DOMAIN nodes
      PROVE  \/ nodes[n].kind = "list_item"
             \/ nodes[n].kind = "table" /\ nodes[n].src \in DOMAIN tables
             \/ nodes[n].kind \in Kinds /\ nodes[n].src \in Text
  <2> SUFFICES ASSUME nodes[n].kind # "list_item"
               PROVE  IF nodes[n].kind = "table" THEN nodes[n].src \in DOMAIN tables
                      ELSE nodes[n].kind \in Kinds /\ nodes[n].src \in Text
      OBVIOUS
  <2>1. PICK p \in DOMAIN stream : MadeOf(n, p)
    BY <1>2
  <2> QED BY <1>1, <2>1 DEF MadeOf, ParsedNodes
<1>7. ASSUME NEW m \in DOMAIN nodes, NEW n \in DOMAIN nodes, m < n,
             nodes[m].kind \in Kinds, nodes[n].kind \in Kinds
      PROVE  nodes[m].src < nodes[n].src
  <2>1. /\ nodes[m].kind # "list_item" /\ nodes[m].kind # "table"
        /\ nodes[n].kind # "list_item" /\ nodes[n].kind # "table"
    BY <1>7 DEF Kinds
  <2>2. PICK p \in DOMAIN stream : MadeOf(m, p)
    BY <1>2, <2>1
  <2>3. PICK q \in DOMAIN stream : MadeOf(n, q)
    BY <1>2, <2>1
  <2>4. p < q
    BY <1>1, <1>7, <2>2, <2>3 DEF NodesInv
  <2> QED BY <1>1, <2>1, <2>2, <2>3, <2>4 DEF MadeOf, ItemsApart
<1> QED BY <1>4, <1>5, <1>6, <1>7 DEF TreeIsComplete

\* Nothing is lost or doubled between the blocks and tables of a document and the
\* nodes of its tree, for any input (hierarchy_builder.py:96).
THEOREM TreeComplete == Spec => []TreeIsComplete
<1>1. Init => BuiltInv /\ NodesInv
  <2>1. Init => NodesInv
    BY DEF Init, MergeInit, NodesInv
  <2> QED BY <2>1, InitBuiltInv
<1>2. BuiltInv /\ NodesInv /\ [Next]_vars => (BuiltInv /\ NodesInv)'
  BY BuiltStep, NodesStep
<1>3. BuiltInv /\ NodesInv => TreeIsComplete
  BY TreeOfStream
<1> QED BY <1>1, <1>2, <1>3, PTL DEF Spec

-----------------------------------------------------------------------------
\* The list of the headings of the document and the heading nodes correspond.
LEMMA HeadingNodes ==
  ASSUME IInv, MergeInv, SourceInv, phase = "done"
  PROVE  /\ \A n \in DOMAIN nodes : IsHeading(n) =>
              nodes[n].src \in HeadingBlocks /\ nodes[n].level = blocks[nodes[n].src].level
         /\ \A i \in HeadingBlocks :
              /\ NodeOf(i) \in DOMAIN nodes /\ IsHeading(NodeOf(i))
              /\ nodes[NodeOf(i)].src = i
<1>1. /\ \A p \in DOMAIN stream : p \in Nat /\ p < item
      /\ next > Len(blocks) /\ next \in Nat /\ Len(blocks) \in Nat
      /\ DOMAIN blocks = 1..Len(blocks)
  <2>1. /\ stream \in Seq(Items) /\ item \in Nat \ {0} /\ item \notin DOMAIN stream
        /\ next \in Nat /\ next > Len(blocks)
        /\ Len(blocks) \in Nat /\ DOMAIN blocks = 1..Len(blocks)
    BY DEF IInv, TypeOK, SourceInv, LoopBounds, MergeInv, MergeEnds, IsInput, blocks
  <2> QED BY <2>1
<1>2. ASSUME NEW n \in DOMAIN nodes, IsHeading(n)
      PROVE  nodes[n].src \in HeadingBlocks /\ nodes[n].level = blocks[nodes[n].src].level
  <2>1. PICK p \in HeadingItems : nodes[n].src = stream[p].src /\ nodes[n].level = stream[p].level
    BY <1>2 DEF SourceInv, NodesOfHeadings
  <2>2. /\ p \in DOMAIN stream /\ stream[p].kind = "heading"
        /\ stream[p] = BlockItem(stream[p].src) /\ stream[p].src \in DOMAIN blocks
    BY <2>1 DEF HeadingItems, SourceInv, ItemsAreBlocks, MergeInv, SourcesKnown, Text
  <2>3. blocks[stream[p].src].kind = "heading" /\ blocks[stream[p].src].level = stream[p].level
    BY <2>2 DEF BlockItem
  <2> QED BY <2>1, <2>2, <2>3 DEF HeadingBlocks
<1>3. ASSUME NEW i \in HeadingBlocks
      PROVE  \E n \in DOMAIN nodes : nodes[n].kind = "heading" /\ nodes[n].src = i
  <2>1. i \in Text /\ i < next
    BY <1>1 DEF HeadingBlocks, Text
  <2>2. PICK p \in DOMAIN stream : stream[p].kind # "table" /\ stream[p].src = i
    BY <2>1 DEF MergeInv, TextPlaced, BlockPlaces
  <2>3. stream[p].kind = "heading"
    <3>1. stream[p] = BlockItem(i)
      BY <2>2 DEF SourceInv, ItemsAreBlocks
    <3>2. BlockItem(i).kind = "heading"
      BY DEF BlockItem, HeadingBlocks
    <3> QED BY <3>1, <3>2
  <2>4. p \in HeadingItems /\ p < item
    BY <1>1, <2>3 DEF HeadingItems
  <2> QED BY <2>2, <2>4 DEF SourceInv, NodesOfHeadings, IsHeading
<1>4. ASSUME NEW i \in HeadingBlocks
      PROVE  /\ NodeOf(i) \in DOMAIN nodes /\ IsHeading(NodeOf(i))
             /\ nodes[NodeOf(i)].src = i
  BY <1>3 DEF NodeOf, IsHeading
<1> QED BY <1>2, <1>4

\* Headings that follow heading i and are deeper than it are below it, up to the first
\* that is not.
LEMMA DeeperHeadingsNest ==
  ASSUME IInv, MergeInv, TreeInv, SourceInv, phase = "done",
         NEW i \in HeadingBlocks, NEW j \in HeadingBlocks, i < j,
         \A k \in HeadingBlocks \cap i..j : k # i => blocks[i].level < blocks[k].level
  PROVE  Below(paths[NodeOf(i)], paths[NodeOf(j)])
<1> DEFINE a == NodeOf(i)
           z == NodeOf(j)
           S == {n \in (a + 1)..z : IsHeading(n)}
           size == Len(paths)
<1>1. /\ a \in DOMAIN nodes /\ IsHeading(a) /\ nodes[a].src = i /\ nodes[a].level = blocks[i].level
      /\ z \in DOMAIN nodes /\ IsHeading(z) /\ nodes[z].src = j
  BY HeadingNodes
<1> HIDE DEF a, z
<1>2. /\ DOMAIN nodes = 1..size /\ DOMAIN paths = 1..size /\ size \in Nat
      /\ \A n \in DOMAIN nodes : nodes[n] \in ParsedNodes
      /\ i \in Nat /\ j \in Nat
  <2>1. HeadingBlocks \subseteq Nat
    BY DEF HeadingBlocks, IInv, TypeOK, IsInput, blocks
  <2> QED BY <2>1 DEF IInv, TypeOK, TreeInv, PathsSoFar
<1>3. a < z
  <2>1. a # z
    BY <1>1, <1>2
  <2>2. ~(z < a)
    <3> SUFFICES ASSUME z < a PROVE FALSE
        OBVIOUS
    <3>1. nodes[z].src < nodes[a].src
      BY <1>1 DEF SourceInv, NodesOfHeadings
    <3> QED BY <1>1, <1>2, <3>1
  <2> QED BY <1>1, <1>2, <2>1, <2>2
<1>4. ASSUME NEW n \in S PROVE n \in 1..size /\ n \in Nat /\ IsHeading(n) /\ nodes[a].level < nodes[n].level
  <2>1. n \in 1..size /\ a < n /\ n <= z /\ n \in DOMAIN nodes /\ IsHeading(n) /\ n \in Nat
    BY <1>1, <1>2
  <2>2. nodes[n].src \in HeadingBlocks /\ nodes[n].level = blocks[nodes[n].src].level
    BY <2>1, HeadingNodes
  <2>3. i < nodes[n].src /\ (n = z \/ nodes[n].src < j)
    <3>1. \A k, m \in DOMAIN nodes :
            k < m /\ IsHeading(k) /\ IsHeading(m) => nodes[k].src < nodes[m].src
      BY DEF SourceInv, NodesOfHeadings
    <3>2. n = z \/ n < z
      BY <1>1, <1>2, <2>1
    <3> QED BY <1>1, <2>1, <3>1, <3>2
  <2>4. nodes[n].src \in HeadingBlocks \cap i..j /\ nodes[n].src # i
    <3>1. nodes[n].src \in Nat
      BY <1>2, <2>1 DEF ParsedNodes
    <3> QED BY <1>1, <1>2, <2>2, <2>3, <3>1
  <2> QED BY <1>1, <2>1, <2>2, <2>4
<1>5. IsWalk(size, ParentIn, PlaceIn, PathIn)
  BY PathsWalk
<1>6. ASSUME NEW n \in S PROVE ParentIn[n] = a \/ ParentIn[n] \in S
  <2> DEFINE p == nodes[n].parent
  <2>1. /\ n \in DOMAIN nodes /\ a < n /\ n <= z /\ IsHeading(n) /\ NestsAt(n)
        /\ LevelsAreHeadings /\ a \in Nat /\ n \in Nat /\ z \in Nat
    BY <1>1, <1>2, <1>4 DEF IInv, HeadingsNest, TreeInv
  <2>2. IsLast(p, {q \in Headings(n - 1) : At(q).level < nodes[n].level})
    BY <2>1 DEF NestsAt, IsHeading
  <2>3. a - 1 \in {q \in Headings(n - 1) : At(q).level < nodes[n].level}
    <3>1. At(a - 1) = nodes[a] /\ nodes[a].level # 0 /\ a - 1 \in 0..(n - 2)
      BY <1>1, <1>2, <2>1 DEF At, LevelsAreHeadings
    <3> QED BY <1>4, <2>1, <3>1 DEF Headings
  <2>4. p \in Headings(n - 1) /\ a - 1 <= p
    BY <2>2, <2>3 DEF IsLast
  <2>5. p \in 0..(n - 2) /\ nodes[p + 1].level # 0
    BY <2>1, <2>4 DEF Headings, At
  <2>6. IsHeading(p + 1)
    BY <1>2, <2>1, <2>5 DEF LevelsAreHeadings
  <2>7. ParentIn[n] = p + 1
    BY <1>2, <2>1 DEF ParentIn
  <2>8. p + 1 = a \/ p + 1 \in (a + 1)..z
    BY <2>1, <2>4, <2>5
  <2> QED BY <2>6, <2>7, <2>8
<1>7. S \subseteq 1..size /\ z \in S /\ a \in 1..size
  BY <1>1, <1>2, <1>3, <1>4
<1> HIDE DEF S
<1>8. Below(PathIn[a], PathIn[z])
  <2>1. \A n \in S : ParentIn[n] = a \/ ParentIn[n] \in S
    BY <1>6
  <2> HIDE DEF size
  <2> QED BY <1>5, <1>7, <2>1, WalkBelow
<1>9. PathIn[a] = paths[a] /\ PathIn[z] = paths[z]
  BY <1>1, <1>2 DEF PathIn
<1> QED BY <1>8, <1>9 DEF a, z

-----------------------------------------------------------------------------
(* The passes before the builder.                                          *)

BuilderIdle ==
  /\ next = 1 /\ stream = <<>>
  /\ item = 1 /\ position = 0 /\ stack = [l \in Levels |-> None]
  /\ nodes = <<>> /\ paths = <<>>

NoInput == [blocks |-> <<>>, tables |-> <<>>]

\* A builder that starts on an input it can take is where Init puts it.
LEMMA FreshIInv == BuilderIdle /\ phase = "merge" /\ IsInput(input) => IInv
<1> SUFFICES ASSUME BuilderIdle, phase = "merge", IsInput(input) PROVE IInv
    OBVIOUS
<1> USE InputAssumption DEF BuilderIdle
<1>1. TypeOK
  BY DEF TypeOK, None, Levels, Items, ParsedNodes
<1>2. PositionsAreReadingOrder /\ HeadingsNest /\ ContentUnderLastHeading
  BY DEF PositionsAreReadingOrder, HeadingsNest, ContentUnderLastHeading
<1>3. StackKnowsLast
  <2> SUFFICES ASSUME NEW depth \in 1..(MaxDepth + 1), NEW parent \in None..(position - 1),
                      IsNearest(parent, depth)
               PROVE  IsLast(parent, {p \in Headings(position) : At(p).level < depth})
      BY DEF StackKnowsLast
  <2>1. Headings(position) = {}
    BY DEF Headings
  <2>2. parent = None
    BY DEF None
  <2> QED BY <2>1, <2>2 DEF IsLast
<1> QED BY <1>1, <1>2, <1>3 DEF IInv

LEMMA FreshMergeInv == BuilderIdle /\ phase = "merge" => MergeInv
<1> SUFFICES ASSUME BuilderIdle, phase = "merge" PROVE MergeInv
    OBVIOUS
<1>1. next = 1 /\ DOMAIN stream = {} /\ \A i \in Text : i \in DOMAIN blocks
  BY DEF BuilderIdle, Text
<1> QED BY <1>1 DEF MergeInv, SourcesKnown, ItemsApart, TextPlaced, HigherTablesFirst,
                    LowerTextFollows, MergeEnds

LEMMA FreshMergeInvNext == (BuilderIdle /\ phase = "merge" => MergeInv)'
BY FreshMergeInv, PTL

LEMMA FreshIInvNext == (BuilderIdle /\ phase = "merge" /\ IsInput(input) => IInv)'
BY FreshIInv, PTL

\* The raw blocks and tables a file can give.
RawSet ==
  UNION {{[page |-> p, box |-> doc[p].blocks[i].box, image |-> doc[p].blocks[i].image,
           lines |-> doc[p].blocks[i].lines] : i \in DOMAIN doc[p].blocks} : p \in DOMAIN doc}

FoundSet ==
  UNION {{[page |-> p, box |-> doc[p].tables[t].box] : t \in DOMAIN doc[p].tables} :
           p \in DOMAIN doc}

\* Tables are found from page to page, and from top to bottom of a page.
FoundInOrder ==
  /\ \A s, t \in DOMAIN found :
       s < t /\ found[s].page = found[t].page => found[s].box.y0 <= found[t].box.y0
  /\ phase \in {"extract", "headings"} => found = <<>>
  /\ phase = "tables" =>
       \A s \in DOMAIN found :
         /\ found[s].page <= page
         /\ found[s].page = page =>
              \A t \in DOMAIN doc[page].tables :
                object <= t => found[s].box.y0 <= doc[page].tables[t].box.y0

ParserInv ==
  /\ doc \in Documents
  /\ page \in Nat \ {0} /\ object \in Nat \ {0}
  /\ raw \in Seq(RawSet)
  /\ found \in Seq(FoundSet)
  /\ phase \in {"tables", "handover"} => levels \in [DOMAIN raw -> 0..MaxDepth]
  /\ FoundInOrder
  /\ phase \in Passes \cup Ends => BuilderIdle /\ input = NoInput
  /\ Building => IInv /\ MergeInv /\ input = HandedOver

LEMMA RawBlockFacts ==
  ASSUME doc \in Documents, NEW b \in RawSet
  PROVE  /\ b.page \in Nat /\ IsBox(b.box) /\ b.image \in BOOLEAN
         /\ DOMAIN b.lines = 1..Len(b.lines) /\ Len(b.lines) \in Nat
         /\ \A j \in DOMAIN b.lines : IsLine(b.lines[j])
<1>1. PICK p \in DOMAIN doc : \E i \in DOMAIN doc[p].blocks :
        b = [page |-> p, box |-> doc[p].blocks[i].box, image |-> doc[p].blocks[i].image,
             lines |-> doc[p].blocks[i].lines]
  BY DEF RawSet
<1> PICK i \in DOMAIN doc[p].blocks :
        b = [page |-> p, box |-> doc[p].blocks[i].box, image |-> doc[p].blocks[i].image,
             lines |-> doc[p].blocks[i].lines]
  BY <1>1
<1>2. DOMAIN doc = 1..Len(doc) /\ Len(doc) \in Nat /\ IsPage(doc[p])
  BY DocumentAssumption
<1>3. /\ IsBox(doc[p].blocks[i].box) /\ doc[p].blocks[i].image \in BOOLEAN
      /\ DOMAIN doc[p].blocks[i].lines = 1..Len(doc[p].blocks[i].lines)
      /\ Len(doc[p].blocks[i].lines) \in Nat
      /\ \A j \in DOMAIN doc[p].blocks[i].lines : IsLine(doc[p].blocks[i].lines[j])
  BY <1>2 DEF IsPage
<1> QED BY <1>1, <1>2, <1>3

LEMMA FoundFacts ==
  ASSUME doc \in Documents, NEW t \in FoundSet
  PROVE  t.page \in Nat /\ IsBox(t.box)
<1>1. PICK p \in DOMAIN doc : \E i \in DOMAIN doc[p].tables :
        t = [page |-> p, box |-> doc[p].tables[i].box]
  BY DEF FoundSet
<1> PICK i \in DOMAIN doc[p].tables : t = [page |-> p, box |-> doc[p].tables[i].box]
  BY <1>1
<1>2. DOMAIN doc = 1..Len(doc) /\ Len(doc) \in Nat /\ IsPage(doc[p])
  BY DocumentAssumption
<1>3. IsBox(doc[p].tables[i].box)
  BY <1>2 DEF IsPage
<1> QED BY <1>1, <1>2, <1>3

LEMMA InitParserInv == ParserInit => ParserInv
<1> SUFFICES ASSUME ParserInit PROVE ParserInv
    OBVIOUS
<1>1. BuilderIdle
  BY DEF ParserInit, BuilderIdle, Levels
<1>2. raw \in Seq(RawSet) /\ found \in Seq(FoundSet)
  BY DEF ParserInit
<1>3. FoundInOrder
  BY DEF ParserInit, FoundInOrder
<1> QED BY <1>1, <1>2, <1>3 DEF ParserInit, NoInput, ParserInv, Building, Passes, Ends

\* A pass that leaves the builder idle, and what it must show of its own results.
LEMMA PassKeeps ==
  ASSUME ParserInv, phase \in Passes, phase' \in Passes \cup Ends, Waiting, doc' = doc,
         page' \in Nat \ {0}, object' \in Nat \ {0},
         raw' \in Seq(RawSet), found' \in Seq(FoundSet),
         phase' \in {"tables", "handover"} => levels' \in [DOMAIN raw' -> 0..MaxDepth],
         FoundInOrder'
  PROVE  ParserInv'
<1>1. RawSet' = RawSet /\ FoundSet' = FoundSet
  BY DEF RawSet, FoundSet
<1>2. BuilderIdle'
  BY DEF ParserInv, BuilderIdle, Waiting, build
<1>3. input' = NoInput
  BY DEF ParserInv, Waiting
<1>4. ~Building'
  BY DEF Building
<1> QED BY <1>1, <1>2, <1>3, <1>4 DEF ParserInv

LEMMA RawOfPage ==
  ASSUME doc \in Documents, NEW p \in 1..Len(doc)
  PROVE  RawBlocks(p) \in Seq(RawSet)
<1> DEFINE n == Len(doc[p].blocks)
<1>1. DOMAIN doc = 1..Len(doc) /\ Len(doc) \in Nat /\ IsPage(doc[p])
  BY DocumentAssumption
<1>2. n \in Nat /\ DOMAIN doc[p].blocks = 1..n
  BY <1>1 DEF IsPage
<1>3. \A i \in 1..n : RawBlocks(p)[i] \in RawSet
  BY <1>1, <1>2 DEF RawBlocks, RawSet
<1>4. RawBlocks(p) \in [1..n -> RawSet]
  BY <1>2, <1>3 DEF RawBlocks
<1> HIDE DEF n
<1> QED BY <1>2, <1>4

LEMMA ExtractStep == ParserInv /\ (ExtractPage \/ EndOfPages \/ ExtractFails) => ParserInv'
<1> SUFFICES ASSUME ParserInv, ExtractPage \/ EndOfPages \/ ExtractFails PROVE ParserInv'
    OBVIOUS
<1> USE DEF Passes, Ends
<1>0. FoundInOrder'
  BY DEF ParserInv, FoundInOrder, ExtractPage, EndOfPages, ExtractFails, front
<1>1. CASE ExtractPage
  <2>1. RawBlocks(page) \in Seq(RawSet)
    <3>1. page \in 1..Len(doc)
      BY <1>1, DocumentAssumption DEF ExtractPage, ParserInv
    <3> QED BY <3>1, RawOfPage DEF ParserInv
  <2>2. raw' \in Seq(RawSet)
    BY <1>1, <2>1 DEF ExtractPage, ParserInv
  <2> QED BY <1>0, <1>1, <2>2, PassKeeps DEF ExtractPage, ParserInv
<1>2. CASE EndOfPages
  BY <1>0, <1>2, PassKeeps DEF EndOfPages, ParserInv
<1>3. CASE ExtractFails
  BY <1>0, <1>3, PassKeeps DEF ExtractFails, ParserInv, front
<1> QED BY <1>1, <1>2, <1>3

\* A level is 0 or has a slot in the stack.
LEMMA LevelInRange ==
  ASSUME doc \in Documents, NEW b \in RawSet, NEW sizes, IsFiniteSet(sizes)
  PROVE  Level(b, sizes) \in 0..MaxDepth
<1> USE InputAssumption
<1>1. \A n \in Nat : AtMostDepth(n) \in 0..MaxDepth
  BY DEF AtMostDepth
<1>2. ASSUME HasText(b) PROVE b.lines[1].depth \in Nat
  <2>1. 1 \in DOMAIN b.lines
    BY <1>2, RawBlockFacts DEF HasText
  <2> QED BY <2>1, RawBlockFacts DEF IsLine
<1>3. Rank(FontSize(b), sizes) \in Nat
  <2> DEFINE larger == {s \in sizes : s > FontSize(b)}
  <2>1. IsFiniteSet(larger)
    BY FS_Subset
  <2>2. Cardinality(larger) \in Nat
    BY <2>1, FS_CardinalityType
  <2> QED BY <2>2 DEF Rank
<1> QED BY <1>1, <1>2, <1>3 DEF Level

LEMMA HeadingSizesAreFinite == raw \in Seq(RawSet) => IsFiniteSet(HeadingSizes)
<1> SUFFICES ASSUME raw \in Seq(RawSet) PROVE IsFiniteSet(HeadingSizes)
    OBVIOUS
<1> DEFINE texts == {j \in DOMAIN raw : ~raw[j].image}
           all   == {FontSize(raw[i]) : i \in texts}
<1>1. IsFiniteSet(texts)
  BY FS_Interval, FS_Subset
<1>2. IsFiniteSet(all)
  <2> DEFINE f == [i \in texts |-> FontSize(raw[i])]
  <2>1. f \in Surjection(texts, all)
    BY DEF Surjection
  <2> HIDE DEF texts, all, f
  <2> QED BY <1>1, <2>1, FS_Surjection
<1>3. HeadingSizes \subseteq all
  BY DEF HeadingSizes
<1> QED BY <1>2, <1>3, FS_Subset

LEMMA HeadingPass == ParserInv /\ DetectHeadings => ParserInv'
<1> SUFFICES ASSUME ParserInv, DetectHeadings PROVE ParserInv'
    OBVIOUS
<1>1. levels' = [i \in DOMAIN raw |-> Level(raw[i], HeadingSizes)]
  BY DEF DetectHeadings
<1>2. \A i \in DOMAIN raw : Level(raw[i], HeadingSizes) \in 0..MaxDepth
  <2> TAKE i \in DOMAIN raw
  <2>1. raw[i] \in RawSet /\ IsFiniteSet(HeadingSizes)
    BY HeadingSizesAreFinite DEF ParserInv
  <2> QED BY <2>1, LevelInRange DEF ParserInv
<1>3. levels' \in [DOMAIN raw -> 0..MaxDepth]
  BY <1>1, <1>2
<1>4. FoundInOrder'
  BY DEF DetectHeadings, ParserInv, FoundInOrder
<1> QED BY <1>3, <1>4, PassKeeps DEF DetectHeadings, ParserInv, Passes, Ends

\* The next table of a page goes behind those found.
LEMMA TableInOrder ==
  ASSUME ParserInv, phase = "tables", page \in DOMAIN doc, object \in DOMAIN doc[page].tables,
         LET t == doc[page].tables[object]
         IN  found' = IF IsRealTable(t) THEN Append(found, [page |-> page, box |-> t.box])
                      ELSE found,
         object' = object + 1, UNCHANGED <<phase, doc, page>>
  PROVE  FoundInOrder'
<1> DEFINE t == doc[page].tables[object]
           e == [page |-> page, box |-> t.box]
           n == Len(found)
<1>1. /\ n \in Nat /\ DOMAIN found = 1..n
      /\ page \in Nat /\ object \in Nat
      /\ \A s \in 1..n : found[s] \in FoundSet
      /\ FoundInOrder
  BY DEF ParserInv
<1>2. /\ DOMAIN doc[page].tables \subseteq Nat
      /\ \A k \in DOMAIN doc[page].tables :
           /\ doc[page].tables[k].box.y0 \in Nat
           /\ object + 1 <= k => t.box.y0 <= doc[page].tables[k].box.y0
  <2>1. IsPage(doc[page])
    BY DocumentAssumption DEF ParserInv
  <2>2. DOMAIN doc[page].tables \subseteq Nat
    BY <2>1 DEF IsPage
  <2>3. \A k \in DOMAIN doc[page].tables : doc[page].tables[k].box.y0 \in Nat
    BY <2>1 DEF IsPage, IsBox
  <2>4. \A k \in DOMAIN doc[page].tables :
          object < k => t.box.y0 <= doc[page].tables[k].box.y0
    BY <2>1 DEF IsPage
  <2>5. object \in Nat
    BY <1>1
  <2>6. \A k \in DOMAIN doc[page].tables : object + 1 <= k => object < k
    BY <2>2, <2>5
  <2> HIDE DEF t
  <2> QED BY <2>2, <2>3, <2>4, <2>6
<1>3. \A s \in 1..n : found[s].page \in Nat /\ found[s].box.y0 \in Nat
  BY <1>1, FoundFacts DEF ParserInv, IsBox
<1>4. /\ e.page = page /\ e.box.y0 = t.box.y0
      /\ \A s \in 1..n : found[s].page = page => found[s].box.y0 <= e.box.y0
  <2>1. \A s \in 1..n : found[s].page = page =>
          \A k \in DOMAIN doc[page].tables :
             object <= k => found[s].box.y0 <= doc[page].tables[k].box.y0
    <3> HIDE DEF e, t, n
    <3> QED BY <1>1 DEF FoundInOrder
  <2>2. object <= object
    BY <1>1
  <2>3. \A s \in 1..n : found[s].page = page => found[s].box.y0 <= t.box.y0
    BY <2>1, <2>2
  <2>4. e.page = page /\ e.box.y0 = t.box.y0
    OBVIOUS
  <2> HIDE DEF e, t, n
  <2> QED BY <2>3, <2>4
<1>5. \/ found' = found
      \/ /\ DOMAIN found' = 1..(n + 1) /\ found'[n + 1] = e
         /\ \A s \in 1..n : found'[s] = found[s]
  <2>1. found \in Seq(FoundSet) /\ (found' = found \/ found' = Append(found, e))
    BY DEF ParserInv
  <2> HIDE DEF e, t
  <2> QED BY <2>1
<1> HIDE DEF e, t, n
<1>6. CASE found' = found
  BY <1>1, <1>2, <1>6 DEF FoundInOrder
<1>7. CASE /\ DOMAIN found' = 1..(n + 1) /\ found'[n + 1] = e
           /\ \A s \in 1..n : found'[s] = found[s]
  <2>1. \A s, k \in DOMAIN found' :
          s < k /\ found'[s].page = found'[k].page => found'[s].box.y0 <= found'[k].box.y0
    BY <1>1, <1>4, <1>7 DEF FoundInOrder
  <2>2. \A s \in DOMAIN found' :
          /\ found'[s].page <= page
          /\ found'[s].page = page =>
               \A k \in DOMAIN doc[page].tables :
                 object + 1 <= k => found'[s].box.y0 <= doc[page].tables[k].box.y0
    BY <1>1, <1>2, <1>4, <1>7 DEF FoundInOrder
  <2> QED BY <2>1, <2>2 DEF FoundInOrder
<1> QED BY <1>5, <1>6, <1>7

LEMMA TablePass ==
  ParserInv /\ (ExtractTable \/ EndOfTablePage \/ EndOfTables \/ NoTables \/ TablesFail)
    => ParserInv'
<1> SUFFICES ASSUME ParserInv,
                    ExtractTable \/ EndOfTablePage \/ EndOfTables \/ NoTables \/ TablesFail
             PROVE  ParserInv'
    OBVIOUS
<1> USE DEF Passes, Ends
<1>1. CASE ExtractTable
  <2> DEFINE t == doc[page].tables[object]
             entry == [page |-> page, box |-> t.box]
  <2>1. page \in DOMAIN doc /\ object \in DOMAIN doc[page].tables
    <3>1. DOMAIN doc = 1..Len(doc) /\ Len(doc) \in Nat
      BY DocumentAssumption DEF ParserInv
    <3>2. page \in DOMAIN doc
      BY <1>1, <3>1 DEF ExtractTable, ParserInv
    <3>3. IsPage(doc[page])
      BY <3>2, DocumentAssumption DEF ParserInv
    <3> QED BY <1>1, <3>2, <3>3 DEF ExtractTable, ParserInv, IsPage
  <2>2. entry \in FoundSet
    BY <2>1 DEF FoundSet
  <2>3. found' = IF IsRealTable(t) THEN Append(found, entry) ELSE found
    BY <1>1 DEF ExtractTable
  <2>4. found' \in Seq(FoundSet)
    <3> HIDE DEF entry, t
    <3> QED BY <2>2, <2>3 DEF ParserInv
  <2>5. FoundInOrder'
    BY <1>1, <2>1, <2>3, TableInOrder DEF ExtractTable, ParserInv
  <2> QED BY <1>1, <2>4, <2>5, PassKeeps DEF ExtractTable, ParserInv
<1>2. CASE EndOfTablePage
  <2>1. \A s \in DOMAIN found : found[s].page \in Nat
    BY FoundFacts DEF ParserInv
  <2>2. FoundInOrder'
    BY <1>2, <2>1 DEF EndOfTablePage, ParserInv, FoundInOrder
  <2> QED BY <1>2, <2>2, PassKeeps DEF EndOfTablePage, ParserInv
<1>3. CASE EndOfTables
  <2>1. FoundInOrder'
    BY <1>3 DEF EndOfTables, ParserInv, FoundInOrder
  <2> QED BY <1>3, <2>1, PassKeeps DEF EndOfTables, ParserInv
<1>4. CASE NoTables
  <2>1. found' \in Seq(FoundSet)
    BY <1>4 DEF NoTables
  <2>2. FoundInOrder'
    BY <1>4 DEF NoTables, FoundInOrder
  <2> QED BY <1>4, <2>1, <2>2, PassKeeps DEF NoTables, ParserInv
<1>5. CASE TablesFail
  <2>1. FoundInOrder'
    BY <1>5 DEF TablesFail, ParserInv, FoundInOrder, front
  <2> QED BY <1>5, <2>1, PassKeeps DEF TablesFail, ParserInv, front
<1> QED BY <1>1, <1>2, <1>3, <1>4, <1>5

LEMMA ClassifiedIsBlock ==
  ASSUME doc \in Documents, NEW b \in RawSet, NEW level \in 0..MaxDepth
  PROVE  IsBlock(ClassifiedBlock(b, level))
<1> DEFINE kind == Kind(b, level)
           size == Cardinality(ListItems(b))
<1>1. b.page \in Nat /\ b.box.y0 \in Nat
  BY RawBlockFacts DEF IsBox
<1>2. size \in Nat
  <2>1. IsFiniteSet(DOMAIN b.lines)
    BY RawBlockFacts, FS_Interval
  <2>2. IsFiniteSet(ListItems(b))
    BY <2>1, FS_Subset DEF ListItems
  <2> QED BY <2>2, FS_CardinalityType
<1>3. /\ kind \in {"skipped", "heading", "list", "paragraph"}
      /\ kind = "heading" => level \in 1..MaxDepth
      /\ kind = "list" => size >= 2
  BY InputAssumption DEF Kind
<1>4. ClassifiedBlock(b, level) =
        [page |-> b.page, top |-> b.box.y0, kind |-> kind,
         level |-> IF kind = "heading" THEN level ELSE 0,
         size |-> IF kind = "list" THEN size ELSE 0]
  BY DEF ClassifiedBlock
<1> HIDE DEF kind, size
<1> QED BY <1>1, <1>2, <1>3, <1>4 DEF IsBlock, Kinds

LEMMA HandOverStep == ParserInv /\ HandOver => ParserInv'
<1> SUFFICES ASSUME ParserInv, HandOver PROVE ParserInv'
    OBVIOUS
<1> DEFINE bs == [i \in DOMAIN raw |-> ClassifiedBlock(raw[i], levels[i])]
           ts == [t \in DOMAIN found |-> [page |-> found[t].page, top |-> found[t].box.y0]]
<1>1. input' = [blocks |-> bs, tables |-> ts] /\ phase' = "merge"
  BY DEF HandOver, HandedOver
<1>2. /\ DOMAIN bs = 1..Len(raw) /\ Len(raw) \in Nat
      /\ DOMAIN ts = 1..Len(found) /\ Len(found) \in Nat
  BY DEF ParserInv
<1>3. \A i \in DOMAIN bs : IsBlock(bs[i])
  <2> TAKE i \in DOMAIN bs
  <2>1. raw[i] \in RawSet /\ levels[i] \in 0..MaxDepth
    BY DEF HandOver, ParserInv
  <2>2. IsBlock(ClassifiedBlock(raw[i], levels[i]))
    BY <2>1, ClassifiedIsBlock DEF ParserInv
  <2> QED BY <2>2
<1>4. \A t \in DOMAIN ts : IsTable(ts[t])
  <2> TAKE t \in DOMAIN ts
  <2>1. found[t] \in FoundSet
    BY DEF ParserInv
  <2>2. found[t].page \in Nat /\ found[t].box.y0 \in Nat
    BY <2>1, FoundFacts DEF ParserInv, IsBox
  <2> QED BY <2>2 DEF IsTable
<1>5. Len(bs) = Len(raw) /\ Len(ts) = Len(found)
  BY <1>2
<1>11. \A s, t \in DOMAIN ts : s < t /\ ts[s].page = ts[t].page => ts[s].top <= ts[t].top
  BY DEF ParserInv, FoundInOrder
<1> HIDE DEF bs, ts
<1>6. IsInput(input')
  BY <1>1, <1>2, <1>3, <1>4, <1>5, <1>11 DEF IsInput
<1>7. BuilderIdle'
  BY DEF HandOver, ParserInv, BuilderIdle, build, Passes
<1>8. IsInput(input)'
  BY <1>6
<1>9. IInv'
  BY <1>1, <1>7, <1>8, FreshIInvNext
<1>10. UNCHANGED front /\ RawSet' = RawSet /\ FoundSet' = FoundSet
  BY DEF HandOver, front, RawSet, FoundSet
<1>12. MergeInv'
  BY <1>1, <1>7, FreshMergeInvNext
<1>13. input' = HandedOver' /\ FoundInOrder'
  BY <1>1, <1>10 DEF HandOver, HandedOver, ClassifiedBlock, Kind, Covered, front,
                     ParserInv, FoundInOrder
<1> QED BY <1>1, <1>9, <1>10, <1>12, <1>13 DEF ParserInv, front, Passes, Ends

LEMMA BuilderStep == ParserInv /\ Next /\ UNCHANGED front => ParserInv'
<1> SUFFICES ASSUME ParserInv, Next, UNCHANGED front PROVE ParserInv'
    OBVIOUS
<1>1. phase \in {"merge", "build", "paths"}
  BY DEF Next, Merge, MergeStep, InsertTable, InsertBlock, SkipBlock, InsertLeftover,
         EndOfMerge, AddPlain, AddHeading, AddList, Handle, EndOfStream, AssignPath, Return
<1>2. IInv'
  BY <1>1, InductiveStep DEF ParserInv, Building, Passes, Ends
<1>3. phase' \in {"merge", "build", "paths", "done"}
  BY <1>2 DEF IInv, TypeOK
<1>4. RawSet' = RawSet /\ FoundSet' = FoundSet /\ HandedOver' = HandedOver
  BY DEF front, RawSet, FoundSet, HandedOver, ClassifiedBlock, Kind, Covered
<1>5. MergeInv' /\ input' = input
  <2>1. TypeOK /\ MergeInv
    BY <1>1 DEF ParserInv, Building, Passes, Ends, IInv
  <2>2. input' = input
    BY DEF Next, Merge, MergeStep, InsertTable, InsertBlock, SkipBlock, InsertLeftover,
           EndOfMerge, AddPlain, AddHeading, AddList, Handle, EndOfStream, AssignPath, Return,
           merge
  <2> QED BY <2>1, <2>2, MergeOrderStep
<1>6. FoundInOrder'
  BY <1>3 DEF front, ParserInv, FoundInOrder
<1>7. input = HandedOver
  BY <1>1 DEF ParserInv, Building, Passes, Ends
<1> QED BY <1>2, <1>3, <1>4, <1>5, <1>6, <1>7 DEF ParserInv, front, Passes, Ends

LEMMA ParserStep == ParserInv /\ [ParserNext]_parserVars => ParserInv'
<1> SUFFICES ASSUME ParserInv, [ParserNext]_parserVars PROVE ParserInv'
    OBVIOUS
<1>1. CASE PassStep
  BY <1>1, ExtractStep, HeadingPass, TablePass, HandOverStep DEF PassStep
<1>2. CASE Next /\ UNCHANGED front
  BY <1>2, BuilderStep
<1>3. CASE UNCHANGED parserVars
  <2>1. UNCHANGED <<vars, front>>
    BY <1>3 DEF parserVars
  <2>2. RawSet' = RawSet /\ FoundSet' = FoundSet /\ HandedOver' = HandedOver
    BY <2>1 DEF front, RawSet, FoundSet, HandedOver, ClassifiedBlock, Kind, Covered
  <2>3. UNCHANGED <<phase, next, stream, item, position, stack, nodes, paths>>
    BY <2>1 DEF vars, merge, build
  <2>4. BuilderIdle' <=> BuilderIdle
    BY <2>3 DEF BuilderIdle
  <2>5. IInv => IInv'
    BY <2>1, InductiveStep
  <2>6. IInv /\ MergeInv => MergeInv'
    BY <2>1, MergeOrderStep DEF IInv
  <2>7. FoundInOrder' /\ input' = input
    BY <2>1 DEF ParserInv, FoundInOrder, front, vars, merge
  <2> QED BY <2>1, <2>2, <2>3, <2>4, <2>5, <2>6, <2>7 DEF ParserInv, Building, front
<1> QED BY <1>1, <1>2, <1>3 DEF ParserNext

\* The passes and the builder together.
THEOREM ParserInvariance == ParserSpec => []ParserInv
<1>1. ParserInit => ParserInv
  BY InitParserInv
<1>2. ParserInv /\ [ParserNext]_parserVars => ParserInv'
  BY ParserStep
<1> QED BY <1>1, <1>2, PTL DEF ParserSpec

\* What the passes hand over is what the builder can take (pdf_parser.py:119-132).
THEOREM PassesFitTheBuilder == ParserSpec => []PassesMeetBuilder
<1>1. ParserInv => PassesMeetBuilder
  BY DEF ParserInv, IInv, TypeOK, PassesMeetBuilder
<1> QED BY <1>1, ParserInvariance, PTL

\* parse_pdf as a whole: positions, whatever the file.
THEOREM ParsedPositions == ParserSpec => []PositionsAreReadingOrder
<1>1. ParserInv => PositionsAreReadingOrder
  BY DEF ParserInv, IInv, Building, BuilderIdle, PositionsAreReadingOrder
<1> QED BY <1>1, ParserInvariance, PTL

\* parse_pdf as a whole: parents, whatever the file.
THEOREM ParsedParents == ParserSpec => []ParentsFollowHeadings
<1>1. ParserInv => ParentsFollowHeadings
  <2> SUFFICES ASSUME ParserInv PROVE ParentsFollowHeadings
      OBVIOUS
  <2>1. CASE Building
    BY <2>1 DEF ParserInv, IInv, ParentsFollowHeadings
  <2>2. CASE ~Building
    BY <2>2 DEF ParserInv, Building, BuilderIdle, ParentsFollowHeadings, HeadingsNest,
                ContentUnderLastHeading
  <2> QED BY <2>1, <2>2
<1> QED BY <1>1, ParserInvariance, PTL

\* What the theorems about the stream need, before the builder starts and after.
LEMMA StreamOfFile ==
  ASSUME ParserInv
  PROVE  IsInput(input) /\ stream \in Seq(Items) /\ next \in Nat /\ MergeInv
<1>1. CASE Building
  BY <1>1 DEF ParserInv, IInv, TypeOK
<1>2. CASE ~Building
  <2>1. next = 1 /\ stream = <<>> /\ blocks = <<>> /\ tables = <<>> /\ input = NoInput
    BY <1>2 DEF ParserInv, Building, BuilderIdle, NoInput, blocks, tables
  <2>2. IsInput(input)
    BY <2>1 DEF NoInput, IsInput
  <2>3. DOMAIN stream = {} /\ Text = {} /\ Leftover = {} /\ Len(blocks) = 0
    BY <2>1 DEF Text, Leftover
  <2>4. MergeInv
    BY <2>1, <2>3 DEF MergeInv, SourcesKnown, ItemsApart, TextPlaced, HigherTablesFirst,
                      LowerTextFollows, MergeEnds
  <2> QED BY <2>1, <2>2, <2>4
<1> QED BY <1>1, <1>2

\* _merge_stream loses and doubles nothing, whatever the file (hierarchy_builder.py:246).
THEOREM ParsedStream == ParserSpec => []StreamIsComplete
<1>1. ParserInv => StreamIsComplete
  BY StreamOfFile, MergeIsComplete
<1> QED BY <1>1, ParserInvariance, PTL

\* Tables stand where the text below them begins, whatever the file
\* (hierarchy_builder.py:274-343).
THEOREM ParsedTables == ParserSpec => []TablesInPlace
<1>1. ParserInv => TablesInPlace
  BY StreamOfFile, MergePlacesTables
<1> QED BY <1>1, ParserInvariance, PTL

\* Text left out is text of a table that was put in (pdf_parser.py:119).
THEOREM SuppressionJustified == ParserSpec => []SuppressedTextIsInATable
<1>1. ParserInv => SuppressedTextIsInATable
  <2> SUFFICES ASSUME ParserInv, phase = "done", NEW i \in DOMAIN raw,
                      HasText(raw[i]), BlockPlaces(i) = {}
               PROVE  \E t \in DOMAIN found :
                        /\ TablePlaces(t) # {}
                        /\ tables[t].page = raw[i].page
                        /\ Overlaps(raw[i].box, found[t].box)
      BY DEF SuppressedTextIsInATable
  <2>1. /\ \A t \in DOMAIN tables : TablePlaces(t) # {}
        /\ i \notin Text
    BY StreamOfFile, MergeIsComplete DEF StreamIsComplete
  <2>2. input = HandedOver
    BY DEF ParserInv, Building, Passes, Ends
  <2>3. /\ DOMAIN blocks = DOMAIN raw /\ blocks[i] = ClassifiedBlock(raw[i], levels[i])
        /\ DOMAIN tables = DOMAIN found
        /\ \A t \in DOMAIN found : tables[t].page = found[t].page
    BY <2>2 DEF HandedOver, blocks, tables
  <2>4. Kind(raw[i], levels[i]) = "skipped"
    BY <2>1, <2>3 DEF Text, ClassifiedBlock
  <2>5. Covered(raw[i])
    BY <2>4 DEF Kind
  <2> QED BY <2>1, <2>3, <2>5 DEF Covered
<1> QED BY <1>1, ParserInvariance, PTL

-----------------------------------------------------------------------------
(* Fonts and levels.                                                       *)

LEMMA CharCountFacts ==
  ASSUME NEW f, NEW n \in Nat, \A i \in 1..n : f[i].chars \in Nat, NEW R \in SUBSET (1..n)
  PROVE  CharCount(f, R) \in Nat /\ CharCount(f, R) <= CharCount(f, 1..n)
<1> DEFINE chars(i) == {i} \X (1..f[i].chars)
           all(S) == UNION {chars(i) : i \in S}
<1>1. ASSUME NEW i \in 1..n PROVE IsFiniteSet(chars(i))
  <2>1. IsFiniteSet({i}) /\ IsFiniteSet(1..f[i].chars)
    <3>1. 1 \in Int /\ f[i].chars \in Int
      OBVIOUS
    <3> QED BY <3>1, FS_Singleton, FS_Interval
  <2> QED BY <2>1, FS_Product
<1>2. IsFiniteSet({chars(i) : i \in 1..n})
  <2> DEFINE g == [i \in 1..n |-> chars(i)]
  <2>1. g \in Surjection(1..n, {chars(i) : i \in 1..n})
    BY DEF Surjection
  <2>2. IsFiniteSet(1..n)
    <3>1. 1 \in Int /\ n \in Int
      OBVIOUS
    <3> QED BY ONLY <3>1, FS_Interval
  <2> HIDE DEF g, chars
  <2> QED BY <2>1, <2>2, FS_Surjection
<1>3. IsFiniteSet(all(1..n))
  <2>1. \A T \in {chars(i) : i \in 1..n} : IsFiniteSet(T)
    BY <1>1
  <2> HIDE DEF chars
  <2> QED BY <1>2, <2>1, FS_UNION
<1>4. all(R) \subseteq all(1..n)
  OBVIOUS
<1> HIDE DEF all
<1>5. Cardinality(all(R)) \in Nat /\ Cardinality(all(R)) <= Cardinality(all(1..n))
  BY <1>3, <1>4, FS_Subset, FS_CardinalityType
<1> QED BY <1>5 DEF CharCount, all

\* The size most characters have is one of the sizes there are.
LEMMA MainSizeIsASize ==
  ASSUME NEW f, NEW n \in Nat \ {0}, \A i \in 1..n : f[i].chars \in Nat
  PROVE  \E i \in 1..n : MainSize(f, 1..n) = f[i].size
<1> DEFINE chars(s) == CharCount(f, {i \in 1..n : f[i].size = s})
           count(i) == chars(f[i].size)
           total == CharCount(f, 1..n)
           IsFirst(i) == \A j \in 1..n : \/ count(i) > count(j)
                                         \/ count(i) = count(j) /\ i <= j
<1>1. ASSUME NEW i \in 1..n PROVE count(i) \in Nat /\ count(i) <= total /\ total \in Nat
  BY CharCountFacts
<1> HIDE DEF count, total
<1>2. PICK a \in 1..n : \A j \in 1..n : count(j) <= count(a)
  <2> DEFINE D == {total - count(i) : i \in 1..n}
  <2>1. D \in SUBSET Nat /\ D # {}
    <3>1. 1 \in 1..n
      OBVIOUS
    <3> QED BY <1>1, <3>1
  <2>2. PICK d \in D : \A e \in D : d <= e
    <3> HIDE DEF D
    <3> QED BY <2>1, LeastNumber
  <2>3. PICK i \in 1..n : d = total - count(i)
    BY <2>2
  <2>4. ASSUME NEW j \in 1..n PROVE count(j) <= count(i)
    <3>1. total - count(i) <= total - count(j)
      BY <2>2, <2>3
    <3> QED BY <1>1, <3>1
  <2> QED BY <2>4
<1>3. \E i \in 1..n : IsFirst(i)
  <2> DEFINE E == {i \in 1..n : count(i) = count(a)}
  <2>1. E \in SUBSET Nat /\ E # {}
    OBVIOUS
  <2>2. PICK i \in E : \A j \in E : i <= j
    <3> HIDE DEF E
    <3> QED BY <2>1, LeastNumber
  <2>3. ASSUME NEW j \in 1..n PROVE count(i) > count(j) \/ (count(i) = count(j) /\ i <= j)
    <3>1. /\ count(i) = count(a) /\ count(j) <= count(a)
          /\ count(j) = count(a) => i <= j
          /\ count(i) \in Nat /\ count(j) \in Nat
      <4>1. i \in 1..n /\ count(i) = count(a) /\ (count(j) = count(a) => i <= j)
        BY <2>2
      <4> HIDE DEF E
      <4> QED BY <1>1, <1>2, <4>1
    <3> QED BY <3>1
  <2>4. i \in 1..n
    BY <2>2
  <2> QED BY <2>3, <2>4
<1> DEFINE first == CHOOSE i \in 1..n : IsFirst(i)
<1>4. first \in 1..n
  <2> HIDE DEF IsFirst
  <2> QED BY <1>3
<1>5. MainSize(f, 1..n) = f[first].size
  BY DEF MainSize, count
<1> HIDE DEF first
<1> QED BY <1>4, <1>5

LEMMA FontSizesAreNumbers ==
  ASSUME doc \in Documents, NEW b \in RawSet
  PROVE  FontSize(b) \in Nat
<1> DEFINE n == Len(b.lines)
<1>1. /\ DOMAIN b.lines = 1..n /\ n \in Nat
      /\ \A j \in 1..n : b.lines[j].chars \in Nat /\ b.lines[j].size \in Nat
  BY RawBlockFacts DEF IsLine
<1>2. CASE b.image \/ n = 0
  BY <1>2 DEF FontSize
<1>3. CASE ~b.image /\ n # 0
  <2>1. PICK i \in 1..n : MainSize(b.lines, 1..n) = b.lines[i].size
    BY <1>1, <1>3, MainSizeIsASize
  <2> QED BY <1>1, <1>3, <2>1 DEF FontSize
<1> QED BY <1>2, <1>3

\* Among sizes there are, a smaller one has a lower rank.
LEMMA SmallerRanksLower ==
  ASSUME NEW sizes, IsFiniteSet(sizes), NEW s \in sizes, sizes \subseteq Nat, NEW t \in Nat, t < s
  PROVE  Rank(s, sizes) < Rank(t, sizes) /\ Rank(s, sizes) \in Nat /\ Rank(t, sizes) \in Nat
<1> DEFINE Larger(r) == {q \in sizes : q > r}
<1>1. \A r : IsFiniteSet(Larger(r)) /\ Cardinality(Larger(r)) \in Nat
  <2> TAKE r
  <2>1. Larger(r) \subseteq sizes
    OBVIOUS
  <2> QED BY <2>1, FS_Subset, FS_CardinalityType
<1>2. Larger(s) \subseteq Larger(t) /\ s \in Larger(t) /\ s \notin Larger(s)
  <2>1. s \in Nat /\ \A q \in sizes : q \in Nat /\ (q > s => q > t)
    OBVIOUS
  <2>2. Larger(s) \subseteq Larger(t)
    BY <2>1
  <2>3. s \in Larger(t)
    BY <2>1
  <2>4. s \notin Larger(s)
    BY <2>1
  <2> QED BY <2>2, <2>3, <2>4
<1>3. Cardinality(Larger(s)) <= Cardinality(Larger(t))
      /\ Cardinality(Larger(s)) # Cardinality(Larger(t))
  <2> HIDE DEF Larger
  <2> QED BY <1>1, <1>2, FS_Subset
<1> QED BY <1>1, <1>3 DEF Rank

-----------------------------------------------------------------------------
\* detect_headings fixes the levels of the blocks; no later pass changes them.
LevelsAsDetected ==
  phase \notin {"extract", "headings"} \cup Ends =>
    levels = [i \in DOMAIN raw |-> Level(raw[i], HeadingSizes)]

TreeOfFile == TreeInv /\ SourceInv /\ NodesInv /\ LevelsAsDetected

LEMMA InitTreeOfFile == ParserInit => TreeOfFile
<1> SUFFICES ASSUME ParserInit PROVE TreeOfFile
    OBVIOUS
<1>1. TreeInv /\ SourceInv /\ NodesInv
  BY DEF ParserInit, TreeInv, LevelsAreHeadings, ItemsFollowList, PathsSoFar, SourceInv,
         ItemsAreBlocks, LoopBounds, NodesOfHeadings, HeadingItems, NodesInv
<1> QED BY <1>1 DEF ParserInit, TreeOfFile, LevelsAsDetected

LEMMA TreeOfFileStep == ParserInv /\ TreeOfFile /\ [ParserNext]_parserVars => TreeOfFile'
<1> SUFFICES ASSUME ParserInv, TreeOfFile, [ParserNext]_parserVars PROVE TreeOfFile'
    OBVIOUS
<1> USE DEF Passes, Ends
<1>1. CASE PassStep
  <2>1. /\ phase \in Passes /\ phase' \in Passes \cup Ends \cup {"merge"}
        /\ UNCHANGED <<next, stream, build>>
    BY <1>1 DEF PassStep, ExtractPage, EndOfPages, ExtractFails, DetectHeadings, ExtractTable,
                EndOfTablePage, EndOfTables, NoTables, TablesFail, HandOver, Waiting
  <2>2. BuilderIdle /\ BuilderIdle'
    BY <2>1 DEF ParserInv, BuilderIdle, build
  <2>3. TreeInv' /\ SourceInv' /\ NodesInv'
    BY <2>1, <2>2 DEF BuilderIdle, TreeInv, LevelsAreHeadings, ItemsFollowList, PathsSoFar,
         SourceInv, ItemsAreBlocks, LoopBounds, NodesOfHeadings, HeadingItems, NodesInv
  <2>4. LevelsAsDetected'
    <3>1. CASE DetectHeadings
      <4>1. raw' = raw /\ levels' = [i \in DOMAIN raw |-> Level(raw[i], HeadingSizes)]
        BY <3>1 DEF DetectHeadings
      <4>2. HeadingSizes' = HeadingSizes
        BY <4>1 DEF HeadingSizes, BodySize
      <4> QED BY <4>1, <4>2 DEF LevelsAsDetected
    <3>2. CASE ~DetectHeadings
      <4>1. \/ phase' \in {"extract", "headings"} \cup Ends
            \/ phase \in {"tables", "handover"} /\ UNCHANGED <<raw, levels>>
        BY <1>1, <3>2 DEF PassStep, ExtractPage, EndOfPages, ExtractFails, DetectHeadings,
             ExtractTable, EndOfTablePage, EndOfTables, NoTables, TablesFail, HandOver, front
      <4> QED BY <4>1 DEF TreeOfFile, LevelsAsDetected, HeadingSizes, BodySize
    <3> QED BY <3>1, <3>2
  <2> QED BY <2>3, <2>4 DEF TreeOfFile
<1>2. CASE Next /\ UNCHANGED front
  <2>1. phase \in {"merge", "build", "paths"}
    BY <1>2 DEF Next, Merge, MergeStep, InsertTable, InsertBlock, SkipBlock, InsertLeftover,
         EndOfMerge, AddPlain, AddHeading, AddList, Handle, EndOfStream, AssignPath, Return
  <2>2. BuiltInv /\ NodesInv
    BY <2>1 DEF ParserInv, Building, TreeOfFile, BuiltInv
  <2>3. BuiltInv' /\ NodesInv'
    BY <1>2, <2>2, BuiltStep, NodesStep
  <2>4. LevelsAsDetected'
    <3>1. UNCHANGED <<raw, levels>>
      BY <1>2 DEF front
    <3>2. HeadingSizes' = HeadingSizes
      BY <3>1 DEF HeadingSizes, BodySize
    <3> QED BY <2>1, <3>1, <3>2 DEF TreeOfFile, LevelsAsDetected
  <2> QED BY <2>3, <2>4 DEF BuiltInv, TreeOfFile
<1>3. CASE UNCHANGED parserVars
  <2>1. UNCHANGED <<phase, input, stream, item, nodes, paths, raw, levels>>
    BY <1>3 DEF parserVars, vars, merge, build, front
  <2>2. TreeInv'
    BY <2>1 DEF TreeOfFile, TreeInv, LevelsAreHeadings, ItemsFollowList, PathsSoFar, PathOf,
         SiblingIndex, IsHeading
  <2>3. SourceInv'
    BY <2>1 DEF TreeOfFile, SourceInv, ItemsAreBlocks, LoopBounds, NodesOfHeadings,
         HeadingItems, IsHeading, BlockItem, blocks
  <2>4. LevelsAsDetected'
    <3>1. HeadingSizes' = HeadingSizes
      BY <2>1 DEF HeadingSizes, BodySize
    <3> QED BY <2>1, <3>1 DEF TreeOfFile, LevelsAsDetected
  <2>5. NodesInv'
    BY <2>1 DEF TreeOfFile, NodesInv, MadeOf, ChildrenOf
  <2> QED BY <2>2, <2>3, <2>4, <2>5 DEF TreeOfFile
<1> QED BY <1>1, <1>2, <1>3 DEF ParserNext

LEMMA TreeOfFileInvariance == ParserSpec => [](ParserInv /\ TreeOfFile)
<1>1. ParserInit => ParserInv /\ TreeOfFile
  BY InitParserInv, InitTreeOfFile
<1>2. ParserInv /\ TreeOfFile /\ [ParserNext]_parserVars => (ParserInv /\ TreeOfFile)'
  BY ParserStep, TreeOfFileStep
<1> QED BY <1>1, <1>2, PTL DEF ParserSpec

\* parse_pdf as a whole: the path strings index the tree, whatever the file and however
\* many siblings it has (hierarchy_builder.py:386).
THEOREM ParsedPaths == ParserSpec => []PathsIndexTree
<1>1. ParserInv /\ TreeOfFile => PathsIndexTree
  <2> SUFFICES ASSUME ParserInv, TreeOfFile PROVE PathsIndexTree
      OBVIOUS
  <2>1. CASE Building
    BY <2>1, TreeHasPaths DEF ParserInv, TreeOfFile
  <2>2. CASE ~Building
    BY <2>2 DEF ParserInv, Building, BuilderIdle, PathsIndexTree
  <2> QED BY <2>1, <2>2
<1> QED BY <1>1, TreeOfFileInvariance, PTL

\* parse_pdf as a whole: no text and no table is lost or doubled, whatever the file
\* (pdf_parser.py:119, hierarchy_builder.py:96).
THEOREM ParsedTree == ParserSpec => []TreeIsComplete
<1>1. ParserInv /\ TreeOfFile => TreeIsComplete
  <2> SUFFICES ASSUME ParserInv, TreeOfFile, phase = "done" PROVE TreeIsComplete
      BY DEF TreeIsComplete
  <2>1. BuiltInv /\ NodesInv
    BY DEF ParserInv, Building, Passes, Ends, TreeOfFile, BuiltInv
  <2> QED BY <2>1, TreeOfStream
<1> QED BY <1>1, TreeOfFileInvariance, PTL

\* Smaller type is a deeper level, as long as there are levels.
LEMMA SmallerIsDeeper ==
  ASSUME ParserInv, TreeOfFile, phase = "done",
         NEW i \in HeadingBlocks, NEW k \in HeadingBlocks,
         raw[i].lines[1].depth = 0, raw[k].lines[1].depth = 0,
         FontSize(raw[k]) < FontSize(raw[i]), blocks[i].level < MaxDepth
  PROVE  blocks[i].level < blocks[k].level
<1> DEFINE R(m) == Rank(FontSize(raw[m]), HeadingSizes)
<1>1. ASSUME NEW m \in HeadingBlocks, raw[m].lines[1].depth = 0
      PROVE  /\ raw[m] \in RawSet /\ FontSize(raw[m]) \in HeadingSizes
             /\ FontSize(raw[m]) \in Nat /\ blocks[m].level = AtMostDepth(R(m))
  <2>1. input = HandedOver /\ raw \in Seq(RawSet) /\ doc \in Documents
        /\ levels = [n \in DOMAIN raw |-> Level(raw[n], HeadingSizes)]
    BY DEF ParserInv, Building, Passes, Ends, TreeOfFile, LevelsAsDetected
  <2>2. /\ m \in DOMAIN raw /\ blocks[m] = ClassifiedBlock(raw[m], levels[m])
        /\ levels[m] = Level(raw[m], HeadingSizes) /\ raw[m] \in RawSet
    BY <2>1 DEF HandedOver, HeadingBlocks, blocks
  <2>3. Kind(raw[m], levels[m]) = "heading" /\ blocks[m].level = levels[m]
    BY <2>2 DEF HeadingBlocks, ClassifiedBlock
  <2>4. levels[m] > 0 /\ HasText(raw[m])
    BY <2>3 DEF Kind
  <2>5. FontSize(raw[m]) \in HeadingSizes /\ levels[m] = AtMostDepth(R(m))
    BY <1>1, <2>2, <2>4 DEF Level
  <2> QED BY <2>1, <2>2, <2>3, <2>5, FontSizesAreNumbers
<1>2. IsFiniteSet(HeadingSizes) /\ HeadingSizes \subseteq Nat
  <2>1. raw \in Seq(RawSet) /\ doc \in Documents
    BY DEF ParserInv
  <2>2. \A n \in DOMAIN raw : FontSize(raw[n]) \in Nat
    BY <2>1, FontSizesAreNumbers
  <2> QED BY <2>1, <2>2, HeadingSizesAreFinite DEF HeadingSizes
<1>3. R(i) < R(k) /\ R(i) \in Nat /\ R(k) \in Nat
  BY <1>1, <1>2, SmallerRanksLower
<1>4. blocks[i].level = AtMostDepth(R(i)) /\ blocks[k].level = AtMostDepth(R(k))
  BY <1>1
<1> HIDE DEF R
<1> QED BY <1>3, <1>4, InputAssumption DEF AtMostDepth

\* Smaller type nests, whatever the file: ranking, stack and paths agree
\* (heading_detector.py:152, hierarchy_builder.py:96 and :386).
THEOREM SmallerTypeNests == ParserSpec => []SmallerHeadingsNest
<1>1. ParserInv /\ TreeOfFile => SmallerHeadingsNest
  <2> SUFFICES ASSUME ParserInv, TreeOfFile, phase = "done",
                      NEW i \in HeadingBlocks, NEW j \in HeadingBlocks,
                      i < j, blocks[i].level < MaxDepth,
                      \A k \in HeadingBlocks \cap i..j :
                        /\ raw[k].lines[1].depth = 0
                        /\ k # i => FontSize(raw[k]) < FontSize(raw[i])
               PROVE  Below(paths[NodeOf(i)], paths[NodeOf(j)])
      BY DEF SmallerHeadingsNest
  <2>1. IInv /\ MergeInv /\ TreeInv /\ SourceInv
    BY DEF ParserInv, Building, Passes, Ends, TreeOfFile
  <2>2. i \in HeadingBlocks \cap i..j
    BY <2>1 DEF HeadingBlocks, IInv, TypeOK, IsInput, blocks
  <2>3. \A k \in HeadingBlocks \cap i..j : k # i => blocks[i].level < blocks[k].level
    BY <2>2, SmallerIsDeeper
  <2> QED BY <2>1, <2>3, DeeperHeadingsNest
<1> QED BY <1>1, TreeOfFileInvariance, PTL

=============================================================================

---------------------------- MODULE ProofLemmas ----------------------------
(***************************************************************************)
(* Facts about numbers, sums and sequences that the proofs about several   *)
(* components use.                                                         *)
(***************************************************************************)
EXTENDS Integers, Sequences, FiniteSets, Functions, WellFoundedInduction,
        FiniteSetTheorems, TLAPS

\* Induction over the naturals, said of sets.
LEMMA NatSetInduction ==
    ASSUME NEW S, 0 \in S, \A n \in Nat : n \in S => n + 1 \in S
    PROVE  Nat \subseteq S
<1> DEFINE T == Nat \ S
<1>1. ASSUME T # {} PROVE FALSE
  <2>1. IsWellFoundedOn(OpToRel(<, Nat), Nat)
    BY NatLessThanWellFounded
  <2>2. PICK x \in T : \A y \in T : ~ (<<y, x>> \in OpToRel(<, Nat))
    BY <1>1, <2>1, WFMin, Zenon
  <2>3. \A y \in T : ~(y < x)
    BY <2>2 DEF OpToRel
  <2>4. x # 0 /\ x \in Nat
    OBVIOUS
  <2>5. x - 1 \in Nat /\ x - 1 < x /\ (x - 1) + 1 = x
    BY <2>4
  <2>6. x - 1 \in S
    BY <2>3, <2>5
  <2>7. QED BY <2>5, <2>6
<1>2. QED BY <1>1

----------------------------------------------------------------------------
(* Products and quotients.                                                *)

LEMMA TimesKeepsOrder ==
    ASSUME NEW a \in Int, NEW b \in Int, NEW c \in Nat, a <= b
    PROVE  a * c <= b * c /\ c * a <= c * b
  OBVIOUS

LEMMA LessFromTimes ==
    ASSUME NEW a \in Int, NEW b \in Int, NEW c \in Nat, a * c < b * c
    PROVE  a < b
<1>1. ASSUME b <= a PROVE FALSE
  BY <1>1, TimesKeepsOrder
<1>2. QED BY <1>1

\* (a + b - 1) \div b rounds up, by less than one.
LEMMA RoundingUp ==
    ASSUME NEW a \in Nat, NEW b \in Nat \ {0}
    PROVE  LET n == (a + b - 1) \div b IN n \in Nat /\ a <= n * b /\ (n - 1) * b < a
<1>1. PICK q, r : q = (a + b - 1) \div b /\ r = (a + b - 1) % b
  OBVIOUS
<1>2. q \in Int /\ r \in 0 .. b - 1 /\ a + b - 1 = b * q + r
  BY <1>1
<1>3. q >= 0
  BY <1>1
<1>4. (q - 1) * b = q * b - b /\ q * b = b * q
  BY <1>2
<1>5. QED BY <1>1, <1>2, <1>3, <1>4

----------------------------------------------------------------------------
(* Sums.                                                                  *)

\* f[1] + ... + f[n] = total: t has the sums of the first entries.
SumsUp(t, f, n) == t \in [0 .. n -> Int] /\ t[0] = 0 /\ \A i \in 1 .. n : t[i] = t[i - 1] + f[i]
Totals(f, n, total) == \E t : SumsUp(t, f, n) /\ t[n] = total

\* An entry that grows by d, or shrinks, takes the total along.
LEMMA TotalMoves ==
    ASSUME NEW n \in Nat, NEW f \in [1 .. n -> Int], NEW g \in [1 .. n -> Int],
           NEW k \in 1 .. n, NEW d \in Int,
           g[k] = f[k] + d, \A i \in 1 .. n : i # k => g[i] = f[i],
           NEW total \in Int, Totals(f, n, total)
    PROVE  Totals(g, n, total + d)
<1>1. PICK t : SumsUp(t, f, n) /\ t[n] = total
  BY DEF Totals
<1> DEFINE u == [i \in 0 .. n |-> IF i < k THEN t[i] ELSE t[i] + d]
<1>2. t \in [0 .. n -> Int]
  BY <1>1 DEF SumsUp
<1>3. u \in [0 .. n -> Int] /\ u[0] = 0
  <2>1. u \in [0 .. n -> Int]
    BY <1>2
  <2>2. 0 \in 0 .. n /\ 0 < k
    OBVIOUS
  <2>3. u[0] = t[0]
    BY <2>2
  <2>4. QED BY <1>1, <2>1, <2>3 DEF SumsUp
<1>4. ASSUME NEW i \in 1 .. n PROVE u[i] = u[i - 1] + g[i]
  <2>1. t[i] = t[i - 1] + f[i] /\ i \in 0 .. n /\ i - 1 \in 0 .. n /\ i \in Int
    BY <1>1 DEF SumsUp
  <2>2. t[i] \in Int /\ t[i - 1] \in Int /\ f[i] \in Int /\ g[i] \in Int
    BY <1>2, <2>1
  <2>3. u[i] = (IF i < k THEN t[i] ELSE t[i] + d) /\ u[i - 1] = (IF i - 1 < k THEN t[i - 1] ELSE t[i - 1] + d)
    BY <2>1
  <2> HIDE DEF u
  <2>4. CASE i < k
    BY <2>1, <2>2, <2>3, <2>4
  <2>5. CASE i = k
    BY <2>1, <2>2, <2>3, <2>5
  <2>6. CASE i > k
    BY <2>1, <2>2, <2>3, <2>6
  <2>7. QED BY <2>1, <2>4, <2>5, <2>6
<1>5. u[n] = total + d
  BY <1>1
<1>6. QED BY <1>3, <1>4, <1>5 DEF Totals, SumsUp

LEMMA TotalOfNothing ==
    ASSUME NEW n \in Nat, NEW f, \A i \in 1 .. n : f[i] = 0
    PROVE  Totals(f, n, 0)
<1> DEFINE u == [i \in 0 .. n |-> 0]
<1>1. SumsUp(u, f, n) /\ u[n] = 0
  BY DEF SumsUp
<1>2. QED BY <1>1 DEF Totals

\* A sequence of entries has one total.
LEMMA OneTotal ==
    ASSUME NEW n \in Nat, NEW f \in [1 .. n -> Int], NEW t, NEW u, SumsUp(t, f, n), SumsUp(u, f, n)
    PROVE  t[n] = u[n]
<1> DEFINE S == {i \in Nat : i <= n => t[i] = u[i]}
<1>1. 0 \in S
  BY DEF SumsUp
<1>2. ASSUME NEW i \in Nat, i \in S PROVE i + 1 \in S
  <2>1. CASE i + 1 <= n
    <3>1. i + 1 \in 1 .. n /\ (i + 1) - 1 = i
      BY <2>1
    <3>2. t[i + 1] = t[i] + f[i + 1] /\ u[i + 1] = u[i] + f[i + 1]
      BY <3>1 DEF SumsUp
    <3>3. t[i] = u[i]
      BY <1>2, <2>1
    <3>4. QED BY <3>2, <3>3
  <2>2. QED BY <2>1
<1>3. Nat \subseteq S
  BY <1>1, <1>2, NatSetInduction
<1>4. QED BY <1>3

----------------------------------------------------------------------------
(* Sequences.                                                             *)

\* Where the entries of a concatenation come from.
LEMMA Joining ==
    ASSUME NEW S, NEW a \in Seq(S), NEW b \in Seq(S), NEW l, NEW m, Len(a) = l, Len(b) = m
    PROVE  /\ a \o b \in Seq(S) /\ Len(a \o b) = l + m /\ DOMAIN (a \o b) = 1 .. l + m
           /\ \A k \in 1 .. l : (a \o b)[k] = a[k]
           /\ \A k \in 1 .. m : (a \o b)[l + k] = b[k]
<1>1. l \in Nat /\ m \in Nat
  OBVIOUS
<1>2. a \o b \in Seq(S) /\ Len(a \o b) = l + m
  OBVIOUS
<1>3. DOMAIN (a \o b) = 1 .. l + m
  BY <1>2
<1>4. ASSUME NEW k \in 1 .. l PROVE (a \o b)[k] = a[k]
  BY <1>1, <1>4
<1>5. ASSUME NEW k \in 1 .. m PROVE (a \o b)[l + k] = b[k]
  <2>1. l + k \in 1 .. Len(a) + Len(b) /\ ~(l + k <= Len(a)) /\ (l + k) - Len(a) = k
    BY <1>1
  <2>2. QED BY <2>1
<1>6. QED BY <1>2, <1>3, <1>4, <1>5

----------------------------------------------------------------------------
(* Sums over finite sets.                                                 *)

\* Induction over the subsets of a finite set, said of sets.
LEMMA SubsetInduction ==
    ASSUME NEW S, IsFiniteSet(S), NEW C,
           \A T \in SUBSET S : (\A x \in T : T \ {x} \in C) => T \in C
    PROVE  SUBSET S \subseteq C
<1> DEFINE N == {n \in Nat : \A T \in SUBSET S : Cardinality(T) = n => T \in C}
<1>1. \A T \in SUBSET S : IsFiniteSet(T) /\ Cardinality(T) \in Nat
  BY FS_Subset, FS_CardinalityType
<1>2. 0 \in N
  <2>1. \A T \in SUBSET S : Cardinality(T) = 0 => T = {}
    BY <1>1, FS_EmptySet
  <2>2. QED BY <2>1
<1>3. ASSUME NEW n \in Nat, n \in N PROVE n + 1 \in N
  <2>1. ASSUME NEW T \in SUBSET S, Cardinality(T) = n + 1 PROVE T \in C
    <3>1. ASSUME NEW x \in T PROVE T \ {x} \in C
      <4>1. Cardinality(T \ {x}) = Cardinality(T) - 1
        BY <1>1, FS_RemoveElement
      <4>2. Cardinality(T \ {x}) = n
        BY <2>1, <4>1
      <4>3. QED BY <1>3, <4>2
    <3>2. QED BY <3>1
  <2>2. QED BY <2>1
<1>4. Nat \subseteq N
  BY <1>2, <1>3, NatSetInduction
<1>5. QED BY <1>1, <1>4

\* f has a number for every member of S.
Counts(f, S) == \A x \in S : f[x] \in Int

\* g sums up f over the subsets of S, an element at a time.
Pick(T) == CHOOSE x \in T : TRUE
SumsOver(g, f, S) ==
    g = [T \in SUBSET S |-> IF T = {} THEN 0 ELSE f[Pick(T)] + g[T \ {Pick(T)}]]

LEMMA SumIsAFold ==
    ASSUME NEW f, NEW S
    PROVE  \E g : g = (CHOOSE h : SumsOver(h, f, S)) /\ SumFunctionOnSet(f, S) = g[S]
  BY DEF SumFunctionOnSet, FoldFunctionOnSet, MapThenFoldSet, SumsOver, Pick

LEMMA PickOne == ASSUME NEW T, T # {} PROVE Pick(T) \in T
  BY DEF Pick

LEMMA SumsExist ==
    ASSUME NEW S, IsFiniteSet(S), NEW f, Counts(f, S)
    PROVE  \E g : Counts(g, SUBSET S) /\ SumsOver(g, f, S)
<1> DEFINE Up(g, n) == \A T \in SUBSET S : Cardinality(T) <= n =>
                         g[T] = IF T = {} THEN 0 ELSE f[Pick(T)] + g[T \ {Pick(T)}]
           N == {n \in Nat : \E g \in [SUBSET S -> Int] : Up(g, n)}
<1>1. \A T \in SUBSET S : IsFiniteSet(T) /\ Cardinality(T) \in Nat /\ Cardinality(T) <= Cardinality(S)
  BY FS_Subset, FS_CardinalityType
<1>2. 0 \in N
  <2>1. PICK g : g = [T \in SUBSET S |-> 0]
    OBVIOUS
  <2>2. \A T \in SUBSET S : Cardinality(T) <= 0 => T = {}
    <3>1. \A T \in SUBSET S : Cardinality(T) = 0 => T = {}
      BY <1>1, FS_EmptySet
    <3>2. QED BY <1>1, <3>1
  <2>3. g \in [SUBSET S -> Int] /\ Up(g, 0)
    BY <2>1, <2>2
  <2>4. QED BY <2>3
<1>3. ASSUME NEW n \in Nat, n \in N PROVE n + 1 \in N
  <2>1. PICK g \in [SUBSET S -> Int] : Up(g, n)
    BY <1>3
  <2>2. PICK h : h = [T \in SUBSET S |-> IF T = {} THEN 0 ELSE f[Pick(T)] + g[T \ {Pick(T)}]]
    OBVIOUS
  <2>3. \A T \in SUBSET S : T # {} => Pick(T) \in T /\ Pick(T) \in S /\ T \ {Pick(T)} \in SUBSET S
    BY PickOne
  <2>4. h \in [SUBSET S -> Int]
    BY <2>2, <2>3 DEF Counts
  <2>5. ASSUME NEW T \in SUBSET S, Cardinality(T) <= n PROVE h[T] = g[T]
    BY <2>1, <2>2, <2>5
  <2>6. ASSUME NEW T \in SUBSET S, Cardinality(T) <= n + 1, T # {} PROVE h[T \ {Pick(T)}] = g[T \ {Pick(T)}]
    <3>1. Pick(T) \in T
      BY <2>3, <2>6
    <3>2. Cardinality(T \ {Pick(T)}) = Cardinality(T) - 1
      BY <1>1, <3>1, FS_RemoveElement
    <3>3. Cardinality(T \ {Pick(T)}) <= n
      BY <1>1, <2>6, <3>2
    <3>4. QED BY <2>3, <2>5, <2>6, <3>3
  <2>7. Up(h, n + 1)
    BY <2>2, <2>6
  <2>8. QED BY <2>4, <2>7
<1>4. Nat \subseteq N
  BY <1>2, <1>3, NatSetInduction
<1>5. Cardinality(S) \in N
  BY <1>1, <1>4
<1>6. PICK g \in [SUBSET S -> Int] : Up(g, Cardinality(S))
  BY <1>5
<1>7. g = [T \in SUBSET S |-> g[T]]
  OBVIOUS
<1>8. \A T \in SUBSET S : g[T] = IF T = {} THEN 0 ELSE f[Pick(T)] + g[T \ {Pick(T)}]
  BY <1>1, <1>6
<1>9. QED BY <1>7, <1>8 DEF SumsOver, Counts

LEMMA SumsOfSubsets ==
    ASSUME NEW S, IsFiniteSet(S), NEW R, NEW f, NEW g, NEW h, SumsOver(g, f, S), SumsOver(h, f, R),
           NEW T \in SUBSET S, T \subseteq R
    PROVE  g[T] = h[T]
<1> DEFINE C == {U \in SUBSET S : U \subseteq R => g[U] = h[U]}
<1>1. ASSUME NEW U \in SUBSET S, \A x \in U : U \ {x} \in C PROVE U \in C
  <2>1. CASE U = {}
    BY <2>1 DEF SumsOver
  <2>2. CASE U # {} /\ U \subseteq R
    <3>1. Pick(U) \in U
      BY <2>2, PickOne
    <3>2. U \ {Pick(U)} \in C
      BY <1>1, <3>1
    <3>3. g[U \ {Pick(U)}] = h[U \ {Pick(U)}]
      BY <2>2, <3>2
    <3>4. g[U] = f[Pick(U)] + g[U \ {Pick(U)}] /\ h[U] = f[Pick(U)] + h[U \ {Pick(U)}]
      BY <2>2 DEF SumsOver
    <3>5. QED BY <3>3, <3>4
  <2>3. QED BY <2>1, <2>2
<1>2. SUBSET S \subseteq C
  <2> HIDE DEF C
  <2>1. QED BY <1>1, SubsetInduction
<1>3. QED BY <1>2

LEMMA SumsTakeOut ==
    ASSUME NEW S, IsFiniteSet(S), NEW f, Counts(f, S),
           NEW g, Counts(g, SUBSET S), SumsOver(g, f, S), NEW T \in SUBSET S, NEW x \in T
    PROVE  g[T] = f[x] + g[T \ {x}]
<1> DEFINE C == {U \in SUBSET S : \A y \in U : g[U] = f[y] + g[U \ {y}]}
<1>1. ASSUME NEW U \in SUBSET S, \A y \in U : U \ {y} \in C, NEW y \in U PROVE g[U] = f[y] + g[U \ {y}]
  <2>1. PICK c \in U : c = Pick(U)
    BY PickOne
  <2>2. g[U] = f[c] + g[U \ {c}]
    BY <2>1 DEF SumsOver
  <2>3. CASE c # y
    <3>1. U \ {y} \in C /\ c \in U \ {y} /\ U \ {c} \in C /\ y \in U \ {c}
      BY <1>1, <2>3
    <3>2. g[U \ {y}] = f[c] + g[(U \ {y}) \ {c}] /\ g[U \ {c}] = f[y] + g[(U \ {c}) \ {y}]
      BY <3>1
    <3>3. (U \ {y}) \ {c} = (U \ {c}) \ {y}
      OBVIOUS
    <3>4. g[(U \ {c}) \ {y}] \in Int /\ f[c] \in Int /\ f[y] \in Int
      <4>1. (U \ {c}) \ {y} \in SUBSET S
        OBVIOUS
      <4>2. QED BY <4>1 DEF Counts
    <3>5. PICK d \in Int : d = g[(U \ {c}) \ {y}]
      BY <3>4
    <3>6. g[U] = f[c] + (f[y] + d) /\ g[U \ {y}] = f[c] + d
      BY <2>2, <3>2, <3>3, <3>5
    <3>7. QED BY <3>4, <3>6
  <2>4. QED BY <2>2, <2>3
<1>2. ASSUME NEW U \in SUBSET S, \A y \in U : U \ {y} \in C PROVE U \in C
  BY <1>1, <1>2
<1>3. SUBSET S \subseteq C
  <2> HIDE DEF C
  <2>1. \A U \in SUBSET S : (\A y \in U : U \ {y} \in C) => U \in C
    BY <1>2
  <2>2. QED BY <2>1, SubsetInduction
<1>4. QED BY <1>3

\* What a sum over a finite set is.
LEMMA SumOverSet ==
    ASSUME NEW S, IsFiniteSet(S), NEW f, Counts(f, S)
    PROVE  /\ SumFunctionOnSet(f, S) \in Int
           /\ S = {} => SumFunctionOnSet(f, S) = 0
           /\ \A x \in S : SumFunctionOnSet(f, S) = f[x] + SumFunctionOnSet(f, S \ {x})
<1>1. ASSUME NEW T \in SUBSET S
      PROVE  \E g : Counts(g, SUBSET T) /\ SumsOver(g, f, T) /\ SumFunctionOnSet(f, T) = g[T]
  <2>1. IsFiniteSet(T) /\ Counts(f, T)
    BY FS_Subset DEF Counts
  <2>2. PICK h : Counts(h, SUBSET T) /\ SumsOver(h, f, T)
    BY <2>1, SumsExist
  <2>3. PICK g : g = (CHOOSE k : SumsOver(k, f, T)) /\ SumFunctionOnSet(f, T) = g[T]
    BY SumIsAFold
  <2>4. SumsOver(g, f, T)
    BY <2>2, <2>3
  <2>5. \A U \in SUBSET T : g[U] = h[U]
    BY <2>1, <2>2, <2>4, SumsOfSubsets
  <2>7. Counts(g, SUBSET T)
    BY <2>2, <2>5 DEF Counts
  <2>8. QED BY <2>3, <2>4, <2>7
<1>2. PICK g : Counts(g, SUBSET S) /\ SumsOver(g, f, S) /\ SumFunctionOnSet(f, S) = g[S]
  BY <1>1
<1>3. S = {} => g[S] = 0
  BY <1>2 DEF SumsOver
<1>4. ASSUME NEW x \in S PROVE SumFunctionOnSet(f, S) = f[x] + SumFunctionOnSet(f, S \ {x})
  <2>1. PICK T \in SUBSET S : T = S \ {x}
    OBVIOUS
  <2>2. PICK h : Counts(h, SUBSET T) /\ SumsOver(h, f, T) /\ SumFunctionOnSet(f, T) = h[T]
    BY <1>1
  <2>3. g[T] = h[T]
    BY <1>2, <2>1, <2>2, SumsOfSubsets
  <2>4. g[S] = f[x] + g[S \ {x}]
    <3>1. S \in SUBSET S
      OBVIOUS
    <3>2. QED BY <1>2, <3>1, SumsTakeOut
  <2>5. QED BY <1>2, <2>1, <2>2, <2>3, <2>4
<1>5. QED BY <1>2, <1>3, <1>4 DEF Counts

\* What agrees on S has the same sum.
LEMMA SumsAgree ==
    ASSUME NEW S, IsFiniteSet(S), NEW f, NEW g, Counts(f, S), \A x \in S : g[x] = f[x]
    PROVE  SumFunctionOnSet(g, S) = SumFunctionOnSet(f, S)
<1> DEFINE C == {T \in SUBSET S : SumFunctionOnSet(g, T) = SumFunctionOnSet(f, T)}
<1>1. ASSUME NEW T \in SUBSET S, \A x \in T : T \ {x} \in C PROVE T \in C
  <2>1. IsFiniteSet(T) /\ Counts(f, T) /\ Counts(g, T)
    BY FS_Subset DEF Counts
  <2>2. CASE T = {}
    BY <2>1, <2>2, SumOverSet
  <2>3. CASE T # {}
    <3>1. PICK x \in T : TRUE
      BY <2>3
    <3>2. SumFunctionOnSet(f, T) = f[x] + SumFunctionOnSet(f, T \ {x})
      BY <2>1, SumOverSet
    <3>3. SumFunctionOnSet(g, T) = g[x] + SumFunctionOnSet(g, T \ {x})
      BY <2>1, SumOverSet
    <3>4. QED BY <1>1, <3>2, <3>3
  <2>4. QED BY <2>2, <2>3
<1>2. SUBSET S \subseteq C
  <2> HIDE DEF C
  <2>1. QED BY <1>1, SubsetInduction
<1>3. QED BY <1>2

\* The sum over two sets that do not meet.
LEMMA SumsSplit ==
    ASSUME NEW S, IsFiniteSet(S), NEW f, Counts(f, S), NEW A, NEW B, A \cup B = S, A \cap B = {}
    PROVE  SumFunctionOnSet(f, S) = SumFunctionOnSet(f, A) + SumFunctionOnSet(f, B)
<1> DEFINE C == {T \in SUBSET A : SumFunctionOnSet(f, T \cup B) = SumFunctionOnSet(f, T) + SumFunctionOnSet(f, B)}
<1>0. IsFiniteSet(A) /\ IsFiniteSet(B) /\ Counts(f, B)
  BY FS_Subset DEF Counts
<1>1. ASSUME NEW T \in SUBSET A, \A x \in T : T \ {x} \in C PROVE T \in C
  <2>1. IsFiniteSet(T) /\ Counts(f, T) /\ IsFiniteSet(T \cup B) /\ Counts(f, T \cup B)
    <3>1. T \in SUBSET S /\ T \cup B \in SUBSET S
      OBVIOUS
    <3>2. IsFiniteSet(T) /\ IsFiniteSet(T \cup B)
      BY <3>1, FS_Subset
    <3>3. QED BY <3>1, <3>2 DEF Counts
  <2>2. SumFunctionOnSet(f, B) \in Int
    BY <1>0, SumOverSet
  <2>3. CASE T = {}
    <3>1. SumFunctionOnSet(f, T) = 0 /\ T \cup B = B
      BY <2>1, <2>3, SumOverSet
    <3>2. SumFunctionOnSet(f, T \cup B) = SumFunctionOnSet(f, B)
      BY <3>1
    <3>3. QED BY <2>2, <3>1, <3>2
  <2>4. CASE T # {}
    <3>1. PICK x \in T : TRUE
      BY <2>4
    <3>2. SumFunctionOnSet(f, T) = f[x] + SumFunctionOnSet(f, T \ {x})
      BY <2>1, SumOverSet
    <3>3. SumFunctionOnSet(f, T \cup B) = f[x] + SumFunctionOnSet(f, (T \cup B) \ {x})
      BY <2>1, SumOverSet
    <3>4. (T \cup B) \ {x} = (T \ {x}) \cup B
      OBVIOUS
    <3>5. SumFunctionOnSet(f, (T \ {x}) \cup B) = SumFunctionOnSet(f, T \ {x}) + SumFunctionOnSet(f, B)
      BY <1>1
    <3>6. IsFiniteSet(T \ {x}) /\ Counts(f, T \ {x})
      BY <2>1, FS_RemoveElement DEF Counts
    <3>7. SumFunctionOnSet(f, T \ {x}) \in Int /\ f[x] \in Int
      BY <2>1, <3>6, SumOverSet DEF Counts
    <3> HIDE DEF C
    <3>8. PICK p \in Int, q \in Int, b \in Int :
            p = f[x] /\ q = SumFunctionOnSet(f, T \ {x}) /\ b = SumFunctionOnSet(f, B)
      BY <2>2, <3>7
    <3>10. SumFunctionOnSet(f, T \cup B) = p + (q + b)
      BY <3>3, <3>4, <3>5, <3>8
    <3>11. SumFunctionOnSet(f, T \cup B) = SumFunctionOnSet(f, T) + SumFunctionOnSet(f, B)
      BY <3>2, <3>8, <3>10
    <3>9. QED BY <3>11 DEF C
  <2>5. QED BY <2>3, <2>4
<1>2. SUBSET A \subseteq C
  <2> HIDE DEF C
  <2>1. QED BY <1>0, <1>1, SubsetInduction
<1>3. A \in C
  BY <1>2
<1>4. QED BY <1>3

\* Sums of differences.
LEMMA SumsSubtract ==
    ASSUME NEW S, IsFiniteSet(S), NEW f, NEW g, NEW h, Counts(f, S), Counts(g, S),
           \A x \in S : h[x] = f[x] - g[x]
    PROVE  SumFunctionOnSet(h, S) = SumFunctionOnSet(f, S) - SumFunctionOnSet(g, S)
<1> DEFINE C == {T \in SUBSET S : SumFunctionOnSet(h, T) = SumFunctionOnSet(f, T) - SumFunctionOnSet(g, T)}
<1>1. ASSUME NEW T \in SUBSET S, \A x \in T : T \ {x} \in C PROVE T \in C
  <2>1. IsFiniteSet(T) /\ Counts(f, T) /\ Counts(g, T) /\ Counts(h, T)
    BY FS_Subset DEF Counts
  <2>2. CASE T = {}
    BY <2>1, <2>2, SumOverSet
  <2>3. CASE T # {}
    <3>1. PICK x \in T : TRUE
      BY <2>3
    <3>2. IsFiniteSet(T \ {x}) /\ Counts(f, T \ {x}) /\ Counts(g, T \ {x})
      BY <2>1, FS_RemoveElement DEF Counts
    <3>3. PICK a \in Int, b \in Int, p \in Int, q \in Int :
            a = SumFunctionOnSet(f, T \ {x}) /\ b = SumFunctionOnSet(g, T \ {x}) /\ p = f[x] /\ q = g[x]
      BY <3>2, SumOverSet DEF Counts
    <3>4. SumFunctionOnSet(f, T) = p + a /\ SumFunctionOnSet(g, T) = q + b
      BY <2>1, <3>3, SumOverSet
    <3>5. SumFunctionOnSet(h, T) = h[x] + SumFunctionOnSet(h, T \ {x})
      BY <2>1, SumOverSet
    <3>6. h[x] = p - q /\ SumFunctionOnSet(h, T \ {x}) = a - b
      BY <1>1, <3>1, <3>3
    <3>7. QED BY <3>4, <3>5, <3>6
  <2>4. QED BY <2>2, <2>3
<1>2. SUBSET S \subseteq C
  <2> HIDE DEF C
  <2>1. QED BY <1>1, SubsetInduction
<1>3. QED BY <1>2

\* Counting a set is summing ones.
LEMMA SumsCount ==
    ASSUME NEW S, IsFiniteSet(S), NEW f, \A x \in S : f[x] = 1
    PROVE  SumFunctionOnSet(f, S) = Cardinality(S)
<1> DEFINE C == {T \in SUBSET S : SumFunctionOnSet(f, T) = Cardinality(T)}
<1>1. ASSUME NEW T \in SUBSET S, \A x \in T : T \ {x} \in C PROVE T \in C
  <2>1. IsFiniteSet(T) /\ Counts(f, T)
    BY FS_Subset DEF Counts
  <2>2. CASE T = {}
    BY <2>1, <2>2, SumOverSet, FS_EmptySet
  <2>3. CASE T # {}
    <3>1. PICK x \in T : TRUE
      BY <2>3
    <3>2. SumFunctionOnSet(f, T) = f[x] + SumFunctionOnSet(f, T \ {x})
      BY <2>1, SumOverSet
    <3>3. Cardinality(T \ {x}) = Cardinality(T) - 1 /\ Cardinality(T) \in Nat
      BY <2>1, FS_RemoveElement, FS_CardinalityType
    <3>4. SumFunctionOnSet(f, T \ {x}) = Cardinality(T \ {x}) /\ f[x] = 1
      BY <1>1
    <3>5. QED BY <3>2, <3>3, <3>4
  <2>4. QED BY <2>2, <2>3
<1>2. SUBSET S \subseteq C
  <2> HIDE DEF C
  <2>1. QED BY <1>1, SubsetInduction
<1>3. QED BY <1>2

\* The sums by groups: h[k] is the sum over the members of S whose key is k.
LEMMA SumsByGroup ==
    ASSUME NEW S, IsFiniteSet(S), NEW f, Counts(f, S), NEW key, NEW K, IsFiniteSet(K),
           \A x \in S : key[x] \in K, NEW h,
           \A k \in K : h[k] = SumFunctionOnSet(f, {x \in S : key[x] = k})
    PROVE  SumFunctionOnSet(h, K) = SumFunctionOnSet(f, S)
<1> DEFINE Of(G) == {x \in S : key[x] \in G}
           C == {G \in SUBSET K : SumFunctionOnSet(h, G) = SumFunctionOnSet(f, Of(G))}
<1>0. \A R \in SUBSET S : IsFiniteSet(R) /\ Counts(f, R) /\ SumFunctionOnSet(f, R) \in Int
  <2>1. ASSUME NEW R \in SUBSET S PROVE IsFiniteSet(R) /\ Counts(f, R)
    BY FS_Subset DEF Counts
  <2>2. QED BY <2>1, SumOverSet
<1>1. ASSUME NEW G \in SUBSET K, \A k \in G : G \ {k} \in C PROVE G \in C
  <2>1. IsFiniteSet(G)
    BY FS_Subset
  <2>2. Counts(h, G)
    <3>1. \A k \in G : {x \in S : key[x] = k} \in SUBSET S
      OBVIOUS
    <3>2. QED BY <1>0, <3>1 DEF Counts
  <2>3. CASE G = {}
    <3>1. Of(G) = {}
      BY <2>3
    <3>2. SumFunctionOnSet(f, {}) = 0
      BY <1>0, SumOverSet
    <3>3. SumFunctionOnSet(h, {}) = 0
      BY <2>1, <2>2, <2>3, SumOverSet
    <3>4. QED BY <2>3, <3>1, <3>2, <3>3
  <2>4. CASE G # {}
    <3>1. PICK k \in G : TRUE
      BY <2>4
    <3>2. SumFunctionOnSet(h, G) = h[k] + SumFunctionOnSet(h, G \ {k})
      BY <2>1, <2>2, SumOverSet
    <3>3. PICK A, B : A = {x \in S : key[x] = k} /\ B = Of(G \ {k})
      OBVIOUS
    <3>4. A \cup B = Of(G) /\ A \cap B = {} /\ A \in SUBSET S /\ B \in SUBSET S /\ Of(G) \in SUBSET S
      BY <3>3
    <3>5. h[k] = SumFunctionOnSet(f, A) /\ SumFunctionOnSet(h, G \ {k}) = SumFunctionOnSet(f, B)
      BY <1>1, <3>3
    <3> HIDE DEF Of, C
    <3>6. SumFunctionOnSet(f, Of(G)) = SumFunctionOnSet(f, A) + SumFunctionOnSet(f, B)
      BY <1>0, <3>4, SumsSplit
    <3>7. SumFunctionOnSet(h, G) = SumFunctionOnSet(f, Of(G))
      BY <3>2, <3>5, <3>6
    <3>8. QED BY <3>7 DEF C
  <2>5. QED BY <2>3, <2>4
<1>2. SUBSET K \subseteq C
  <2> HIDE DEF C
  <2>1. QED BY <1>1, SubsetInduction
<1>3. K \in C /\ Of(K) = S
  BY <1>2
<1>4. QED BY <1>3

----------------------------------------------------------------------------
(* Finite sets.                                                           *)

\* A set of naturals has a least member.
LEMMA LeastNatural ==
    ASSUME NEW S \in SUBSET Nat, S # {}
    PROVE  \E m \in S : \A x \in S : m <= x
<1> DEFINE N == {n \in Nat : \A x \in S : n <= x}
<1>1. ASSUME \A m \in S : \E x \in S : ~(m <= x) PROVE FALSE
  <2>1. 0 \in N
    OBVIOUS
  <2>2. ASSUME NEW n \in Nat, n \in N PROVE n + 1 \in N
    <3>1. n \notin S
      BY <1>1, <2>2
    <3>2. \A x \in S : n <= x /\ x # n
      BY <2>2, <3>1
    <3>3. QED BY <3>2
  <2>3. Nat \subseteq N
    <3> HIDE DEF N
    <3>1. QED BY <2>1, <2>2, NatSetInduction
  <2>4. PICK x \in S : TRUE
    OBVIOUS
  <2>5. x + 1 \in N
    BY <2>3
  <2>6. QED BY <2>5
<1>2. QED BY <1>1

\* A finite set has finitely many images.
LEMMA FiniteImages ==
    ASSUME NEW S, IsFiniteSet(S), NEW f
    PROVE  IsFiniteSet({f[x] : x \in S})
<1> DEFINE Image(T) == {f[x] : x \in T}
           C == {T \in SUBSET S : IsFiniteSet(Image(T))}
<1>1. ASSUME NEW T \in SUBSET S, \A x \in T : T \ {x} \in C PROVE T \in C
  <2>1. CASE T = {}
    <3>1. Image(T) = {}
      BY <2>1
    <3>2. QED BY <3>1, FS_EmptySet
  <2>2. CASE T # {}
    <3>1. PICK x \in T : TRUE
      BY <2>2
    <3>2. PICK G : G = Image(T \ {x})
      OBVIOUS
    <3>3. Image(T) = G \cup {f[x]}
      BY <3>2
    <3>4. IsFiniteSet(G)
      BY <1>1, <3>2
    <3>5. IsFiniteSet(G \cup {f[x]})
      BY <3>4, FS_AddElement
    <3>6. QED BY <3>3, <3>5
  <2>3. QED BY <2>1, <2>2
<1>2. SUBSET S \subseteq C
  <2> HIDE DEF C
  <2>1. QED BY <1>1, SubsetInduction
<1>3. QED BY <1>2
============================================================================

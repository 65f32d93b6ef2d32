----------------------------- MODULE Stepwise -------------------------------
(***************************************************************************)
(* Steps over the naturals, sums over finite sets, sequences with elements *)
(* removed and sequences whose elements are apart: the induction the proofs*)
(* need, each instance of it stated for a set that holds the cases.        *)
(***************************************************************************)
EXTENDS Integers, Sequences, FiniteSets, Functions, Removal, FiniteSetTheorems,
        SequenceTheorems, WellFoundedInduction, TLAPS

(* A set that has 0, and with a number its successor, has them all up to N. *)
LEMMA StepByStep ==
    ASSUME NEW N \in Nat, NEW Good, 0 \in Good,
           \A n \in 0..N : n + 1 \in 0..N /\ n \in Good => n + 1 \in Good
    PROVE  0..N \subseteq Good
<1> DEFINE Bad == {n \in 0..N : n \notin Good}
           T == {0..n : n \in Bad}
           R == StrictSubsetOrdering(Nat)
<1>1. SUFFICES ASSUME Bad # {} PROVE FALSE
  OBVIOUS
<1>2. T \subseteq FiniteSubsetsOf(Nat) /\ T # {}
  <2>1. \A n \in Bad : IsFiniteSet(0..n) /\ 0..n \in SUBSET Nat
    BY FS_Interval
  <2>2. QED
    BY <1>1, <2>1 DEF FiniteSubsetsOf
<1>3. PICK x \in T : \A y \in T : <<y, x>> \notin R
  <2> HIDE DEF T, R
  <2>1. IsWellFoundedOn(R, FiniteSubsetsOf(Nat))
    BY FS_StrictSubsetOrderingWellFounded DEF R
  <2>2. QED
    BY <1>2, <2>1, WFMin
<1>4. PICK n \in Bad : x = 0..n
  OBVIOUS
<1>5. n # 0 /\ n - 1 \in 0..N /\ (n - 1) + 1 = n /\ n \in Nat
  OBVIOUS
<1>6. n - 1 \in Bad
  BY <1>5
<1>7. <<0..(n - 1), 0..n>> \in R
  <2>1. 0..(n - 1) \subseteq 0..n /\ 0..n \subseteq Nat /\ n \in 0..n /\ n \notin 0..(n - 1)
    BY <1>5
  <2>2. QED
    BY <2>1 DEF StrictSubsetOrdering
<1>8. QED
  BY <1>3, <1>4, <1>6, <1>7

(* There is a function that starts at base and takes the steps of next.     *)
Takes(f, S, N, base, next) ==
    f \in [0..N -> S] /\ f[0] = base /\ \A n \in 1..N : f[n] = next[n][f[n - 1]]

LEMMA StepsCanBeTaken ==
    ASSUME NEW S, NEW N \in Nat, NEW base \in S, NEW next \in [1..N -> [S -> S]]
    PROVE  \E f : Takes(f, S, N, base, next)
<1> DEFINE Upto(m, f) == /\ f \in [0..m -> S] /\ f[0] = base
                         /\ \A n \in 1..m : f[n] = next[n][f[n - 1]]
           Good == {m \in 0..N : \E f : Upto(m, f)}
<1>1. 0 \in Good
  <2>1. Upto(0, [n \in 0..0 |-> base])
    OBVIOUS
  <2> HIDE DEF Upto
  <2>2. \E f : Upto(0, f)
    BY <2>1
  <2>3. QED
    BY <2>2
<1>2. ASSUME NEW m \in 0..N, m + 1 \in 0..N, m \in Good PROVE m + 1 \in Good
  <2>1. PICK f : Upto(m, f)
    BY <1>2
  <2> DEFINE g == [n \in 0..(m + 1) |-> IF n = m + 1 THEN next[m + 1][f[m]] ELSE f[n]]
  <2>2. m \in Nat /\ m + 1 \in 1..N /\ f[m] \in S
    BY <1>2, <2>1
  <2>3. next[m + 1][f[m]] \in S
    BY <2>2
  <2>4. \A n \in 0..(m + 1) : n = m + 1 \/ n \in 0..m
    BY <2>2
  <2>5. \A n \in 0..(m + 1) : g[n] = IF n = m + 1 THEN next[m + 1][f[m]] ELSE f[n]
    OBVIOUS
  <2>6. g \in [0..(m + 1) -> S]
    BY <2>1, <2>3, <2>4
  <2> HIDE DEF g
  <2>7. g[0] = base
    BY <2>1, <2>2, <2>5
  <2>8. ASSUME NEW n \in 1..(m + 1) PROVE g[n] = next[n][g[n - 1]]
    <3>1. n \in 0..(m + 1) /\ n - 1 \in 0..(m + 1) /\ n - 1 # m + 1
      BY <2>2
    <3>2. g[n - 1] = f[n - 1]
      BY <2>5, <3>1
    <3>3. CASE n = m + 1
      BY <2>2, <2>5, <3>1, <3>2, <3>3
    <3>4. CASE n # m + 1
      BY <2>1, <2>2, <2>5, <3>1, <3>2, <3>4
    <3>5. QED
      BY <3>3, <3>4
  <2>9. QED
    BY <1>2, <2>6, <2>7, <2>8
<1> HIDE DEF Good
<1>3. 0..N \subseteq Good
  BY <1>1, <1>2, StepByStep
<1>4. N \in Good
  BY <1>3
<1>5. QED
  BY <1>4 DEF Good, Takes

(* Numbers have a smallest one.                                             *)
LEMMA Smallest ==
    ASSUME NEW S, S \subseteq Nat, S # {}
    PROVE  \E m \in S : \A k \in S : m <= k
<1>1. SUFFICES ASSUME \A m \in S : \E k \in S : ~(m <= k) PROVE FALSE
  OBVIOUS
<1>2. PICK N \in S : TRUE
  OBVIOUS
<1> DEFINE Good == {n \in 0..N : \A k \in S : n < k}
<1>3. N \in Nat /\ 0 \in Good
  BY <1>1, <1>2
<1>4. ASSUME NEW n \in 0..N, n + 1 \in 0..N, n \in Good PROVE n + 1 \in Good
  BY <1>1, <1>4
<1> HIDE DEF Good
<1>5. 0..N \subseteq Good
  BY <1>3, <1>4, StepByStep
<1>6. N \in Good
  BY <1>3, <1>5
<1>7. QED
  BY <1>2, <1>6 DEF Good

-----------------------------------------------------------------------------
(* Sums over finite sets.                                                   *)

Pick(s) == CHOOSE y \in s : TRUE
(* The function that SumFunctionOnSet(f, S) recurses on.                    *)
Partial(f, S) ==
    LET iter[s \in SUBSET S] ==
          IF s = {} THEN 0
          ELSE LET x == CHOOSE y \in s : TRUE IN f[x] + iter[s \ {x}]
    IN iter
(* g sums f over the sets of D.                                             *)
SumsUp(g, f, D) ==
    /\ g \in [D -> Nat]
    /\ \A s \in D : g[s] = IF s = {} THEN 0 ELSE f[Pick(s)] + g[s \ {Pick(s)}]
UpTo(S, n) == {s \in SUBSET S : Cardinality(s) <= n}

LEMMA OneFewer ==
    ASSUME NEW S, IsFiniteSet(S), NEW s \in SUBSET S, NEW x \in s
    PROVE  /\ s \ {x} \in SUBSET S /\ Cardinality(s) \in Nat /\ Cardinality(s \ {x}) = Cardinality(s) - 1
           /\ Cardinality(s) >= 1 /\ Cardinality(s \ {x}) \in Nat /\ IsFiniteSet(s)
<1>1. IsFiniteSet(s)
  BY FS_Subset
<1>2. IsFiniteSet(s \ {x}) /\ Cardinality(s \ {x}) = Cardinality(s) - 1
  BY <1>1, FS_RemoveElement
<1>3. QED
  BY <1>1, <1>2, FS_CardinalityType

LEMMA PickIsIn == ASSUME NEW s, s # {} PROVE Pick(s) \in s
  BY DEF Pick

(* Induction over the subsets of a finite set.                              *)
LEMMA OneByOne ==
    ASSUME NEW S, IsFiniteSet(S), NEW Good, {} \in Good,
           \A s \in SUBSET S : s # {} /\ (\A x \in s : s \ {x} \in Good) => s \in Good
    PROVE  SUBSET S \subseteq Good
<1> DEFINE N == Cardinality(S)
           Sizes == {n \in 0..N : UpTo(S, n) \subseteq Good}
<1>1. N \in Nat
  BY FS_CardinalityType
<1>2. ASSUME NEW s \in SUBSET S, s # {} PROVE Cardinality(s) \in Nat /\ Cardinality(s) >= 1
  BY <1>2, PickIsIn, OneFewer
<1>3. 0 \in Sizes
  <2>1. ASSUME NEW s \in UpTo(S, 0) PROVE s = {}
    BY <1>2 DEF UpTo
  <2>2. QED
    BY <1>1, <2>1
<1>4. ASSUME NEW n \in 0..N, n + 1 \in 0..N, n \in Sizes PROVE n + 1 \in Sizes
  <2>1. ASSUME NEW s \in UpTo(S, n + 1) PROVE s \in Good
    <3>1. CASE s = {}
      BY <3>1
    <3>2. CASE s # {}
      <4>1. s \in SUBSET S /\ Cardinality(s) <= n + 1
        BY DEF UpTo
      <4>2. ASSUME NEW x \in s PROVE s \ {x} \in Good
        <5>1. s \ {x} \in SUBSET S /\ Cardinality(s) \in Nat /\ Cardinality(s \ {x}) = Cardinality(s) - 1
          BY <4>1, OneFewer
        <5>2. s \ {x} \in UpTo(S, n)
          BY <4>1, <5>1 DEF UpTo
        <5>3. QED
          BY <1>4, <5>2
      <4>3. QED
        BY <3>2, <4>1, <4>2
    <3>3. QED
      BY <3>1, <3>2
  <2>2. QED
    BY <1>4, <2>1
<1> HIDE DEF Sizes
<1>5. N \in Sizes
  BY <1>1, <1>3, <1>4, StepByStep
<1>6. UpTo(S, N) = SUBSET S
  BY FS_Subset DEF UpTo
<1>7. QED
  BY <1>5, <1>6 DEF Sizes

LEMMA SumsExist ==
    ASSUME NEW S, IsFiniteSet(S), NEW f, \A x \in S : f[x] \in Nat
    PROVE  SumsUp(Partial(f, S), f, SUBSET S)
<1> DEFINE N == Cardinality(S)
           Good == {n \in 0..N : \E g : SumsUp(g, f, UpTo(S, n))}
<1>1. N \in Nat
  BY FS_CardinalityType
<1>2. 0 \in Good
  <2>1. SumsUp([s \in UpTo(S, 0) |-> 0], f, UpTo(S, 0))
    <3>1. \A s \in UpTo(S, 0) : s = {}
      <4>1. SUFFICES ASSUME NEW s \in SUBSET S, Cardinality(s) <= 0, s # {} PROVE FALSE
        BY DEF UpTo
      <4>2. IsFiniteSet(s)
        BY <4>1, FS_Subset
      <4>3. Cardinality(s) \in Nat /\ Cardinality(s) # 0
        BY <4>1, <4>2, FS_CardinalityType, FS_EmptySet
      <4>4. QED
        BY <4>1, <4>3
    <3>2. QED
      BY <3>1 DEF SumsUp
  <2>2. \E g : SumsUp(g, f, UpTo(S, 0))
    BY <2>1
  <2>3. QED
    BY <1>1, <2>2
<1>3. ASSUME NEW n \in 0..N, n + 1 \in 0..N, n \in Good PROVE n + 1 \in Good
  <2>1. PICK g : SumsUp(g, f, UpTo(S, n))
    BY <1>3
  <2> DEFINE D == UpTo(S, n + 1)
             h == [s \in D |-> IF s = {} THEN 0 ELSE f[Pick(s)] + g[s \ {Pick(s)}]]
  <2>2. ASSUME NEW s \in D, s # {}
        PROVE  Pick(s) \in S /\ s \ {Pick(s)} \in UpTo(S, n) /\ s \ {Pick(s)} \in D
    <3>1. s \in SUBSET S /\ Cardinality(s) <= n + 1 /\ Pick(s) \in s
      BY <2>2, PickIsIn DEF UpTo
    <3>2. /\ s \ {Pick(s)} \in SUBSET S /\ Cardinality(s) \in Nat
          /\ Cardinality(s \ {Pick(s)}) = Cardinality(s) - 1
      BY <3>1, OneFewer
    <3>3. Cardinality(s \ {Pick(s)}) <= n /\ Cardinality(s \ {Pick(s)}) <= n + 1
      BY <1>1, <3>1, <3>2
    <3>4. QED
      BY <3>1, <3>2, <3>3 DEF UpTo
  <2>3. h \in [D -> Nat]
    <3>1. ASSUME NEW s \in D PROVE (IF s = {} THEN 0 ELSE f[Pick(s)] + g[s \ {Pick(s)}]) \in Nat
      <4>1. CASE s = {}
        BY <4>1
      <4>2. CASE s # {}
        <5>1. f[Pick(s)] \in Nat /\ g[s \ {Pick(s)}] \in Nat
          BY <2>1, <2>2, <4>2 DEF SumsUp
        <5>2. QED
          BY <4>2, <5>1
      <4>3. QED
        BY <4>1, <4>2
    <3>2. QED
      BY <3>1
  <2>4. \A s \in D : h[s] = IF s = {} THEN 0 ELSE f[Pick(s)] + g[s \ {Pick(s)}]
    OBVIOUS
  <2>5. ASSUME NEW s \in UpTo(S, n) PROVE s \in D /\ h[s] = g[s]
    <3>1. s \in D
      BY <1>1, OneFewer, PickIsIn, FS_Subset, FS_CardinalityType DEF UpTo
    <3>2. QED
      BY <2>1, <2>4, <3>1 DEF SumsUp
  <2> HIDE DEF h
  <2>6. SumsUp(h, f, D)
    <3>1. ASSUME NEW s \in D PROVE h[s] = IF s = {} THEN 0 ELSE f[Pick(s)] + h[s \ {Pick(s)}]
      BY <2>2, <2>4, <2>5
    <3> HIDE DEF D
    <3>2. QED
      BY <2>3, <3>1 DEF SumsUp
  <2> HIDE DEF D
  <2>7. \E k : SumsUp(k, f, UpTo(S, n + 1))
    BY <2>6 DEF D
  <2>8. QED
    BY <1>3, <2>7
<1> HIDE DEF Good
<1>4. N \in Good
  BY <1>1, <1>2, <1>3, StepByStep
<1>5. PICK g : SumsUp(g, f, UpTo(S, N))
  BY <1>4 DEF Good
<1>6. UpTo(S, N) = SUBSET S
  BY FS_Subset DEF UpTo
<1>7. g = [s \in SUBSET S |-> IF s = {} THEN 0 ELSE LET x == CHOOSE y \in s : TRUE IN f[x] + g[s \ {x}]]
  BY <1>5, <1>6 DEF SumsUp, Pick
<1>8. Partial(f, S) = [s \in SUBSET S |-> IF s = {} THEN 0
                                          ELSE LET x == CHOOSE y \in s : TRUE IN f[x] + Partial(f, S)[s \ {x}]]
  BY <1>7, Zenon DEF Partial
<1> DEFINE P == Partial(f, S)
<1>9. \A s \in SUBSET S : P[s] = IF s = {} THEN 0 ELSE f[Pick(s)] + P[s \ {Pick(s)}]
  BY <1>8 DEF Pick
<1> DEFINE Sound == {s \in SUBSET S : P[s] \in Nat}
<1> HIDE DEF P
<1>10. SUBSET S \subseteq Sound
  <2>1. {} \in Sound
    BY <1>9
  <2>2. ASSUME NEW s \in SUBSET S, s # {}, \A x \in s : s \ {x} \in Sound PROVE s \in Sound
    <3>1. Pick(s) \in s
      BY <2>2, PickIsIn
    <3>2. P[s] = f[Pick(s)] + P[s \ {Pick(s)}] /\ f[Pick(s)] \in Nat /\ P[s \ {Pick(s)}] \in Nat
      BY <1>9, <2>2, <3>1
    <3>3. QED
      BY <3>2
  <2> HIDE DEF Sound
  <2>3. QED
    BY <2>1, <2>2, OneByOne
<1>11. P \in [SUBSET S -> Nat]
  <2>1. P = [s \in SUBSET S |-> P[s]]
    BY <1>8 DEF P
  <2>2. QED
    BY <1>10, <2>1
<1>12. QED
  BY <1>9, <1>11 DEF SumsUp, P

LEMMA TotalIs == ASSUME NEW f, NEW S PROVE SumFunctionOnSet(f, S) = Partial(f, S)[S]
  BY DEF SumFunctionOnSet, FoldFunctionOnSet, MapThenFoldSet, Partial

(* A sum depends on the values that are summed and on nothing else.         *)
LEMMA PartsAgree ==
    ASSUME NEW S, IsFiniteSet(S), NEW T \in SUBSET S, NEW f, NEW g,
           \A x \in S : f[x] \in Nat, \A x \in T : g[x] = f[x]
    PROVE  \A s \in SUBSET T : Partial(g, T)[s] = Partial(f, S)[s]
<1> DEFINE P == Partial(f, S)
           Q == Partial(g, T)
           Same == {s \in SUBSET T : Q[s] = P[s]}
<1>1. IsFiniteSet(T) /\ \A x \in T : g[x] \in Nat
  BY FS_Subset
<1>2. \A s \in SUBSET S : P[s] = IF s = {} THEN 0 ELSE f[Pick(s)] + P[s \ {Pick(s)}]
  BY SumsExist DEF SumsUp
<1>3. \A s \in SUBSET T : Q[s] = IF s = {} THEN 0 ELSE g[Pick(s)] + Q[s \ {Pick(s)}]
  BY <1>1, SumsExist DEF SumsUp
<1> HIDE DEF P, Q
<1>4. {} \in Same
  BY <1>2, <1>3
<1>5. ASSUME NEW s \in SUBSET T, s # {}, \A x \in s : s \ {x} \in Same PROVE s \in Same
  <2>1. Pick(s) \in s /\ s \in SUBSET S
    BY <1>5, PickIsIn
  <2>2. Q[s \ {Pick(s)}] = P[s \ {Pick(s)}] /\ g[Pick(s)] = f[Pick(s)]
    BY <1>5, <2>1
  <2>3. QED
    BY <1>2, <1>3, <1>5, <2>1, <2>2
<1> HIDE DEF Same
<1>6. SUBSET T \subseteq Same
  BY <1>1, <1>4, <1>5, OneByOne
<1>7. QED
  BY <1>6 DEF Same, P, Q

LEMMA SumAgrees ==
    ASSUME NEW S, IsFiniteSet(S), NEW f, NEW g, \A x \in S : f[x] \in Nat /\ g[x] = f[x]
    PROVE  SumFunctionOnSet(g, S) = SumFunctionOnSet(f, S) /\ SumFunctionOnSet(f, S) \in Nat
<1>1. Partial(g, S)[S] = Partial(f, S)[S]
  <2>1. S \in SUBSET S /\ (\A x \in S : f[x] \in Nat) /\ \A x \in S : g[x] = f[x]
    OBVIOUS
  <2>2. \A s \in SUBSET S : Partial(g, S)[s] = Partial(f, S)[s]
    BY <2>1, PartsAgree
  <2>3. QED
    BY <2>1, <2>2
<1>2. Partial(f, S)[S] \in Nat
  <2>1. SumsUp(Partial(f, S), f, SUBSET S)
    BY SumsExist
  <2>2. QED
    BY <2>1 DEF SumsUp
<1>3. QED
  BY <1>1, <1>2, TotalIs

(* Whichever element is taken out, its value is what the sum loses.         *)
LEMMA SumTakesOne ==
    ASSUME NEW S, IsFiniteSet(S), NEW f, \A x \in S : f[x] \in Nat, NEW a \in S
    PROVE  SumFunctionOnSet(f, S) = f[a] + SumFunctionOnSet(f, S \ {a})
<1> DEFINE P == Partial(f, S)
           Any == {s \in SUBSET S : \A x \in s : P[s] = f[x] + P[s \ {x}]}
<1>1. /\ \A s \in SUBSET S : P[s] = IF s = {} THEN 0 ELSE f[Pick(s)] + P[s \ {Pick(s)}]
      /\ \A s \in SUBSET S : P[s] \in Nat
  BY SumsExist DEF SumsUp
<1> HIDE DEF P
<1>2. {} \in Any
  OBVIOUS
<1>3. ASSUME NEW s \in SUBSET S, s # {}, \A x \in s : s \ {x} \in Any PROVE s \in Any
  <2>1. SUFFICES ASSUME NEW x \in s PROVE P[s] = f[x] + P[s \ {x}]
    OBVIOUS
  <2> DEFINE c == Pick(s)
  <2>2. c \in s /\ P[s] = f[c] + P[s \ {c}]
    BY <1>1, <1>3, PickIsIn
  <2> HIDE DEF c
  <2>3. CASE x = c
    BY <2>2, <2>3
  <2>4. CASE x # c
    <3>1. x \in s \ {c} /\ c \in s \ {x} /\ (s \ {c}) \ {x} = (s \ {x}) \ {c}
      BY <2>2, <2>4
    <3>2. P[s \ {c}] = f[x] + P[(s \ {c}) \ {x}] /\ P[s \ {x}] = f[c] + P[(s \ {x}) \ {c}]
      BY <1>3, <2>2, <3>1
    <3>3. f[x] \in Nat /\ f[c] \in Nat /\ P[(s \ {c}) \ {x}] \in Nat
      BY <1>1, <2>2
    <3>4. P[s] = f[c] + (f[x] + P[(s \ {c}) \ {x}]) /\ P[s \ {x}] = f[c] + P[(s \ {c}) \ {x}]
      BY <2>2, <3>1, <3>2
    <3> DEFINE r == P[(s \ {c}) \ {x}]
               fx == f[x]
               fc == f[c]
    <3>5. fx \in Nat /\ fc \in Nat /\ r \in Nat /\ P[s] = fc + (fx + r) /\ P[s \ {x}] = fc + r
      BY <3>3, <3>4
    <3> HIDE DEF r, fx, fc
    <3>6. P[s] = fx + P[s \ {x}]
      BY <3>5
    <3>7. QED
      BY <3>6 DEF fx
  <2>5. QED
    BY <2>3, <2>4
<1> HIDE DEF Any
<1>4. SUBSET S \subseteq Any
  BY <1>2, <1>3, OneByOne
<1>5. P[S] = f[a] + P[S \ {a}]
  BY <1>4 DEF Any
<1>6. Partial(f, S \ {a})[S \ {a}] = P[S \ {a}]
  BY PartsAgree DEF P
<1>7. QED
  BY <1>5, <1>6, TotalIs DEF P

LEMMA SumOfNone == ASSUME NEW f PROVE SumFunctionOnSet(f, {}) = 0
<1>1. IsFiniteSet({})
  BY FS_EmptySet
<1>2. Partial(f, {})[{}] = 0
  BY <1>1, SumsExist DEF SumsUp
<1>3. QED
  BY <1>2, TotalIs

(* A sum over a set is the sum over a part of it and the sum over the rest. *)
LEMMA SumSplits ==
    ASSUME NEW S, IsFiniteSet(S), NEW f, \A x \in S : f[x] \in Nat, NEW T \in SUBSET S
    PROVE  SumFunctionOnSet(f, S) = SumFunctionOnSet(f, T) + SumFunctionOnSet(f, S \ T)
<1> DEFINE Sum(s) == SumFunctionOnSet(f, s)
           Good == {t \in SUBSET S : Sum(S) = Sum(t) + Sum(S \ t)}
<1>1. \A s \in SUBSET S : Sum(s) \in Nat /\ \A x \in s : Sum(s) = f[x] + Sum(s \ {x})
  <2>1. ASSUME NEW s \in SUBSET S PROVE Sum(s) \in Nat /\ \A x \in s : Sum(s) = f[x] + Sum(s \ {x})
    <3>1. IsFiniteSet(s) /\ \A x \in s : f[x] \in Nat /\ f[x] = f[x]
      BY FS_Subset
    <3>2. Sum(s) \in Nat
      BY <3>1, SumAgrees
    <3>3. \A x \in s : Sum(s) = f[x] + Sum(s \ {x})
      BY <3>1, SumTakesOne
    <3>4. QED
      BY <3>2, <3>3
  <2>2. QED
    BY <2>1
<1>2. Sum({}) = 0
  BY SumOfNone
<1> HIDE DEF Sum
<1>3. {} \in Good
  <2>1. S \ {} = S /\ {} \in SUBSET S /\ S \in SUBSET S
    OBVIOUS
  <2>2. Sum(S) \in Nat
    BY <1>1, <2>1
  <2>3. QED
    BY <1>2, <2>1, <2>2
<1>4. ASSUME NEW s \in SUBSET S, s # {}, \A x \in s : s \ {x} \in Good PROVE s \in Good
  <2>1. PICK x \in s : TRUE
    BY <1>4
  <2>2. Sum(S) = Sum(s \ {x}) + Sum(S \ (s \ {x}))
    BY <1>4, <2>1
  <2>3. Sum(s) = f[x] + Sum(s \ {x})
    BY <1>1, <2>1
  <2>4. Sum(S \ (s \ {x})) = f[x] + Sum(S \ s)
    <3>1. x \in S \ (s \ {x}) /\ (S \ (s \ {x})) \ {x} = S \ s /\ S \ (s \ {x}) \in SUBSET S
      BY <2>1
    <3>2. QED
      BY <1>1, <3>1
  <2>5. Sum(s) \in Nat /\ Sum(s \ {x}) \in Nat /\ Sum(S \ s) \in Nat /\ f[x] \in Nat
    BY <1>1, <2>1
  <2>6. Sum(S) = Sum(s) + Sum(S \ s)
    BY <2>2, <2>3, <2>4, <2>5
  <2>7. QED
    BY <2>6
<1> HIDE DEF Good
<1>5. SUBSET S \subseteq Good
  BY <1>3, <1>4, OneByOne
<1>6. T \in Good
  BY <1>5
<1>7. QED
  BY <1>6 DEF Good, Sum

(* A value that changes is what the sum changes by.                         *)
LEMMA SumChangesAt ==
    ASSUME NEW S, IsFiniteSet(S), NEW f, NEW g, \A x \in S : f[x] \in Nat /\ g[x] \in Nat,
           NEW a \in S, \A x \in S : x # a => g[x] = f[x]
    PROVE  /\ SumFunctionOnSet(g, S) \in Nat /\ SumFunctionOnSet(f, S) \in Nat
           /\ SumFunctionOnSet(g, S) + f[a] = SumFunctionOnSet(f, S) + g[a]
           /\ SumFunctionOnSet(f, S) >= f[a]
<1> DEFINE F == SumFunctionOnSet(f, S)
           G == SumFunctionOnSet(g, S)
           R == SumFunctionOnSet(f, S \ {a})
<1>1. F = f[a] + R
  BY SumTakesOne
<1>2. G = g[a] + SumFunctionOnSet(g, S \ {a})
  BY SumTakesOne
<1>3. SumFunctionOnSet(g, S \ {a}) = R /\ R \in Nat
  <2>1. IsFiniteSet(S \ {a}) /\ \A x \in S \ {a} : f[x] \in Nat /\ g[x] = f[x]
    BY FS_RemoveElement
  <2>2. QED
    BY <2>1, SumAgrees
<1> HIDE DEF F, G, R
<1>4. f[a] \in Nat /\ g[a] \in Nat
  OBVIOUS
<1>5. F \in Nat /\ G \in Nat /\ G + f[a] = F + g[a] /\ F >= f[a]
  BY <1>1, <1>2, <1>3, <1>4
<1>6. QED
  BY <1>5 DEF F, G

(* The greatest of a set of bounded numbers.                                *)
LEMMA GreatestOf ==
    ASSUME NEW N \in Nat, NEW S, S \subseteq 0..N, S # {}
    PROVE  \E m \in S : \A k \in (m + 1)..N : k \notin S
<1> DEFINE T == {N - x : x \in S}
<1>1. T \subseteq Nat /\ T # {}
  <2>1. \A x \in S : N - x \in Nat
    OBVIOUS
  <2>2. PICK x \in S : TRUE
    OBVIOUS
  <2>3. N - x \in T
    OBVIOUS
  <2>4. QED
    BY <2>1, <2>3
<1>2. PICK t \in T : \A k \in T : t <= k
  BY <1>1, Smallest
<1>3. PICK m \in S : t = N - m
  OBVIOUS
<1>4. ASSUME NEW k \in (m + 1)..N, k \in S PROVE FALSE
  <2>1. N - k \in T /\ m \in 0..N
    BY <1>4
  <2>2. N - m <= N - k
    BY <1>2, <1>3, <2>1
  <2>3. QED
    BY <1>4, <2>1, <2>2
<1>5. QED
  BY <1>4

-----------------------------------------------------------------------------
(* What Remaining keeps.                                                    *)

(* e: where each element of t was among the first n of s.                   *)
KeptAt(e, t, s, n, gone) ==
    /\ e \in [1..Len(t) -> 1..n]
    /\ \A i, j \in 1..Len(t) : i < j => e[i] < e[j]
    /\ \A i \in 1..Len(t) : t[i] = s[e[i]] /\ s[e[i]] \notin gone
    /\ \A k \in 1..n : s[k] \notin gone => \E i \in 1..Len(t) : e[i] = k

LEMMA KeptGrows ==
    ASSUME NEW T, NEW s \in Seq(T), NEW t \in Seq(T), NEW n \in Nat, n + 1 \in 1..Len(s), NEW gone,
           NEW e, KeptAt(e, t, s, n, gone)
    PROVE  /\ s[n + 1] \in gone => \E d : KeptAt(d, t, s, n + 1, gone)
           /\ s[n + 1] \notin gone => \E d : KeptAt(d, Append(t, s[n + 1]), s, n + 1, gone)
<1>1. Len(t) \in Nat /\ s[n + 1] \in T
  OBVIOUS
<1>2. /\ e \in [1..Len(t) -> 1..n]
      /\ \A i, j \in 1..Len(t) : i < j => e[i] < e[j]
      /\ \A i \in 1..Len(t) : t[i] = s[e[i]] /\ s[e[i]] \notin gone
      /\ \A k \in 1..n : s[k] \notin gone => \E i \in 1..Len(t) : e[i] = k
  BY DEF KeptAt
<1>3. \A k \in 1..(n + 1) : k = n + 1 \/ k \in 1..n
  OBVIOUS
<1>4. ASSUME s[n + 1] \in gone PROVE KeptAt(e, t, s, n + 1, gone)
  <2>1. e \in [1..Len(t) -> 1..(n + 1)]
    <3>1. \A i \in 1..Len(t) : e[i] \in 1..(n + 1)
      BY <1>2
    <3>2. QED
      BY <1>2, <3>1
  <2>2. \A k \in 1..(n + 1) : s[k] \notin gone => \E i \in 1..Len(t) : e[i] = k
    BY <1>2, <1>3, <1>4
  <2>3. QED
    BY <1>2, <2>1, <2>2 DEF KeptAt
<1>5. ASSUME s[n + 1] \notin gone
      PROVE  \E d : KeptAt(d, Append(t, s[n + 1]), s, n + 1, gone)
  <2> DEFINE m == Len(t)
             u == Append(t, s[n + 1])
             d == [i \in 1..(m + 1) |-> IF i = m + 1 THEN n + 1 ELSE e[i]]
  <2>1. u \in Seq(T) /\ Len(u) = m + 1 /\ (\A i \in 1..m : u[i] = t[i]) /\ u[m + 1] = s[n + 1]
    BY <1>1
  <2>2. m \in Nat /\ \A i \in 1..(m + 1) : i = m + 1 \/ i \in 1..m
    BY <1>1
  <2>3. d[m + 1] = n + 1 /\ \A i \in 1..m : d[i] = e[i] /\ i # m + 1
    BY <2>2
  <2>4. d \in [1..(m + 1) -> 1..(n + 1)]
    <3>1. \A i \in 1..(m + 1) : (IF i = m + 1 THEN n + 1 ELSE e[i]) \in 1..(n + 1)
      <4>1. n + 1 \in 1..(n + 1) /\ \A i \in 1..m : e[i] \in 1..(n + 1)
        BY <1>2
      <4> HIDE DEF m
      <4>2. QED
        BY <2>2, <4>1
    <3>2. QED
      BY <3>1
  <2> HIDE DEF d, u, m
  <2>5. ASSUME NEW i \in 1..(m + 1), NEW j \in 1..(m + 1), i < j PROVE d[i] < d[j]
    <3>1. i \in 1..m
      BY <2>2, <2>5
    <3>2. d[i] = e[i] /\ e[i] \in 1..n
      BY <1>2, <2>3, <3>1 DEF m
    <3>3. CASE j = m + 1
      BY <2>3, <3>2, <3>3
    <3>4. CASE j \in 1..m
      BY <1>2, <2>3, <2>5, <3>1, <3>2, <3>4 DEF m
    <3>5. QED
      BY <2>2, <3>3, <3>4
  <2>6. ASSUME NEW i \in 1..(m + 1) PROVE u[i] = s[d[i]] /\ s[d[i]] \notin gone
    <3>1. CASE i = m + 1
      BY <1>5, <2>1, <2>3, <3>1
    <3>2. CASE i \in 1..m
      BY <1>2, <2>1, <2>3, <3>2 DEF m
    <3>3. QED
      BY <2>2, <3>1, <3>2
  <2>7. ASSUME NEW k \in 1..(n + 1), s[k] \notin gone PROVE \E i \in 1..(m + 1) : d[i] = k
    <3>1. CASE k = n + 1
      BY <2>2, <2>3, <3>1
    <3>2. CASE k \in 1..n
      <4>1. PICK i \in 1..m : e[i] = k
        BY <1>2, <2>7, <3>2 DEF m
      <4>2. i \in 1..(m + 1) /\ d[i] = k
        BY <2>2, <2>3, <4>1
      <4>3. QED
        BY <4>2
    <3>3. QED
      BY <1>3, <3>1, <3>2
  <2>8. KeptAt(d, u, s, n + 1, gone)
    BY <2>1, <2>4, <2>5, <2>6, <2>7 DEF KeptAt
  <2>9. QED
    BY <2>8 DEF u
<1>6. QED
  BY <1>4, <1>5

(* left[i]: what remains of the first i elements.                           *)
Leaves(left, s, gone) ==
    /\ left[0] = <<>>
    /\ \A i \in 1..Len(s) : left[i] = IF s[i] \in gone THEN left[i - 1] ELSE Append(left[i - 1], s[i])

LEMMA RemainingSteps ==
    ASSUME NEW T, NEW s \in Seq(T), NEW gone
    PROVE  \E left : Leaves(left, s, gone) /\ Remaining(s, gone) = left[Len(s)]
<1> DEFINE N == Len(s)
           next == [n \in 1..N |-> [acc \in Seq(T) |-> IF s[n] \in gone THEN acc ELSE Append(acc, s[n])]]
           Is(f) == f = [i \in 0..N |-> IF i = 0 THEN <<>>
                                        ELSE IF s[i] \in gone THEN f[i - 1] ELSE Append(f[i - 1], s[i])]
           left == CHOOSE f : Is(f)
<1>1. N \in Nat /\ \A n \in 1..N : s[n] \in T
  BY ElementOfSeq
<1>2. <<>> \in Seq(T) /\ next \in [1..N -> [Seq(T) -> Seq(T)]]
  <2>1. \A n \in 1..N : \A acc \in Seq(T) : (IF s[n] \in gone THEN acc ELSE Append(acc, s[n])) \in Seq(T)
    BY <1>1
  <2>2. QED
    BY <2>1
<1>3. \A n \in 1..N : \A acc \in Seq(T) : next[n][acc] = IF s[n] \in gone THEN acc ELSE Append(acc, s[n])
  OBVIOUS
<1> HIDE DEF next
<1>4. PICK f : Takes(f, Seq(T), N, <<>>, next)
  BY <1>1, <1>2, StepsCanBeTaken
<1>5. Is(f)
  <2>1. /\ f \in [0..N -> Seq(T)] /\ f[0] = <<>>
        /\ \A n \in 1..N : f[n] = next[n][f[n - 1]]
    BY <1>4 DEF Takes
  <2>2. ASSUME NEW i \in 0..N
        PROVE  f[i] = IF i = 0 THEN <<>> ELSE IF s[i] \in gone THEN f[i - 1] ELSE Append(f[i - 1], s[i])
    <3>1. CASE i = 0
      BY <2>1, <3>1
    <3>2. CASE i # 0
      <4>1. i \in 1..N /\ i - 1 \in 0..N
        BY <1>1, <3>2
      <4>2. f[i - 1] \in Seq(T)
        BY <2>1, <4>1
      <4>3. QED
        BY <1>3, <2>1, <3>2, <4>1, <4>2
    <3>3. QED
      BY <3>1, <3>2
  <2>3. f = [i \in 0..N |-> f[i]]
    BY <2>1
  <2>4. QED
    BY <2>2, <2>3
<1> HIDE DEF Is
<1>6. Is(left)
  BY <1>5, Zenon
<1>7. /\ left[0] = <<>>
      /\ \A i \in 1..N : left[i] = IF s[i] \in gone THEN left[i - 1] ELSE Append(left[i - 1], s[i])
  <2>1. left = [i \in 0..N |-> IF i = 0 THEN <<>>
                               ELSE IF s[i] \in gone THEN left[i - 1] ELSE Append(left[i - 1], s[i])]
    BY <1>6 DEF Is
  <2> HIDE DEF left
  <2>2. \A i \in 0..N : left[i] = IF i = 0 THEN <<>>
                                  ELSE IF s[i] \in gone THEN left[i - 1] ELSE Append(left[i - 1], s[i])
    BY <2>1
  <2>3. 0 \in 0..N /\ \A i \in 1..N : i \in 0..N /\ i # 0
    BY <1>1
  <2>4. QED
    BY <2>2, <2>3
<1>8. Remaining(s, gone) = left[N]
  BY Zenon DEF Remaining, left, Is
<1> HIDE DEF left
<1>9. QED
  BY <1>7, <1>8 DEF Leaves

(* Removal keeps what is not to go, once each and in order.                 *)
LEMMA RemainingKeeps ==
    ASSUME NEW T, NEW s \in Seq(T), NEW gone
    PROVE  /\ Remaining(s, gone) \in Seq(T)
           /\ \E e : KeptAt(e, Remaining(s, gone), s, Len(s), gone)
<1> DEFINE N == Len(s)
<1>1. N \in Nat /\ (\A n \in 1..N : s[n] \in T) /\ <<>> \in Seq(T)
  BY ElementOfSeq
<1>2. PICK left : Leaves(left, s, gone) /\ Remaining(s, gone) = left[N]
  BY RemainingSteps
<1>3. /\ left[0] = <<>>
      /\ \A i \in 1..N : left[i] = IF s[i] \in gone THEN left[i - 1] ELSE Append(left[i - 1], s[i])
  BY <1>2 DEF Leaves
<1>4. Remaining(s, gone) = left[N]
  BY <1>2
<1> DEFINE Good == {n \in 0..N : left[n] \in Seq(T) /\ \E e : KeptAt(e, left[n], s, n, gone)}
<1>5. 0 \in Good
  <2>1. KeptAt(<<>>, <<>>, s, 0, gone)
    BY DEF KeptAt
  <2>2. \E e : KeptAt(e, left[0], s, 0, gone)
    BY <1>3, <2>1
  <2>3. left[0] \in Seq(T) /\ 0 \in 0..N
    BY <1>1, <1>3
  <2>4. QED
    BY <2>2, <2>3
<1>6. ASSUME NEW n \in 0..N, n + 1 \in 0..N, n \in Good PROVE n + 1 \in Good
  <2>1. left[n] \in Seq(T) /\ n \in Nat /\ n + 1 \in 1..N /\ (n + 1) - 1 = n /\ s[n + 1] \in T
    BY <1>1, <1>6
  <2>2. left[n + 1] = IF s[n + 1] \in gone THEN left[n] ELSE Append(left[n], s[n + 1])
    BY <1>3, <2>1
  <2>3. PICK e : KeptAt(e, left[n], s, n, gone)
    BY <1>6
  <2>4. \E d : KeptAt(d, left[n + 1], s, n + 1, gone)
    BY <2>1, <2>2, <2>3, KeptGrows
  <2>5. left[n + 1] \in Seq(T)
    BY <2>1, <2>2
  <2>6. QED
    BY <1>6, <2>4, <2>5
<1> HIDE DEF Good
<1>7. N \in Good
  <2>1. 0..N \subseteq Good
    BY <1>1, <1>5, <1>6, StepByStep
  <2>2. N \in 0..N
    BY <1>1
  <2>3. QED
    BY <2>1, <2>2
<1>8. QED
  BY <1>4, <1>7 DEF Good

-----------------------------------------------------------------------------
(* Sequences whose elements are apart.                                      *)

AllApart(s) == \A a, b \in 1..Len(s) : s[a] = s[b] => a = b

LEMMA ElementsOf ==
    ASSUME NEW T, NEW s \in Seq(T)
    PROVE  /\ Len(s) \in Nat /\ DOMAIN s = 1..Len(s)
           /\ \A x \in Range(s) : \E i \in 1..Len(s) : x = s[i]
           /\ \A i \in 1..Len(s) : s[i] \in Range(s) /\ s[i] \in T
<1>1. Len(s) \in Nat /\ DOMAIN s = 1..Len(s)
  OBVIOUS
<1>2. \A i \in 1..Len(s) : s[i] \in T
  BY ElementOfSeq
<1>3. (\A x \in Range(s) : \E i \in 1..Len(s) : x = s[i]) /\ \A i \in 1..Len(s) : s[i] \in Range(s)
  BY <1>1 DEF Range
<1>4. QED
  BY <1>1, <1>2, <1>3, Zenon

LEMMA ElementsAreOf == ASSUME NEW T, NEW s \in Seq(T) PROVE Range(s) \subseteq T
<1>1. ASSUME NEW x \in Range(s) PROVE x \in T
  <2>1. PICK i \in 1..Len(s) : x = s[i]
    BY ElementsOf
  <2>2. QED
    BY <2>1, ElementsOf
<1>2. QED
  BY <1>1

(* An element is put at the end, at the front, or in the place of another.  *)
LEMMA ApartWithLast ==
    ASSUME NEW T, NEW s \in Seq(T), AllApart(s), NEW x \in T, x \notin Range(s)
    PROVE  /\ Append(s, x) \in Seq(T) /\ Len(Append(s, x)) = Len(s) + 1
           /\ AllApart(Append(s, x)) /\ Range(Append(s, x)) = Range(s) \cup {x}
<1> DEFINE n == Len(s)
           t == Append(s, x)
<1>1. /\ n \in Nat /\ (\A y \in Range(s) : \E i \in 1..n : y = s[i]) /\ \A i \in 1..n : s[i] \in Range(s)
  BY ElementsOf
<1>2. t \in Seq(T) /\ Len(t) = n + 1 /\ t[n + 1] = x /\ \A i \in 1..n : t[i] = s[i]
  OBVIOUS
<1>3. \A a, b \in 1..n : s[a] = s[b] => a = b
  BY DEF AllApart
<1>4. (\A y \in Range(t) : \E i \in 1..(n + 1) : y = t[i]) /\ \A i \in 1..(n + 1) : t[i] \in Range(t)
  BY <1>2, ElementsOf
<1> HIDE DEF n, t
<1>5. n + 1 \in 1..(n + 1) /\ \A i \in 1..(n + 1) : i = n + 1 \/ i \in 1..n
  BY <1>1
<1>6. \A i \in 1..n : i \in 1..(n + 1)
  BY <1>1
<1>7. AllApart(t)
  <2>1. ASSUME NEW a \in 1..(n + 1), NEW b \in 1..(n + 1), t[a] = t[b] PROVE a = b
    BY <1>1, <1>2, <1>3, <1>5, <2>1
  <2>2. QED
    BY <1>2, <2>1 DEF AllApart
<1>8. Range(t) = Range(s) \cup {x}
  <2>1. ASSUME NEW y \in Range(t) PROVE y \in Range(s) \cup {x}
    <3>1. PICK i \in 1..(n + 1) : y = t[i]
      BY <1>4, <2>1
    <3>2. QED
      BY <1>1, <1>2, <1>5, <3>1
  <2>2. ASSUME NEW y \in Range(s) \cup {x} PROVE y \in Range(t)
    <3>1. CASE y = x
      BY <1>2, <1>4, <1>5, <3>1
    <3>2. CASE y \in Range(s)
      <4>1. PICK i \in 1..n : y = s[i]
        BY <1>1, <3>2
      <4>2. i \in 1..(n + 1) /\ t[i] = y
        BY <1>2, <1>6, <4>1
      <4>3. QED
        BY <1>4, <4>2
    <3>3. QED
      BY <2>2, <3>1, <3>2
  <2>3. QED
    BY <2>1, <2>2
<1>9. QED
  BY <1>2, <1>7, <1>8 DEF n, t

LEMMA ApartWithFirst ==
    ASSUME NEW T, NEW s \in Seq(T), AllApart(s), NEW x \in T, x \notin Range(s)
    PROVE  /\ <<x>> \o s \in Seq(T) /\ Len(<<x>> \o s) = Len(s) + 1
           /\ AllApart(<<x>> \o s) /\ Range(<<x>> \o s) = Range(s) \cup {x}
<1> DEFINE n == Len(s)
           t == <<x>> \o s
<1>1. /\ n \in Nat /\ (\A y \in Range(s) : \E i \in 1..n : y = s[i]) /\ \A i \in 1..n : s[i] \in Range(s)
  BY ElementsOf
<1>2. t \in Seq(T) /\ Len(t) = n + 1 /\ t[1] = x /\ \A i \in 2..(n + 1) : t[i] = s[i - 1]
  OBVIOUS
<1>3. \A a, b \in 1..n : s[a] = s[b] => a = b
  BY DEF AllApart
<1>4. (\A y \in Range(t) : \E i \in 1..(n + 1) : y = t[i]) /\ \A i \in 1..(n + 1) : t[i] \in Range(t)
  BY <1>2, ElementsOf
<1> HIDE DEF n, t
<1>5. 1 \in 1..(n + 1) /\ \A i \in 1..(n + 1) : i = 1 \/ (i \in 2..(n + 1) /\ i - 1 \in 1..n)
  BY <1>1
<1>6. \A i \in 1..n : i + 1 \in 1..(n + 1) /\ i + 1 \in 2..(n + 1) /\ (i + 1) - 1 = i
  BY <1>1
<1>7. AllApart(t)
  <2>1. ASSUME NEW a \in 1..(n + 1), NEW b \in 1..(n + 1), t[a] = t[b] PROVE a = b
    <3>1. a \in Nat /\ b \in Nat
      BY <1>1
    <3>2. CASE a = 1 \/ b = 1
      <4>1. ASSUME NEW i \in 1..(n + 1), i # 1 PROVE t[i] # x
        BY <1>1, <1>2, <1>5, <4>1
      <4>2. QED
        BY <1>2, <2>1, <3>2, <4>1
    <3>3. CASE a # 1 /\ b # 1
      <4>1. a - 1 \in 1..n /\ b - 1 \in 1..n /\ s[a - 1] = s[b - 1]
        BY <1>2, <1>5, <2>1, <3>3
      <4>2. a - 1 = b - 1
        BY <1>3, <4>1
      <4>3. QED
        BY <3>1, <4>2
    <3>4. QED
      BY <3>2, <3>3
  <2>2. QED
    BY <1>2, <2>1 DEF AllApart
<1>8. Range(t) = Range(s) \cup {x}
  <2>1. \A i \in 1..(n + 1) : t[i] \in Range(s) \cup {x}
    BY <1>1, <1>2, <1>5
  <2>2. \A i \in 1..n : s[i] = t[i + 1] /\ i + 1 \in 1..(n + 1)
    BY <1>2, <1>6
  <2>3. Range(s) \subseteq Range(t)
    BY <1>1, <1>4, <2>2
  <2>4. x \in Range(t)
    BY <1>2, <1>4, <1>5
  <2>5. QED
    BY <1>4, <2>1, <2>3, <2>4
<1>9. QED
  BY <1>2, <1>7, <1>8 DEF n, t

Another(s, k, x) == [s EXCEPT ![k] = x]

LEMMA ApartWithAnother ==
    ASSUME NEW T, NEW s \in Seq(T), AllApart(s), NEW k \in 1..Len(s), NEW x \in T,
           \A y \in Range(s) : y # s[k] => y # x
    PROVE  /\ Another(s, k, x) \in Seq(T) /\ Len(Another(s, k, x)) = Len(s)
           /\ AllApart(Another(s, k, x)) /\ Range(Another(s, k, x)) = (Range(s) \ {s[k]}) \cup {x}
<1> DEFINE n == Len(s)
           t == Another(s, k, x)
<1>1. /\ n \in Nat /\ (\A y \in Range(s) : \E i \in 1..n : y = s[i]) /\ \A i \in 1..n : s[i] \in Range(s)
  BY ElementsOf
<1>2. t \in Seq(T) /\ Len(t) = n /\ t[k] = x /\ \A i \in 1..n : i # k => t[i] = s[i]
  BY ExceptSeq DEF Another
<1>3. \A a, b \in 1..n : s[a] = s[b] => a = b
  BY DEF AllApart
<1>5. k \in 1..n
  OBVIOUS
<1> HIDE DEF n, t
<1>4. (\A y \in Range(t) : \E i \in 1..n : y = t[i]) /\ \A i \in 1..n : t[i] \in Range(t)
  BY <1>2, ElementsOf
<1>6. AllApart(t)
  <2>1. ASSUME NEW a \in 1..n, NEW b \in 1..n, t[a] = t[b] PROVE a = b
    <3>1. \A i \in 1..n : i # k => t[i] # x
      BY <1>1, <1>2, <1>3, <1>5
    <3>2. QED
      BY <1>2, <1>3, <2>1, <3>1
  <2>2. QED
    BY <1>2, <2>1 DEF AllApart
<1>7. Range(t) = (Range(s) \ {s[k]}) \cup {x}
  <2>1. ASSUME NEW y \in Range(t) PROVE y \in (Range(s) \ {s[k]}) \cup {x}
    <3>1. PICK i \in 1..n : y = t[i]
      BY <1>4, <2>1
    <3>2. i # k => t[i] = s[i] /\ s[i] # s[k] /\ s[i] \in Range(s)
      BY <1>1, <1>2, <1>3, <1>5
    <3>3. QED
      BY <1>2, <3>1, <3>2
  <2>2. ASSUME NEW y \in (Range(s) \ {s[k]}) \cup {x} PROVE y \in Range(t)
    <3>1. CASE y = x
      BY <1>2, <1>4, <1>5, <3>1
    <3>2. CASE y \in Range(s) /\ y # s[k]
      <4>1. PICK i \in 1..n : y = s[i]
        BY <1>1, <3>2
      <4>2. i # k /\ t[i] = y
        BY <1>2, <3>2, <4>1
      <4>3. QED
        BY <1>4, <4>1, <4>2
    <3>3. QED
      BY <2>2, <3>1, <3>2
  <2>3. QED
    BY <2>1, <2>2
<1>8. QED
  BY <1>2, <1>6, <1>7 DEF n, t

(* The first goes, or the one at k, or all of a set.                        *)
LEMMA ApartFromFirst ==
    ASSUME NEW T, NEW s \in Seq(T), AllApart(s), s # <<>>
    PROVE  /\ Tail(s) \in Seq(T) /\ Len(Tail(s)) = Len(s) - 1 /\ AllApart(Tail(s))
           /\ Head(s) \in Range(s) /\ Head(s) \in T /\ Range(Tail(s)) = Range(s) \ {Head(s)}
<1> DEFINE n == Len(s)
           t == Tail(s)
<1>1. /\ n \in Nat /\ (\A y \in Range(s) : \E i \in 1..n : y = s[i]) /\ \A i \in 1..n : s[i] \in Range(s) /\ s[i] \in T
  BY ElementsOf
<1>2. /\ n > 0 /\ t \in Seq(T) /\ Len(t) = n - 1 /\ Head(s) = s[1]
      /\ \A i \in 1..(n - 1) : t[i] = s[i + 1]
  OBVIOUS
<1>3. \A a, b \in 1..n : s[a] = s[b] => a = b
  BY DEF AllApart
<1> HIDE DEF n, t
<1>4. (\A y \in Range(t) : \E i \in 1..(n - 1) : y = t[i]) /\ \A i \in 1..(n - 1) : t[i] \in Range(t)
  BY <1>2, ElementsOf
<1>5. 1 \in 1..n /\ \A i \in 1..(n - 1) : i + 1 \in 1..n /\ i + 1 # 1
  BY <1>1, <1>2
<1>6. \A i \in 1..n : i # 1 => i - 1 \in 1..(n - 1) /\ (i - 1) + 1 = i
  BY <1>1, <1>2
<1>7. AllApart(t)
  <2>1. ASSUME NEW a \in 1..(n - 1), NEW b \in 1..(n - 1), t[a] = t[b] PROVE a = b
    <3>1. a + 1 = b + 1
      BY <1>2, <1>3, <1>5, <2>1
    <3>2. a \in Nat /\ b \in Nat
      BY <1>1
    <3>3. QED
      BY <3>1, <3>2
  <2>2. QED
    BY <1>2, <2>1 DEF AllApart
<1>8. Range(t) = Range(s) \ {s[1]}
  <2>1. \A i \in 1..(n - 1) : t[i] \in Range(s) \ {s[1]}
    <3>1. ASSUME NEW i \in 1..(n - 1) PROVE t[i] \in Range(s) \ {s[1]}
      <4>1. t[i] = s[i + 1] /\ i + 1 \in 1..n /\ i + 1 # 1 /\ 1 \in 1..n
        BY <1>2, <1>5
      <4>2. s[i + 1] # s[1] /\ s[i + 1] \in Range(s)
        BY <1>1, <1>3, <4>1
      <4>3. QED
        BY <4>1, <4>2
    <3>2. QED
      BY <3>1
  <2>2. \A i \in 1..n : i # 1 => t[i - 1] = s[i] /\ i - 1 \in 1..(n - 1)
    BY <1>2, <1>6
  <2>3. QED
    BY <1>1, <1>4, <2>1, <2>2
<1>9. QED
  BY <1>1, <1>2, <1>5, <1>7, <1>8 DEF n, t

FromOne(s, k) == SubSeq(s, 1, k - 1) \o SubSeq(s, k + 1, Len(s))

LEMMA ApartFromOne ==
    ASSUME NEW T, NEW s \in Seq(T), AllApart(s), NEW k \in 1..Len(s)
    PROVE  /\ FromOne(s, k) \in Seq(T) /\ Len(FromOne(s, k)) = Len(s) - 1 /\ AllApart(FromOne(s, k))
           /\ s[k] \in Range(s) /\ s[k] \in T /\ Range(FromOne(s, k)) = Range(s) \ {s[k]}
<1> DEFINE t == FromOne(s, k)
           n == Len(s)
           At(i) == IF i < k THEN i ELSE i + 1
<1>1. /\ n \in Nat /\ (\A y \in Range(s) : \E i \in 1..n : y = s[i]) /\ \A i \in 1..n : s[i] \in Range(s) /\ s[i] \in T
  BY ElementsOf
<1>2. /\ t \in Seq(T) /\ Len(t) = n - 1 /\ \A i \in 1..(n - 1) : t[i] = s[At(i)]
  <2> DEFINE u == SubSeq(s, 1, k - 1)
             v == SubSeq(s, k + 1, n)
  <2>1. u \in Seq(T) /\ Len(u) = k - 1 /\ \A i \in 1..(k - 1) : u[i] = s[i]
    BY <1>1
  <2>2. v \in Seq(T) /\ Len(v) = n - k /\ \A i \in 1..(n - k) : v[i] = s[i + k]
    BY <1>1
  <2>3. t = u \o v /\ k \in 1..n
    BY DEF FromOne
  <2> HIDE DEF u, v, n, t
  <2>8. k \in Nat /\ k >= 1 /\ k <= n /\ n \in Nat /\ Len(u) \in Nat /\ Len(v) \in Nat
    BY <1>1, <2>1, <2>2, <2>3
  <2>9. /\ t \in Seq(T) /\ Len(t) = Len(u) + Len(v)
        /\ \A i \in 1..(Len(u) + Len(v)) : t[i] = IF i <= Len(u) THEN u[i] ELSE v[i - Len(u)]
    <3>1. u \in Seq(T) /\ v \in Seq(T) /\ t = u \o v
      BY <2>1, <2>2, <2>3
    <3>2. QED
      BY <3>1, ConcatProperties
  <2>4. /\ t \in Seq(T) /\ Len(t) = Len(u) + Len(v)
        /\ \A i \in 1..Len(u) : t[i] = u[i]
        /\ \A i \in (Len(u) + 1)..(Len(u) + Len(v)) : t[i] = v[i - Len(u)]
    <3>1. \A i \in 1..Len(u) : i \in 1..(Len(u) + Len(v)) /\ i <= Len(u)
      BY <2>8
    <3>2. \A i \in (Len(u) + 1)..(Len(u) + Len(v)) : i \in 1..(Len(u) + Len(v)) /\ ~(i <= Len(u))
      BY <2>8
    <3>3. QED
      BY <2>9, <3>1, <3>2
  <2>7. k \in Nat /\ n \in Nat /\ Len(t) = n - 1
    <3>1. Len(t) = Len(u) + Len(v) /\ Len(u) = k - 1 /\ Len(v) = n - k
      BY <2>1, <2>2, <2>9
    <3>2. (k - 1) + (n - k) = n - 1
      BY <2>8
    <3>3. QED
      BY <2>8, <3>1, <3>2, Zenon
  <2>5. ASSUME NEW i \in 1..(n - 1) PROVE t[i] = s[At(i)]
    <3>1. CASE i < k
      <4>1. i \in 1..(k - 1)
        BY <2>3, <2>7, <3>1
      <4>2. QED
        BY <2>1, <2>4, <3>1, <4>1
    <3>2. CASE ~(i < k)
      <4>1. i \in Nat /\ k \in Nat /\ i - (k - 1) \in 1..(n - k) /\ (i - (k - 1)) + k = i + 1
        BY <1>1, <2>3, <3>2
      <4>2. t[i] = v[i - (k - 1)]
        <5>1. i \in (Len(u) + 1)..(Len(u) + Len(v))
          BY <2>1, <2>2, <2>3, <2>7, <3>2
        <5>2. t[i] = v[i - Len(u)]
          BY <2>4, <5>1
        <5>3. QED
          BY <2>1, <5>2
      <4>3. QED
        BY <2>2, <3>2, <4>1, <4>2
    <3>3. QED
      BY <3>1, <3>2
  <2>6. QED
    BY <2>4, <2>5, <2>7
<1>3. \A a, b \in 1..n : s[a] = s[b] => a = b
  BY DEF AllApart
<1>5. k \in 1..n
  OBVIOUS
<1> HIDE DEF n, t
<1>4. (\A y \in Range(t) : \E i \in 1..(n - 1) : y = t[i]) /\ \A i \in 1..(n - 1) : t[i] \in Range(t)
  BY <1>2, ElementsOf
<1>6. \A i \in 1..(n - 1) : At(i) \in 1..n /\ At(i) # k
  BY <1>1, <1>5
<1>7. \A a, b \in 1..(n - 1) : At(a) = At(b) => a = b
  BY <1>1, <1>5
<1>8. \A i \in 1..n : i # k => \E j \in 1..(n - 1) : At(j) = i
  <2>1. ASSUME NEW i \in 1..n, i # k PROVE \E j \in 1..(n - 1) : At(j) = i
    <3>1. CASE i < k
      <4>1. i \in 1..(n - 1) /\ At(i) = i
        BY <1>1, <1>5, <3>1
      <4>2. QED
        BY <4>1
    <3>2. CASE i > k
      <4>1. i - 1 \in 1..(n - 1) /\ At(i - 1) = i
        BY <1>1, <1>5, <3>2
      <4>2. QED
        BY <4>1
    <3>3. QED
      BY <1>1, <1>5, <2>1, <3>1, <3>2
  <2>2. QED
    BY <2>1
<1> HIDE DEF At
<1>9. AllApart(t)
  <2>1. ASSUME NEW a \in 1..(n - 1), NEW b \in 1..(n - 1), t[a] = t[b] PROVE a = b
    <3>1. s[At(a)] = s[At(b)] /\ At(a) \in 1..n /\ At(b) \in 1..n
      BY <1>2, <1>6, <2>1
    <3>2. At(a) = At(b)
      BY <1>3, <3>1
    <3>3. QED
      BY <1>7, <3>2
  <2>2. QED
    BY <1>2, <2>1 DEF AllApart
<1>10. Range(t) = Range(s) \ {s[k]}
  <2>1. ASSUME NEW i \in 1..(n - 1) PROVE t[i] \in Range(s) \ {s[k]}
    <3>1. t[i] = s[At(i)] /\ At(i) \in 1..n /\ At(i) # k
      BY <1>2, <1>6
    <3>2. s[At(i)] # s[k] /\ s[At(i)] \in Range(s)
      BY <1>1, <1>3, <1>5, <3>1
    <3>3. QED
      BY <3>1, <3>2
  <2>2. ASSUME NEW y \in Range(s) \ {s[k]} PROVE y \in Range(t)
    <3>1. PICK i \in 1..n : y = s[i]
      BY <1>1
    <3>2. PICK j \in 1..(n - 1) : At(j) = i
      BY <1>8, <2>2, <3>1
    <3>3. QED
      BY <1>2, <1>4, <3>1, <3>2
  <2>3. Range(t) \subseteq Range(s) \ {s[k]}
    BY <1>4, <2>1
  <2>4. QED
    BY <2>2, <2>3
<1>11. QED
  BY <1>1, <1>2, <1>5, <1>9, <1>10 DEF n, t

LEMMA ApartFromSome ==
    ASSUME NEW T, NEW s \in Seq(T), NEW gone
    PROVE  /\ Remaining(s, gone) \in Seq(T) /\ Range(Remaining(s, gone)) = Range(s) \ gone
           /\ AllApart(s) => AllApart(Remaining(s, gone))
<1> DEFINE t == Remaining(s, gone)
           n == Len(s)
           m == Len(t)
<1>1. t \in Seq(T) /\ \E e : KeptAt(e, t, s, n, gone)
  BY RemainingKeeps
<1>2. PICK e : KeptAt(e, t, s, n, gone)
  BY <1>1
<1>3. /\ e \in [1..m -> 1..n]
      /\ \A i, j \in 1..m : i < j => e[i] < e[j]
      /\ \A i \in 1..m : t[i] = s[e[i]] /\ s[e[i]] \notin gone
      /\ \A k \in 1..n : s[k] \notin gone => \E i \in 1..m : e[i] = k
  BY <1>2 DEF KeptAt
<1>4. n \in Nat /\ (\A y \in Range(s) : \E i \in 1..n : y = s[i]) /\ \A i \in 1..n : s[i] \in Range(s)
  BY ElementsOf
<1>5. m \in Nat /\ (\A y \in Range(t) : \E i \in 1..m : y = t[i]) /\ \A i \in 1..m : t[i] \in Range(t)
  BY <1>1, ElementsOf
<1> HIDE DEF m, n, t
<1>6. Range(t) = Range(s) \ gone
  <2>1. ASSUME NEW i \in 1..m PROVE t[i] \in Range(s) \ gone
    <3>1. e[i] \in 1..n /\ t[i] = s[e[i]] /\ s[e[i]] \notin gone
      BY <1>3
    <3>2. QED
      BY <1>4, <3>1
  <2>2. ASSUME NEW y \in Range(s) \ gone PROVE y \in Range(t)
    <3>1. PICK k \in 1..n : y = s[k]
      BY <1>4
    <3>2. PICK i \in 1..m : e[i] = k
      BY <1>3, <2>2, <3>1
    <3>3. QED
      BY <1>3, <1>5, <3>1, <3>2
  <2>3. Range(t) \subseteq Range(s) \ gone
    BY <1>5, <2>1
  <2>4. QED
    BY <2>2, <2>3
<1>7. ASSUME AllApart(s) PROVE AllApart(t)
  <2>1. \A a, b \in 1..n : s[a] = s[b] => a = b
    BY <1>7 DEF AllApart, n
  <2>2. ASSUME NEW a \in 1..m, NEW b \in 1..m, t[a] = t[b] PROVE a = b
    <3>1. e[a] = e[b] /\ e[a] \in 1..n
      BY <1>3, <2>1, <2>2
    <3>2. a \in Nat /\ b \in Nat /\ e[a] \in Nat
      BY <1>4, <1>5, <3>1
    <3>3. ~(a < b) /\ ~(b < a)
      BY <1>3, <3>1, <3>2
    <3>4. QED
      BY <3>2, <3>3
  <2>3. QED
    BY <2>2 DEF AllApart, m
<1>8. QED
  BY <1>1, <1>6, <1>7 DEF t

-----------------------------------------------------------------------------
(* What a filter leaves, and sequences cut and joined.                      *)

LEMMA ApartTogether ==
    ASSUME NEW T, NEW s \in Seq(T), NEW t \in Seq(T), AllApart(s), AllApart(t),
           \A x \in Range(s) : x \notin Range(t)
    PROVE  /\ s \o t \in Seq(T) /\ Len(s \o t) = Len(s) + Len(t)
           /\ AllApart(s \o t) /\ Range(s \o t) = Range(s) \cup Range(t)
<1> DEFINE m == Len(s)
           n == Len(t)
           u == s \o t
<1>1. /\ m \in Nat /\ (\A y \in Range(s) : \E i \in 1..m : y = s[i])
      /\ \A i \in 1..m : s[i] \in Range(s)
  BY ElementsOf
<1>2. /\ n \in Nat /\ (\A y \in Range(t) : \E i \in 1..n : y = t[i])
      /\ \A i \in 1..n : t[i] \in Range(t)
  BY ElementsOf
<1>3. u \in Seq(T) /\ Len(u) = m + n /\ \A i \in 1..(m + n) : u[i] = IF i <= m THEN s[i] ELSE t[i - m]
  BY ConcatProperties
<1>4. (\A y \in Range(u) : \E i \in 1..(m + n) : y = u[i]) /\ \A i \in 1..(m + n) : u[i] \in Range(u)
  <2> HIDE DEF u
  <2>1. /\ \A y \in Range(u) : \E i \in 1..Len(u) : y = u[i]
        /\ \A i \in 1..Len(u) : u[i] \in Range(u)
    BY <1>3, ElementsOf
  <2>2. QED
    BY <1>3, <2>1
<1>5. \A a, b \in 1..m : s[a] = s[b] => a = b
  BY DEF AllApart
<1>6. \A a, b \in 1..n : t[a] = t[b] => a = b
  BY DEF AllApart
<1> HIDE DEF m, n, u
<1>7. /\ \A i \in 1..m : i \in 1..(m + n) /\ u[i] = s[i]
      /\ \A i \in 1..n : i + m \in 1..(m + n) /\ u[i + m] = t[i]
  <2>1. \A i \in 1..m : i \in 1..(m + n) /\ i <= m
    BY <1>1, <1>2
  <2>2. \A i \in 1..n : i + m \in 1..(m + n) /\ ~(i + m <= m) /\ (i + m) - m = i
    BY <1>1, <1>2
  <2>3. QED
    BY <1>3, <2>1, <2>2
<1>8. \A i \in 1..(m + n) : i \in 1..m \/ \E j \in 1..n : i = j + m
  <2>1. \A i \in 1..(m + n) : i \notin 1..m => i - m \in 1..n /\ i = (i - m) + m
    BY <1>1, <1>2
  <2>2. QED
    BY <2>1
<1>9. ASSUME NEW a \in 1..(m + n), NEW b \in 1..(m + n), u[a] = u[b] PROVE a = b
  <2>1. CASE a \in 1..m /\ b \in 1..m
    BY <1>5, <1>7, <1>9, <2>1
  <2>2. ASSUME NEW i \in 1..n, NEW j \in 1..n, a = i + m, b = j + m PROVE a = b
    <3>1. t[i] = t[j]
      BY <1>7, <1>9, <2>2
    <3>2. QED
      BY <1>6, <2>2, <3>1
  <2>3. ASSUME a \in 1..m, NEW j \in 1..n, b = j + m PROVE FALSE
    <3>1. s[a] = t[j]
      BY <1>7, <1>9, <2>3
    <3>2. QED
      BY <1>1, <1>2, <2>3, <3>1
  <2>4. ASSUME b \in 1..m, NEW j \in 1..n, a = j + m PROVE FALSE
    <3>1. s[b] = t[j]
      BY <1>7, <1>9, <2>4
    <3>2. QED
      BY <1>1, <1>2, <2>4, <3>1
  <2>5. QED
    BY <1>8, <2>1, <2>2, <2>3, <2>4
<1>10. AllApart(u)
  BY <1>3, <1>9 DEF AllApart
<1>11. Range(u) = Range(s) \cup Range(t)
  <2>1. \A y \in Range(u) : y \in Range(s) \cup Range(t)
    <3>1. ASSUME NEW i \in 1..(m + n) PROVE u[i] \in Range(s) \cup Range(t)
      <4>1. CASE i \in 1..m
        BY <1>1, <1>7, <4>1
      <4>2. ASSUME NEW j \in 1..n, i = j + m PROVE u[i] \in Range(t)
        BY <1>2, <1>7, <4>2
      <4>3. QED
        BY <1>8, <4>1, <4>2
    <3>2. QED
      BY <1>4, <3>1
  <2>2. \A y \in Range(s) : y \in Range(u)
    BY <1>1, <1>4, <1>7
  <2>3. \A y \in Range(t) : y \in Range(u)
    <3>1. ASSUME NEW i \in 1..n PROVE t[i] \in Range(u)
      BY <1>4, <1>7
    <3>2. QED
      BY <1>2, <3>1
  <2>4. QED
    BY <2>1, <2>2, <2>3
<1>12. QED
  BY <1>3, <1>10, <1>11 DEF m, n, u

(* As long as nothing goes, what remains is the front of the sequence.      *)
LEMMA RemainingFronts ==
    ASSUME NEW T, NEW s \in Seq(T), NEW gone, NEW k \in 0..Len(s),
           \A i \in 1..k : s[i] \notin gone, NEW left, Leaves(left, s, gone)
    PROVE  left[k] = SubSeq(s, 1, k)
<1> DEFINE Good == {n \in 0..k : left[n] = SubSeq(s, 1, n)}
<1>1. Len(s) \in Nat /\ k \in Nat /\ k <= Len(s)
  OBVIOUS
<1>2. 0 \in Good
  <2>1. left[0] = <<>> /\ 0 \in 0..k
    BY <1>1 DEF Leaves
  <2>2. SubSeq(s, 1, 0) = <<>>
    BY <1>1
  <2>3. QED
    BY <2>1, <2>2
<1>3. ASSUME NEW n \in 0..k, n + 1 \in 0..k, n \in Good PROVE n + 1 \in Good
  <2>1. n + 1 \in 1..Len(s) /\ n + 1 \in 1..k /\ (n + 1) - 1 = n /\ n \in Nat
    BY <1>1, <1>3
  <2>2. left[n + 1] = Append(SubSeq(s, 1, n), s[n + 1])
    BY <1>3, <2>1 DEF Leaves
  <2>3. Append(SubSeq(s, 1, n), s[n + 1]) = SubSeq(s, 1, n + 1)
    <3> DEFINE a == Append(SubSeq(s, 1, n), s[n + 1])
               b == SubSeq(s, 1, n + 1)
    <3>1. /\ SubSeq(s, 1, n) \in Seq(T) /\ Len(SubSeq(s, 1, n)) = n
          /\ \A i \in 1..n : SubSeq(s, 1, n)[i] = s[i]
      BY <2>1
    <3>2. s[n + 1] \in T
      BY <2>1, ElementOfSeq
    <3>3. /\ a \in Seq(T) /\ Len(a) = n + 1 /\ a[n + 1] = s[n + 1]
          /\ \A i \in 1..n : a[i] = SubSeq(s, 1, n)[i]
      BY <3>1, <3>2
    <3>4. b \in Seq(T) /\ Len(b) = n + 1 /\ \A i \in 1..(n + 1) : b[i] = s[i]
      BY <2>1
    <3> HIDE DEF a, b
    <3>5. ASSUME NEW i \in 1..(n + 1) PROVE a[i] = b[i]
      <4>1. i = n + 1 \/ i \in 1..n
        BY <2>1
      <4>2. QED
        BY <3>1, <3>3, <3>4, <4>1
    <3>6. a = b
      BY <3>3, <3>4, <3>5, SeqEqual
    <3>7. QED
      BY <3>6 DEF a, b
  <2>4. QED
    BY <1>3, <2>2, <2>3
<1> HIDE DEF Good
<1>4. 0..k \subseteq Good
  BY <1>1, <1>2, <1>3, StepByStep
<1>5. QED
  BY <1>1, <1>4 DEF Good

LEMMA RemainingAll ==
    ASSUME NEW T, NEW s \in Seq(T), NEW gone, \A x \in Range(s) : x \notin gone
    PROVE  Remaining(s, gone) = s
<1>1. PICK left : Leaves(left, s, gone) /\ Remaining(s, gone) = left[Len(s)]
  BY RemainingSteps
<1>2. Len(s) \in 0..Len(s) /\ \A i \in 1..Len(s) : s[i] \notin gone
  BY ElementsOf
<1>3. left[Len(s)] = SubSeq(s, 1, Len(s))
  BY <1>1, <1>2, RemainingFronts
<1>4. SubSeq(s, 1, Len(s)) = s
  OBVIOUS
<1>5. QED
  BY <1>1, <1>3, <1>4

LEMMA RemainingButLast ==
    ASSUME NEW T, NEW s \in Seq(T), NEW gone, s # <<>>, s[Len(s)] \in gone,
           \A i \in 1..(Len(s) - 1) : s[i] \notin gone
    PROVE  Remaining(s, gone) = SubSeq(s, 1, Len(s) - 1)
<1>1. PICK left : Leaves(left, s, gone) /\ Remaining(s, gone) = left[Len(s)]
  BY RemainingSteps
<1>2. Len(s) \in 1..Len(s) /\ Len(s) - 1 \in 0..Len(s)
  OBVIOUS
<1>3. left[Len(s)] = left[Len(s) - 1]
  BY <1>1, <1>2 DEF Leaves
<1>4. left[Len(s) - 1] = SubSeq(s, 1, Len(s) - 1)
  BY <1>1, <1>2, RemainingFronts
<1>5. QED
  BY <1>1, <1>3, <1>4

(* Its last element, if it went or not, is where it was once put back.      *)
LEMMA PutBackLast ==
    ASSUME NEW T, NEW s \in Seq(T), NEW gone, AllApart(s), s # <<>>,
           \A x \in Range(s) : x \in gone => x = s[Len(s)]
    PROVE  Append(Remaining(Remaining(s, gone), {s[Len(s)]}), s[Len(s)]) = s
<1> DEFINE n == Len(s)
           x == s[n]
           f == SubSeq(s, 1, n - 1)
<1>1. n \in Nat /\ n > 0 /\ n \in 1..n /\ x \in T /\ \A i \in 1..n : s[i] \in Range(s)
  BY ElementsOf
<1>2. \A i \in 1..(n - 1) : i \in 1..n /\ s[i] # x
  BY <1>1 DEF AllApart
<1>3. f \in Seq(T) /\ Len(f) = n - 1 /\ \A i \in 1..(n - 1) : f[i] = s[i]
  <2>1. n - 1 \in Nat /\ n - 1 <= Len(s)
    BY <1>1
  <2> HIDE DEF n
  <2>2. QED
    BY <2>1
<1>4. Remaining(s, {x}) = f
  BY <1>1, <1>2, RemainingButLast
<1>5. Remaining(Remaining(s, gone), {x}) = f
  <2>1. CASE x \in gone
    <3>1. \A i \in 1..(n - 1) : s[i] \notin gone
      BY <1>1, <1>2
    <3>2. Remaining(s, gone) = f
      BY <2>1, <3>1, RemainingButLast
    <3>3. \A y \in Range(f) : y \notin {x}
      <4> HIDE DEF f
      <4>1. \A y \in Range(f) : \E i \in 1..(n - 1) : y = f[i]
        BY <1>3, ElementsOf
      <4> HIDE DEF n, x
      <4>2. QED
        BY <1>2, <1>3, <4>1
    <3> HIDE DEF f, x, n
    <3>4. Remaining(f, {x}) = f
      BY <1>3, <3>3, RemainingAll
    <3>5. QED
      BY <3>2, <3>4
  <2>2. CASE x \notin gone
    <3>1. Remaining(s, gone) = s
      BY <2>2, RemainingAll
    <3>2. QED
      BY <1>4, <3>1
  <2>3. QED
    BY <2>1, <2>2
<1>6. Append(f, x) = s
  <2> DEFINE a == Append(f, x)
  <2>1. a \in Seq(T) /\ Len(a) = n /\ a[n] = x /\ \A i \in 1..(n - 1) : a[i] = f[i]
    BY <1>1, <1>3
  <2> HIDE DEF a
  <2>2. ASSUME NEW i \in 1..n PROVE a[i] = s[i]
    <3>1. i = n \/ i \in 1..(n - 1)
      BY <1>1
    <3>2. QED
      BY <1>3, <2>1, <3>1
  <2>3. a = s
    BY <2>1, <2>2, SeqEqual
  <2>4. QED
    BY <2>3 DEF a
<1>7. QED
  BY <1>5, <1>6

(* x is nowhere but first: of what remains, too.                            *)
FirstOrNot(s, x) == \A i \in 1..Len(s) : s[i] = x => i = 1

LEMMA FirstOfRemaining ==
    ASSUME NEW T, NEW s \in Seq(T), NEW gone, NEW x, FirstOrNot(s, x)
    PROVE  FirstOrNot(Remaining(s, gone), x)
<1> DEFINE t == Remaining(s, gone)
<1>1. t \in Seq(T) /\ \E e : KeptAt(e, t, s, Len(s), gone)
  BY RemainingKeeps
<1>2. PICK e : KeptAt(e, t, s, Len(s), gone)
  BY <1>1
<1> HIDE DEF t
<1>3. ASSUME NEW i \in 1..Len(t), t[i] = x PROVE i = 1
  <2>1. e[i] \in 1..Len(s) /\ s[e[i]] = x /\ (1 \in 1..Len(t) /\ 1 < i => e[1] < e[i] /\ e[1] \in 1..Len(s))
    BY <1>2, <1>3 DEF KeptAt
  <2>2. e[i] = 1
    BY <2>1 DEF FirstOrNot
  <2>3. i \in Nat /\ i >= 1 /\ Len(t) \in Nat /\ (1 < i => 1 \in 1..Len(t))
    BY <1>1
  <2>4. ~(1 < i)
    BY <2>1, <2>2, <2>3
  <2>5. QED
    BY <2>3, <2>4
<1>4. QED
  BY <1>3 DEF FirstOrNot, t

(* Of finitely many numbers one is the greatest.                            *)
LEMMA GreatestAmong ==
    ASSUME NEW n \in Nat, NEW d, \A i \in 1..n : d[i] \in Nat, NEW J
    PROVE  \E m \in Nat : /\ m = 0 \/ \E i \in 1..n : i \in J /\ d[i] = m
                          /\ \A i \in 1..n : i \in J => d[i] <= m
<1> DEFINE Most(k, m) == /\ m = 0 \/ \E i \in 1..k : i \in J /\ d[i] = m
                         /\ \A i \in 1..k : i \in J => d[i] <= m
           Good == {k \in 0..n : \E m \in Nat : Most(k, m)}
<1>1. 0 \in Good
  <2>1. Most(0, 0) /\ 0 \in 0..n
    OBVIOUS
  <2> HIDE DEF Most
  <2>2. QED
    BY <2>1
<1>2. ASSUME NEW k \in 0..n, k + 1 \in 0..n, k \in Good PROVE k + 1 \in Good
  <2>1. PICK m \in Nat : Most(k, m)
    BY <1>2
  <2>2. k + 1 \in 1..n /\ d[k + 1] \in Nat /\ \A i \in 1..(k + 1) : i = k + 1 \/ i \in 1..k
    BY <1>2
  <2>3. \A i \in 1..k : i \in 1..(k + 1) /\ d[i] \in Nat
    BY <1>2
  <2>4. k + 1 \in 1..(k + 1)
    BY <2>2
  <2>5. CASE k + 1 \in J /\ d[k + 1] > m
    <3>1. Most(k + 1, d[k + 1])
      BY <2>1, <2>2, <2>3, <2>4, <2>5
    <3> HIDE DEF Most
    <3>2. QED
      BY <1>2, <2>2, <3>1
  <2>6. CASE ~(k + 1 \in J /\ d[k + 1] > m)
    <3>1. Most(k + 1, m)
      BY <2>1, <2>2, <2>3, <2>4, <2>6
    <3> HIDE DEF Most
    <3>2. QED
      BY <1>2, <3>1
  <2>7. QED
    BY <2>5, <2>6
<1>3. n \in Good
  <2> HIDE DEF Good
  <2>1. 0..n \subseteq Good
    BY <1>1, <1>2, StepByStep
  <2>2. QED
    BY <2>1
<1>4. QED
  BY <1>3
=============================================================================

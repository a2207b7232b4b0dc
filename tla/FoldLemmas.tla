------------------------------ MODULE FoldLemmas ------------------------------
(***************************************************************************)
(* What the library's operators on sequences come to: SetToSeq, which      *)
(* lists a finite set, and FoldLeft, which goes through a sequence.        *)
(* FoldLeft is a recursive function that is chosen, not given: to know     *)
(* anything of it one must have a function that satisfies its equation     *)
(* (FoldExists), and compare the two on the prefixes of the sequence, one  *)
(* after the other (Reaches).                                              *)
(***************************************************************************)
EXTENDS Integers, Sequences, SequencesExt, FiniteSetTheorems, WellFoundedInduction, TLAPS

\* A set of numbers that is not empty has a least one.
LEMMA HasLeast ==
    ASSUME NEW S \in SUBSET Nat, S # {}
    PROVE  \E x \in S : \A y \in S : x <= y
<1>1. OpToRel(<, Nat) = {ss \in Nat \X Nat : ss[1] < ss[2]}
  BY Zenon DEF OpToRel
<1>2. PICK x \in S : \A y \in S : ~(<<y, x>> \in OpToRel(<, Nat))
  BY NatLessThanWellFounded, WFMin
<1>3. \A y \in S : ~(<<y, x>> \in {ss \in Nat \X Nat : ss[1] < ss[2]})
  BY <1>1, <1>2, Zenon
<1>4. \A y \in S : ~(y < x)
  <2> TAKE y \in S
  <2>1. <<y, x>> \in Nat \X Nat /\ <<y, x>>[1] = y /\ <<y, x>>[2] = x
    OBVIOUS
  <2> QED BY <1>3, <2>1
<1> QED BY <1>4

\* A set with 0 that with a number has the next one reaches n.
LEMMA Reaches ==
    ASSUME NEW n \in Nat, NEW S, 0 \in S, \A k \in 1 .. n : k - 1 \in S => k \in S
    PROVE  n \in S
<1> DEFINE R == {k \in 0 .. n : k \notin S}
<1>1. SUFFICES ASSUME n \notin S PROVE FALSE
  OBVIOUS
<1>2. R \in SUBSET Nat /\ R # {}
  BY <1>1
<1>3. PICK k \in R : \A y \in R : k <= y
  BY <1>2, HasLeast
<1>4. k # 0 /\ k - 1 \in 0 .. n /\ k - 1 \notin R
  BY <1>3
<1> QED BY <1>3, <1>4

LEMMA MaxIs ==
    ASSUME NEW n \in Nat, NEW s \in SUBSET (1 .. n), s # {}
    PROVE  Max(s) \in s /\ \A i \in s : i <= Max(s)
<1> DEFINE B == {b \in Nat : \A i \in s : i <= b}
<1>1. n \in B /\ B \in SUBSET Nat
  OBVIOUS
<1>2. PICK b \in B : \A c \in B : b <= c
  BY <1>1, HasLeast
<1>3. b \in s
  <2> SUFFICES ASSUME b \notin s PROVE FALSE
    OBVIOUS
  <2>0. b \in Nat /\ \A i \in s : i \in Nat /\ 1 <= i /\ i <= b /\ i # b
    BY <1>2
  <2>1. \A i \in s : i <= b - 1 /\ b > 0
    BY <2>0
  <2>2. b - 1 \in B
    <3>1. b > 0
      BY <2>1
    <3> QED BY <2>0, <2>1, <3>1
  <2> QED BY <1>2, <2>0, <2>2
<1>4. \E x \in s : \A y \in s : x >= y
  BY <1>2, <1>3
<1>5. Max(s) \in s /\ \A y \in s : Max(s) >= y
  BY <1>4 DEF Max
<1> QED BY <1>5

\* The sequence SetToSeq chooses has the elements of the set and no other.
LEMMA SetToSeqIs ==
    ASSUME NEW S, IsFiniteSet(S)
    PROVE  /\ SetToSeq(S) \in Seq(S)
           /\ \A x \in S : \E i \in 1 .. Len(SetToSeq(S)) : SetToSeq(S)[i] = x
<1> DEFINE n == Cardinality(S)
           q == SetToSeq(S)
<1>1. n \in Nat /\ ExistsBijection(1 .. n, S)
  BY FS_CardinalityType
<1>2. \E f \in [1 .. n -> S] : IsInjective(f)
  BY <1>1 DEF ExistsBijection, Bijection, Injection
<1>3. q \in [1 .. n -> S] /\ IsInjective(q)
  BY <1>2 DEF SetToSeq
<1> HIDE DEF q
<1>4. q \in Injection(1 .. n, S)
  BY <1>3 DEF Injection
<1>5. Cardinality(1 .. n) = n
  BY <1>1, FS_Interval
<1> HIDE DEF n
<1>6. q \in Surjection(1 .. n, S)
  BY <1>4, <1>5, FS_Injection DEF n
<1>7. q \in Seq(S) /\ Len(q) = n
  BY <1>1, <1>3
<1> QED BY <1>6, <1>7 DEF q, Surjection

LEMMA FiniteImage ==
    ASSUME NEW S, IsFiniteSet(S), NEW f, DOMAIN f = S
    PROVE  IsFiniteSet({f[x] : x \in S})
<1> DEFINE T == {f[x] : x \in S}
           g == [x \in S |-> f[x]]
<1>1. g \in Surjection(S, T)
  BY DEF Surjection
<1> HIDE DEF T, g
<1>2. IsFiniteSet(T)
  BY <1>1, FS_Surjection
<1> QED BY <1>2 DEF T

-----------------------------------------------------------------------------
\* x after the steps of the places of s up to k, f has all of them.
Runs(f, n, S, step, x, s) ==
    /\ f \in [0 .. n -> S] /\ f[0] = x
    /\ \A k \in 1 .. n : f[k] = IF k \in s THEN step[<<f[k - 1], k>>] ELSE f[k - 1]

LEMMA RunExists ==
    ASSUME NEW n \in Nat, NEW S, NEW step \in [S \X (1 .. n) -> S], NEW x \in S, NEW s
    PROVE  \E f : Runs(f, n, S, step, x, s)
<1> DEFINE Upto(f, m) ==
              /\ f \in [0 .. m -> S] /\ f[0] = x
              /\ \A k \in 1 .. m : f[k] = IF k \in s THEN step[<<f[k - 1], k>>] ELSE f[k - 1]
           R == {m \in 0 .. n : \E f : Upto(f, m)}
<1>1. 0 \in R
  <2> DEFINE f == [i \in 0 .. 0 |-> x]
  <2>1. f \in [0 .. 0 -> S]
    OBVIOUS
  <2>2. f[0] = x
    OBVIOUS
  <2>3. 1 .. 0 = {} /\ 0 \in 0 .. n
    OBVIOUS
  <2> HIDE DEF f
  <2>4. \A k \in 1 .. 0 : f[k] = IF k \in s THEN step[<<f[k - 1], k>>] ELSE f[k - 1]
    BY <2>3
  <2>5. Upto(f, 0)
    BY <2>1, <2>2, <2>4
  <2> HIDE DEF Upto
  <2> QED BY <2>3, <2>5
<1>2. ASSUME NEW m \in 1 .. n, m - 1 \in R PROVE m \in R
  <2>1. PICK f : Upto(f, m - 1)
    BY <1>2
  <2> DEFINE y == IF m \in s THEN step[<<f[m - 1], m>>] ELSE f[m - 1]
             g == [i \in 0 .. m |-> IF i = m THEN y ELSE f[i]]
  <2>2. f[m - 1] \in S
    BY <2>1
  <2>3. y \in S
    BY <2>2
  <2>4. g \in [0 .. m -> S] /\ g[0] = x /\ g[m] = y /\ \A i \in 0 .. m - 1 : g[i] = f[i]
    BY <2>1, <2>3
  <2>5. ASSUME NEW k \in 1 .. m
        PROVE  g[k] = IF k \in s THEN step[<<g[k - 1], k>>] ELSE g[k - 1]
    <3>1. CASE k = m
      <4>1. m - 1 \in 0 .. m - 1
        OBVIOUS
      <4>2. g[k - 1] = f[m - 1] /\ g[k] = y
        BY <2>4, <3>1, <4>1
      <4> HIDE DEF g
      <4> QED BY <3>1, <4>2
    <3>2. CASE k \in 1 .. m - 1
      <4>1. k - 1 \in 0 .. m - 1 /\ k \in 0 .. m - 1
        BY <3>2
      <4> HIDE DEF g
      <4> QED BY <2>1, <2>4, <3>2, <4>1
    <3> QED BY <3>1, <3>2
  <2> HIDE DEF g
  <2>6. Upto(g, m)
    BY <2>4, <2>5
  <2> QED BY <2>6
<1>3. n \in R
  <2> HIDE DEF R
  <2> QED BY <1>1, <1>2, Reaches
<1> QED BY <1>3 DEF Runs

\* Runs that go through the same places up to m agree up to m.
LEMMA RunsAgree ==
    ASSUME NEW n \in Nat, NEW S, NEW step, NEW x, NEW s, NEW t, NEW f, NEW g,
           Runs(f, n, S, step, x, s), Runs(g, n, S, step, x, t),
           NEW m \in 0 .. n, \A k \in 1 .. m : k \in s <=> k \in t
    PROVE  f[m] = g[m]
<1> DEFINE R == {k \in 0 .. m : f[k] = g[k]}
<1>1. 0 \in R
  BY DEF Runs
<1>2. ASSUME NEW k \in 1 .. m, k - 1 \in R PROVE k \in R
  <2>1. k \in 1 .. n /\ f[k - 1] = g[k - 1] /\ (k \in s <=> k \in t)
    BY <1>2
  <2>2. /\ f[k] = IF k \in s THEN step[<<f[k - 1], k>>] ELSE f[k - 1]
        /\ g[k] = IF k \in t THEN step[<<g[k - 1], k>>] ELSE g[k - 1]
    BY <2>1 DEF Runs
  <2>3. f[k] = g[k]
    BY <2>1, <2>2
  <2> QED BY <2>3
<1>3. m \in Nat
  OBVIOUS
<1>4. m \in R
  <2> HIDE DEF R
  <2> QED BY <1>1, <1>2, <1>3, Reaches
<1> QED BY <1>4

\* A run stays where it is after the last of its places.
LEMMA RunRests ==
    ASSUME NEW n \in Nat, NEW S, NEW step, NEW x, NEW s, NEW f,
           Runs(f, n, S, step, x, s),
           NEW m \in 0 .. n, \A k \in 1 .. n : k > m => k \notin s
    PROVE  f[n] = f[m]
<1> DEFINE R == {k \in Nat : m + k <= n => f[m + k] = f[m]}
<1>1. 0 \in R
  OBVIOUS
<1>2. n - m \in Nat
  OBVIOUS
<1>3. ASSUME NEW k \in 1 .. n - m, k - 1 \in R PROVE k \in R
  <2>1. f[m + (k - 1)] = f[m]
    BY <1>3
  <2>2. m + k \in 1 .. n /\ (m + k) - 1 = m + (k - 1) /\ m + k > m
    OBVIOUS
  <2>3. f[m + k] = f[(m + k) - 1]
    BY <2>2 DEF Runs
  <2>4. f[m + k] = f[m]
    BY <2>1, <2>2, <2>3
  <2> QED BY <2>4
<1>4. n - m \in R
  <2> HIDE DEF R
  <2> QED BY <1>1, <1>2, <1>3, Reaches
<1>5. m + (n - m) = n
  OBVIOUS
<1> QED BY <1>4, <1>5

(* g satisfies the equation of FoldLeft: x for the prefix of no places,    *)
(* and each further place takes it through one step.                       *)
Folds(g, n, S, step, x) ==
    /\ g \in [SUBSET (1 .. n) -> S] /\ g[{}] = x
    /\ \A s \in SUBSET (1 .. n) : s # {} => g[s] = step[<<g[s \ {Max(s)}], Max(s)>>]

LEMMA FoldExists ==
    ASSUME NEW n \in Nat, NEW S, NEW step \in [S \X (1 .. n) -> S], NEW x \in S
    PROVE  \E g : Folds(g, n, S, step, x)
<1> DEFINE run(s) == CHOOSE f : Runs(f, n, S, step, x, s)
           g == [s \in SUBSET (1 .. n) |-> run(s)[n]]
<1>1. ASSUME NEW s PROVE Runs(run(s), n, S, step, x, s)
  BY RunExists
<1> HIDE DEF run
<1>2. g \in [SUBSET (1 .. n) -> S]
  <2>1. \A s : run(s)[n] \in S
    BY <1>1 DEF Runs
  <2> QED BY <2>1
<1>3. g[{}] = x
  <2>1. run({})[n] = run({})[0]
    <3>1. 0 \in 0 .. n /\ \A k \in 1 .. n : k > 0 => k \notin {}
      OBVIOUS
    <3> QED BY <1>1, <3>1, RunRests
  <2> QED BY <1>1, <2>1 DEF Runs
<1>4. ASSUME NEW s \in SUBSET (1 .. n), s # {}
      PROVE  g[s] = step[<<g[s \ {Max(s)}], Max(s)>>]
  <2> DEFINE m == Max(s)
             t == s \ {m}
  <2>1. m \in s /\ \A i \in s : i <= m
    BY <1>4, MaxIs
  <2> HIDE DEF m
  <2>2. m \in 1 .. n /\ m - 1 \in 0 .. n /\ m \in 0 .. n
    BY <2>1
  <2>3. \A k \in 1 .. n : k > m => k \notin s
    BY <2>1, <2>2
  <2>4. \A k \in 1 .. n : k > m - 1 => k \notin t
    BY <2>1, <2>2
  <2>5. \A k \in 1 .. m - 1 : k \in s <=> k \in t
    BY <2>2
  <2>6. run(s)[n] = run(s)[m]
    BY <1>1, <2>2, <2>3, RunRests
  <2>7. run(t)[n] = run(t)[m - 1]
    <3> HIDE DEF t
    <3> QED BY <1>1, <2>2, <2>4, RunRests
  <2>8. run(s)[m - 1] = run(t)[m - 1]
    <3> HIDE DEF t
    <3> QED BY <1>1, <2>2, <2>5, RunsAgree
  <2>9. run(s)[m] = step[<<run(s)[m - 1], m>>]
    BY <1>1, <2>1, <2>2 DEF Runs
  <2>10. t \in SUBSET (1 .. n)
    OBVIOUS
  <2>11. g[s] = run(s)[n] /\ g[t] = run(t)[n]
    BY <2>10
  <2> HIDE DEF g, t
  <2>12. g[s] = step[<<g[t], m>>]
    BY <2>6, <2>7, <2>8, <2>9, <2>11
  <2> QED BY <2>12 DEF m, t
<1>5. Folds(g, n, S, step, x)
  <2> HIDE DEF g
  <2> QED BY <1>2, <1>3, <1>4 DEF Folds
<1> QED BY <1>5

\* The prefixes of a sequence as FoldLeft sees them.
LEMMA Prefix ==
    ASSUME NEW n \in Nat, NEW k \in 1 .. n
    PROVE  /\ 1 .. k \in SUBSET (1 .. n) /\ 1 .. k # {}
           /\ Max(1 .. k) = k /\ (1 .. k) \ {k} = 1 .. k - 1
<1>1. k \in 1 .. k /\ 1 .. k \in SUBSET (1 .. n)
  OBVIOUS
<1>2. Max(1 .. k) \in 1 .. k /\ \A i \in 1 .. k : i <= Max(1 .. k)
  BY <1>1, MaxIs
<1>3. Max(1 .. k) = k
  BY <1>1, <1>2
<1>4. (1 .. k) \ {k} = 1 .. k - 1
  OBVIOUS
<1> QED BY <1>1, <1>3, <1>4
=============================================================================

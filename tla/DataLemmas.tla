----------------------------- MODULE DataLemmas -----------------------------
(***************************************************************************)
(* Facts about the data that several models use. First induction and       *)
(* recursion, for the proofs about folds: the library's theorems on both   *)
(* take an operator as a parameter; here the property is a set of numbers  *)
(* and the step of a fold is a function, so that the lemmas can be cited.  *)
(* Then the LRU of Dedup: what it remembers and what it cannot.            *)
(***************************************************************************)
EXTENDS Dedup, SequencesExt, FiniteSetTheorems, WellFoundedInduction, TLAPS

(***************************************************************************)
(* Induction, folds, enumerations.                                         *)
(***************************************************************************)

(* Every set of numbers that is not empty has a least one.                 *)
LEMMA LeastElement ==
    ASSUME NEW S \in SUBSET Nat, S # {}
    PROVE  \E m \in S : \A n \in S : m <= n
<1> DEFINE R == OpToRel(<, Nat)
<1>1. PICK m \in S : \A n \in S : ~(<<n, m>> \in R)
  <2>1. IsWellFoundedOn(R, Nat)
    BY NatLessThanWellFounded
  <2> HIDE DEF R
  <2>2. QED BY <2>1, WFMin
<1>2. \A n \in S : n < m => <<n, m>> \in R
  BY DEF OpToRel
<1>3. \A n \in S : n \in Nat /\ m \in Nat /\ ~(n < m)
  BY <1>1, <1>2
<1> HIDE DEF R
<1>4. QED BY <1>3

(* A set of numbers that has 0, and with a number the next one, has them   *)
(* all: of those that it lacked there would be a least one.                *)
LEMMA NatSetInduction ==
    ASSUME NEW S, 0 \in S, \A n \in Nat : n \in S => n + 1 \in S
    PROVE  Nat \subseteq S
<1> SUFFICES ASSUME Nat \ S # {} PROVE FALSE
  OBVIOUS
<1>1. PICK m \in Nat \ S : \A n \in Nat \ S : m <= n
  BY LeastElement
<1>2. m # 0 /\ m - 1 \in Nat \ S
  OBVIOUS
<1>3. QED BY <1>1, <1>2

(* Max is what it says.                                                    *)
LEMMA MaxIsGreatest ==
    ASSUME NEW L \in Nat, NEW t \in SUBSET (1..L), t # {}
    PROVE  Max(t) \in t /\ \A y \in t : y <= Max(t)
<1> DEFINE S == {n \in Nat : \A y \in t : y <= n}
<1>1. L \in S
  OBVIOUS
<1>2. PICK m \in S : \A n \in S : m <= n
  <2> HIDE DEF S
  <2>1. S \in SUBSET Nat
    BY DEF S
  <2>2. QED BY <1>1, <2>1, LeastElement
<1>3. m \in t
  <2> SUFFICES ASSUME m \notin t PROVE FALSE
    OBVIOUS
  <2>1. PICK y \in t : TRUE
    OBVIOUS
  <2>2. m - 1 \in S
    <3>1. \A z \in t : z \in Nat /\ z <= m /\ z # m
      BY <1>2
    <3>2. y \in Nat /\ 1 <= y /\ m \in Nat
      BY <1>2, <2>1
    <3>3. QED BY <2>1, <3>1, <3>2
  <2>3. QED BY <1>2, <2>2
<1>4. QED BY <1>2, <1>3 DEF Max

(* A function that takes every subset of D apart, the picked element       *)
(* first, as MapThenFoldSet does.                                          *)
Picks(pick, D) == \A t \in SUBSET D : t # {} => pick[t] \in t
Folds(h, D, base, pick, step) ==
    \A t \in SUBSET D :
        h[t] = IF t = {} THEN base ELSE step[<<h[t \ {pick[t]}], pick[t]>>]

(* Over a finite set there is one, whichever element is picked first: a    *)
(* fold is well defined.                                                   *)
LEMMA FoldIsDefined ==
    ASSUME NEW D, IsFiniteSet(D), NEW X, NEW base \in X,
           NEW pick, Picks(pick, D), NEW step \in [X \X D -> X]
    PROVE  \E h \in [SUBSET D -> X] : Folds(h, D, base, pick, step)
<1> USE DEF Picks
<1> DEFINE Small(n) == {t \in SUBSET D : Cardinality(t) <= n}
           FoldsTo(h, n) == \A t \in Small(n) :
              h[t] = IF t = {} THEN base ELSE step[<<h[t \ {pick[t]}], pick[t]>>]
           S == {n \in Nat : \E h \in [Small(n) -> X] : FoldsTo(h, n)}
<1>1. \A t \in SUBSET D : IsFiniteSet(t) /\ Cardinality(t) \in Nat /\ Cardinality(t) <= Cardinality(D)
  BY FS_Subset, FS_CardinalityType
<1>2. \A t \in SUBSET D : t # {} => t \ {pick[t]} \in SUBSET D
                                    /\ Cardinality(t \ {pick[t]}) = Cardinality(t) - 1
  BY <1>1, FS_RemoveElement
<1>3. \A t \in SUBSET D : t # {} => Cardinality(t) # 0
  BY <1>1, FS_EmptySet
<1>4. 0 \in S
  <2>1. \A t \in Small(0) : t = {}
    BY <1>1, <1>3
  <2>2. FoldsTo([t \in Small(0) |-> base], 0)
    BY <2>1
  <2>3. QED BY <2>2
<1>5. ASSUME NEW n \in Nat, n \in S
      PROVE  n + 1 \in S
  <2>1. PICK h \in [Small(n) -> X] : FoldsTo(h, n)
    BY <1>5
  <2> DEFINE k == [t \in Small(n + 1) |->
                     IF t = {} THEN base ELSE step[<<h[t \ {pick[t]}], pick[t]>>]]
  <2>2. \A t \in Small(n + 1) : t # {} => t \ {pick[t]} \in Small(n) /\ pick[t] \in D
    BY <1>1, <1>2
  <2>3. k \in [Small(n + 1) -> X]
    BY <2>2
  <2>4. \A t \in Small(n) : t \in Small(n + 1)
    BY <1>1
  <2>5. \A t \in Small(n) : k[t] = h[t]
    BY <2>1, <2>4
  <2>6. FoldsTo(k, n + 1)
    BY <2>2, <2>5
  <2>7. \E f \in [Small(n + 1) -> X] : FoldsTo(f, n + 1)
    <3> HIDE DEF k, FoldsTo, Small
    <3> WITNESS k \in [Small(n + 1) -> X]
    <3> QED BY <2>6
  <2> HIDE DEF k, FoldsTo, Small
  <2>8. QED BY <2>7
<1>6. Cardinality(D) \in S
  <2> HIDE DEF S
  <2>1. Nat \subseteq S
    BY <1>4, <1>5, NatSetInduction
  <2>2. QED BY <2>1, FS_CardinalityType
<1>7. Small(Cardinality(D)) = SUBSET D
  BY <1>1
<1>8. QED BY <1>6, <1>7 DEF Folds
-----------------------------------------------------------------------------
(* The sums of the first 0, 1, ... numbers of a sequence.                  *)
PrefixSums(seq) ==
    {f \in [0..Len(seq) -> Nat] :
        f[0] = 0 /\ \A n \in 1..Len(seq) : f[n] = f[n - 1] + seq[n]}

(* What the elements of a set weigh together, and that it comes out the    *)
(* same with any element taken off first.                                  *)
Weighs(sum, D, w, pick) ==
    /\ sum \in [SUBSET D -> Nat]
    /\ \A x \in D : w[x] \in Nat
    /\ sum[{}] = 0
    /\ \A t \in SUBSET D : t # {} => sum[t] = w[pick[t]] + sum[t \ {pick[t]}]

TakesAny(sum, D, w) ==
    \A t \in SUBSET D : \A x \in t : sum[t] = w[x] + sum[t \ {x}]

(* By induction on the size: what is picked first and what is taken off    *)
(* first may change places.                                                *)
LEMMA AnyElementFirst ==
    ASSUME NEW D, IsFiniteSet(D), NEW w, NEW sum, NEW pick,
           Picks(pick, D), Weighs(sum, D, w, pick)
    PROVE  TakesAny(sum, D, w)
<1> DEFINE OfSize(n) == \A t \in SUBSET D : \A x \in t :
              Cardinality(t) = n => sum[t] = w[x] + sum[t \ {x}]
           S == {n \in Nat : OfSize(n)}
<1>1. \A t \in SUBSET D : IsFiniteSet(t) /\ Cardinality(t) \in Nat
  BY FS_Subset, FS_CardinalityType
<1>2. 0 \in S
  BY <1>1, FS_EmptySet
<1>3. ASSUME NEW n \in Nat, OfSize(n), NEW t \in SUBSET D, NEW x \in t,
             Cardinality(t) = n + 1
      PROVE  sum[t] = w[x] + sum[t \ {x}]
  <2> DEFINE c == pick[t]
             u == t \ {c}
             v == t \ {x}
  <2>1. c \in t /\ sum[t] = w[c] + sum[u]
    BY DEF Picks, Weighs
  <2>2. CASE x = c
    BY <2>1, <2>2
  <2>3. CASE x # c
    <3> HIDE DEF c
    <3>1. u \in SUBSET D /\ x \in u /\ v \in SUBSET D /\ c \in v /\ u \ {x} = v \ {c}
      BY <2>1, <2>3
    <3>2. Cardinality(u) = n /\ Cardinality(v) = n
      <4>1. IsFiniteSet(t)
        BY <1>1
      <4>2. Cardinality(u) = (n + 1) - 1 /\ Cardinality(v) = (n + 1) - 1
        BY <1>3, <2>1, <4>1, FS_RemoveElement
      <4>3. QED BY <4>2
    <3>3. u \ {x} \in SUBSET D
      BY <3>1
    <3> HIDE DEF u, v
    <3>4. sum[u] = w[x] + sum[u \ {x}] /\ sum[v] = w[c] + sum[u \ {x}]
      BY <1>3, <3>1, <3>2
    <3>5. w[x] \in Nat /\ w[c] \in Nat /\ sum[u \ {x}] \in Nat
      BY <2>1, <3>3 DEF Weighs
    <3>6. QED BY <2>1, <3>4, <3>5 DEF v
  <2>4. QED BY <2>2, <2>3
<1>4. Nat \subseteq S
  <2>1. ASSUME NEW n \in Nat, OfSize(n)
        PROVE  OfSize(n + 1)
    BY <1>3, <2>1
  <2> HIDE DEF OfSize
  <2>2. \A n \in Nat : n \in S => n + 1 \in S
    BY <2>1
  <2> HIDE DEF S
  <2>3. QED BY <1>2, <2>2, NatSetInduction
<1>5. QED BY <1>1, <1>4 DEF TakesAny

(* The fold that adds the numbers of a sequence up, in an order that it    *)
(* does not tell, is the last of its prefix sums: sums over sets, in which *)
(* any element can be taken off first, lead from the one to the other.     *)
LEMMA SumIsTheLastPrefixSum ==
    ASSUME NEW seq \in Seq(Nat)
    PROVE  \E f \in PrefixSums(seq) :
              f[Len(seq)] = FoldSeq(LAMBDA x, y : x + y, 0, seq)
<1> DEFINE D == 1..Len(seq)
           pick == [t \in SUBSET D |-> CHOOSE i \in t : TRUE]
           step == [p \in Nat \X D |-> seq[p[2]] + p[1]]
           Sums(h) == h = [t \in SUBSET D |->
              IF t = {} THEN 0
              ELSE seq[CHOOSE i \in t : TRUE] + h[t \ {CHOOSE i \in t : TRUE}]]
           sum == CHOOSE h : Sums(h)
<1>1. Len(seq) \in Nat /\ DOMAIN seq = D /\ \A i \in D : seq[i] \in Nat
  OBVIOUS
<1>2. FoldSeq(LAMBDA x, y : x + y, 0, seq) = sum[D]
  BY <1>1 DEF FoldSeq, FoldFunction, FoldFunctionOnSet, MapThenFoldSet
<1>3. IsFiniteSet(D)
  BY <1>1, FS_Interval
<1>4. \E h \in [SUBSET D -> Nat] : Sums(h)
  <2>1. Picks(pick, D)
    BY DEF Picks
  <2>2. step \in [Nat \X D -> Nat]
    BY <1>1
  <2>3. PICK h \in [SUBSET D -> Nat] : Folds(h, D, 0, pick, step)
    <3> HIDE DEF D, pick, step
    <3> QED BY <1>3, <2>1, <2>2, FoldIsDefined
  <2>4. ASSUME NEW t \in SUBSET D, t # {}
        PROVE  h[t] = seq[CHOOSE i \in t : TRUE] + h[t \ {CHOOSE i \in t : TRUE}]
    BY <2>1, <2>3, <2>4 DEF Picks, Folds
  <2>5. Sums(h)
    BY <2>3, <2>4 DEF Folds
  <2> HIDE DEF Sums
  <2>6. QED BY <2>5
<1>5. sum \in [SUBSET D -> Nat] /\ Sums(sum)
  <2>1. \A h : Sums(h) => h \in [SUBSET D -> Nat]
    OBVIOUS
  <2>2. QED BY <1>4, <2>1
<1>6. sum[{}] = 0 /\ TakesAny(sum, D, seq)
  <2>1. Picks(pick, D)
    BY DEF Picks
  <2>2. \A t \in SUBSET D : t # {} => sum[t] = seq[pick[t]] + sum[t \ {pick[t]}]
    BY <1>5
  <2>3. sum[{}] = 0
    BY <1>5
  <2>4. Weighs(sum, D, seq, pick)
    BY <1>1, <1>5, <2>2, <2>3 DEF Weighs
  <2> HIDE DEF D, pick, sum, Sums
  <2>5. TakesAny(sum, D, seq)
    BY <1>3, <2>1, <2>4, AnyElementFirst
  <2>6. QED BY <2>3, <2>5
<1>7. [n \in 0..Len(seq) |-> sum[1..n]] \in PrefixSums(seq)
  <2>1. \A n \in 0..Len(seq) : 1..n \in SUBSET D
    BY <1>1
  <2>2. sum \in [SUBSET D -> Nat]
    BY <1>5
  <2> HIDE DEF sum
  <2>3. \A n \in 0..Len(seq) : sum[1..n] \in Nat
    BY <2>1, <2>2
  <2>4. sum[1..0] = 0
    BY <1>6
  <2>5. ASSUME NEW n \in 1..Len(seq)
        PROVE  sum[1..n] = sum[1..n - 1] + seq[n]
    <3>1. n \in 1..n /\ (1..n) \ {n} = 1..n - 1 /\ n \in 0..Len(seq) /\ n - 1 \in 0..Len(seq)
      BY <1>1
    <3>2. sum[1..n - 1] \in Nat /\ seq[n] \in Nat
      BY <1>1, <2>3, <3>1
    <3>3. sum[1..n] = seq[n] + sum[1..n - 1]
      BY <1>6, <2>1, <3>1 DEF TakesAny
    <3>4. QED BY <3>2, <3>3
  <2> DEFINE f == [n \in 0..Len(seq) |-> sum[1..n]]
  <2>6. f \in [0..Len(seq) -> Nat] /\ f[0] = 0
    BY <1>1, <2>3, <2>4
  <2>7. \A n \in 1..Len(seq) : f[n] = f[n - 1] + seq[n]
    BY <1>1, <2>5
  <2> HIDE DEF f
  <2>8. f \in PrefixSums(seq)
    BY <2>6, <2>7 DEF PrefixSums
  <2>9. QED BY <2>8 DEF f
<1>8. Len(seq) \in 0..Len(seq)
  BY <1>1
<1> HIDE DEF sum, D
<1>9. QED BY <1>2, <1>7, <1>8 DEF D

(* Prefix sums only grow.                                                  *)
LEMMA PrefixSumsGrow ==
    ASSUME NEW seq \in Seq(Nat), NEW f \in PrefixSums(seq),
           NEW m \in 0..Len(seq)
    PROVE  f[m] <= f[Len(seq)]
<1> DEFINE L == Len(seq)
           S == {n \in Nat : n \in 0..L /\ m <= n => f[m] <= f[n]}
<1>1. L \in Nat /\ m \in 0..L
      /\ (\A n \in 0..L : f[n] \in Nat)
      /\ (\A n \in 0..L : n + 1 \in 0..L => f[n + 1] = f[n] + seq[n + 1] /\ seq[n + 1] \in Nat)
  <2>1. L \in Nat /\ f \in [0..L -> Nat] /\ \A n \in 1..L : f[n] = f[n - 1] + seq[n] /\ seq[n] \in Nat
    BY DEF PrefixSums
  <2>2. m \in 0..L
    OBVIOUS
  <2> HIDE DEF L
  <2>3. \A n \in 0..L : n + 1 \in 0..L => n + 1 \in 1..L /\ (n + 1) - 1 = n
    BY <2>1
  <2>4. QED BY <2>1, <2>2, <2>3
<1> HIDE DEF L
<1>2. 0 \in S
  BY <1>1
<1>3. ASSUME NEW n \in Nat, n \in S, n + 1 \in 0..L, m <= n + 1
      PROVE  f[m] <= f[n + 1]
  <2>1. CASE m <= n
    <3>1. n \in 0..L
      BY <1>1, <1>3
    <3>2. f[n + 1] = f[n] + seq[n + 1] /\ seq[n + 1] \in Nat /\ f[n] \in Nat /\ f[m] \in Nat
      BY <1>1, <1>3, <3>1
    <3>3. f[m] <= f[n]
      BY <1>3, <2>1, <3>1
    <3>4. QED BY <3>2, <3>3
  <2>2. CASE m = n + 1
    BY <1>1, <2>2
  <2>3. QED BY <1>1, <1>3, <2>1, <2>2
<1>4. Nat \subseteq S
  <2>1. \A n \in Nat : n \in S => n + 1 \in S
    BY <1>3
  <2> HIDE DEF S
  <2>2. QED BY <1>2, <2>1, NatSetInduction
<1>5. QED BY <1>1, <1>4 DEF L
-----------------------------------------------------------------------------
(* e counts the numbers of A off, from the least to the greatest.          *)
Enumerates(e, n, A) ==
    /\ n \in Nat
    /\ e \in [1..n -> A]
    /\ \A j \in 1..n, k \in 1..n : j < k => e[j] < e[k]
    /\ \A a \in A : \E j \in 1..n : e[j] = a

(* There is one way only to do that.                                       *)
LEMMA EnumerationIsUnique ==
    ASSUME NEW A \in SUBSET Nat, NEW d, NEW m, Enumerates(d, m, A),
           NEW e, NEW n, Enumerates(e, n, A)
    PROVE  m = n /\ d = e
<1>1. ASSUME NEW f, NEW g, NEW k, NEW l, Enumerates(f, k, A), Enumerates(g, l, A)
      PROVE  \A i \in 1..k : i \in 1..l /\ f[i] = g[i]
  <2> USE <1>1 DEF Enumerates
  <2>0. /\ k \in Nat /\ l \in Nat
        /\ \A j \in 1..k : j \in Nat /\ f[j] \in Nat
        /\ \A j \in 1..l : j \in Nat /\ g[j] \in Nat
    <3>1. k \in Nat /\ l \in Nat
      OBVIOUS
    <3>2. \A j \in 1..k : j \in Nat /\ f[j] \in A
      OBVIOUS
    <3>3. \A j \in 1..l : j \in Nat /\ g[j] \in A
      OBVIOUS
    <3>4. \A a \in A : a \in Nat
      OBVIOUS
    <3> QED BY ONLY <3>1, <3>2, <3>3, <3>4
  <2> DEFINE B == {i \in 1..k : ~(i \in 1..l /\ f[i] = g[i])}
  <2> SUFFICES ASSUME B # {} PROVE FALSE
    OBVIOUS
  <2>1. PICK i \in B : \A j \in B : i <= j
    <3>1. B \in SUBSET Nat
      OBVIOUS
    <3> HIDE DEF B
    <3>2. QED BY <3>1, LeastElement
  <2>2. \A j \in 1..i - 1 : j \in 1..l /\ f[j] = g[j]
    BY <2>1
  (* f[i] is a g[p], but of none of the first places.                      *)
  <2>3. PICK p \in 1..l : g[p] = f[i]
    OBVIOUS
  <2>4. ~(p < i)
    <3> SUFFICES ASSUME p < i PROVE FALSE
      OBVIOUS
    <3>1. p \in 1..i - 1 /\ p \in 1..k
      OBVIOUS
    <3>2. f[p] = f[i] /\ f[p] < f[i]
      BY <2>2, <2>3, <3>1
    <3>3. f[i] \in Nat
      OBVIOUS
    <3>4. QED BY <3>2, <3>3
  <2>5. i \in 1..l /\ g[i] <= f[i]
    <3>1. i \in 1..l
      BY <2>4
    <3>2. CASE i = p
      BY <2>0, <2>3, <3>1, <3>2
    <3>3. CASE i < p
      <4>1. g[i] < g[p]
        BY <3>1, <3>3
      <4>2. QED BY <2>0, <2>3, <3>1, <4>1
    <3>4. QED BY <2>0, <2>4, <3>1, <3>2, <3>3
  (* And the other way round.                                              *)
  <2>6. PICK q \in 1..k : f[q] = g[i]
    BY <2>5
  <2>7. ~(q < i)
    <3> SUFFICES ASSUME q < i PROVE FALSE
      OBVIOUS
    <3>1. q \in 1..i - 1 /\ q \in 1..l
      BY <2>2
    <3>2. g[q] = g[i] /\ g[q] < g[i]
      BY <2>2, <2>5, <2>6, <3>1
    <3>3. g[i] \in Nat
      BY <2>5
    <3>4. QED BY <3>2, <3>3
  <2>8. f[i] <= g[i]
    <3>1. CASE i = q
      BY <2>0, <2>5, <2>6, <3>1
    <3>2. CASE i < q
      <4>1. f[i] < f[q]
        BY <3>2
      <4>2. QED BY <2>0, <2>5, <2>6, <4>1
    <3>3. QED BY <2>0, <2>7, <3>1, <3>2
  <2>9. f[i] \in Nat /\ g[i] \in Nat
    BY <2>0, <2>5
  <2>10. f[i] = g[i]
    BY <2>5, <2>8, <2>9
  <2>11. QED BY <2>5, <2>10
<1>2. \A i \in 1..m : i \in 1..n /\ d[i] = e[i]
  BY <1>1
<1>3. \A i \in 1..n : i \in 1..m
  BY <1>1
<1>4. m \in Nat /\ n \in Nat /\ d \in [1..m -> A] /\ e \in [1..n -> A]
  BY DEF Enumerates
<1>5. m = n
  <2>1. m > 0 => m \in 1..n
    BY <1>2, <1>4
  <2>2. n > 0 => n \in 1..m
    BY <1>3, <1>4
  <2>3. QED BY <1>4, <2>1, <2>2
<1>6. QED BY <1>2, <1>4, <1>5

(* A greater one comes last.                                               *)
LEMMA EnumerationGrows ==
    ASSUME NEW A \in SUBSET Nat, NEW e, NEW n, Enumerates(e, n, A),
           NEW x \in Nat, \A a \in A : a < x
    PROVE  Enumerates([j \in 1..n + 1 |-> IF j = n + 1 THEN x ELSE e[j]], n + 1, A \cup {x})
<1> DEFINE f == [j \in 1..n + 1 |-> IF j = n + 1 THEN x ELSE e[j]]
<1>1. n \in Nat /\ (\A j \in 1..n : e[j] \in A /\ e[j] \in Nat)
      /\ (\A j \in 1..n, k \in 1..n : j < k => e[j] < e[k])
      /\ \A a \in A : \E j \in 1..n : e[j] = a
  BY DEF Enumerates
<1>2. f[n + 1] = x /\ \A j \in 1..n : f[j] = e[j] /\ j # n + 1
  BY <1>1
<1>3. \A j \in 1..n + 1 : j = n + 1 \/ j \in 1..n
  BY <1>1
<1>4. f \in [1..n + 1 -> A \cup {x}]
  BY <1>1, <1>3
<1> HIDE DEF f
<1>5. \A j \in 1..n + 1, k \in 1..n + 1 : j < k => f[j] < f[k]
  <2> SUFFICES ASSUME NEW j \in 1..n + 1, NEW k \in 1..n + 1, j < k
               PROVE  f[j] < f[k]
    OBVIOUS
  <2>1. j \in 1..n
    BY <1>1
  <2>2. CASE k = n + 1
    BY <1>1, <1>2, <2>1, <2>2
  <2>3. CASE k \in 1..n
    BY <1>1, <1>2, <2>1, <2>3
  <2>4. QED BY <1>3, <2>2, <2>3
<1>6. \A a \in A \cup {x} : \E j \in 1..n + 1 : f[j] = a
  <2>1. n + 1 \in 1..n + 1 /\ \A j \in 1..n : j \in 1..n + 1
    BY <1>1
  <2>2. QED BY <1>1, <1>2, <2>1
<1>7. QED BY <1>1, <1>4, <1>5, <1>6 DEF Enumerates, f

(***************************************************************************)
(* The LRU.                                                                *)
(***************************************************************************)

(* The LRU holds no message twice.                                         *)
Distinct(s) == \A n, k \in 1..Len(s) : s[n] = s[k] => n = k

(* What stands behind the n-th place, and whether D is the tail of s.      *)
After(s, n)  == {s[k] : k \in (n + 1)..Len(s)}
Latest(s, D) == \E n \in 0..Len(s) : D = After(s, n)

(* w is s without its i-th element: it has the same tails but for it.      *)
LeavesOut(S, s, i, w) ==
    /\ w \in Seq(S) /\ Len(w) = Len(s) - 1
    /\ Distinct(w)
    /\ \A k \in 1..(Len(s) - 1) : w[k] # s[i]
    /\ \A n \in 0..Len(s) : n < i => After(w, n) = After(s, n) \ {s[i]}
    /\ \A n \in 0..Len(s) : n >= i => After(w, n - 1) = After(s, n)

(* Without is.                                                             *)
LEMMA WithoutElement ==
    ASSUME NEW S, NEW s \in Seq(S), Distinct(s), NEW i \in 1..Len(s)
    PROVE  LeavesOut(S, s, i, Without(s, i))
<1> DEFINE w == Without(s, i)
<1>1. /\ w \in Seq(S) /\ Len(w) = Len(s) - 1 /\ Len(s) \in Nat
      /\ \A k \in 1..(Len(s) - 1) : w[k] = IF k < i THEN s[k] ELSE s[k + 1]
  BY DEF Without
<1> HIDE DEF w
<1>2. \A k \in 1..(Len(s) - 1) : w[k] # s[i]
  BY <1>1 DEF Distinct
<1>3. Distinct(w)
  <2> SUFFICES ASSUME NEW n \in 1..(Len(s) - 1), NEW k \in 1..(Len(s) - 1), w[n] = w[k]
               PROVE  n = k
    BY <1>1 DEF Distinct
  <2> DEFINE at(x) == IF x < i THEN x ELSE x + 1
  <2>1. at(n) \in 1..Len(s) /\ at(k) \in 1..Len(s) /\ s[at(n)] = s[at(k)]
    BY <1>1
  <2>2. at(n) = at(k)
    BY <2>1 DEF Distinct
  <2>3. QED BY <2>2
<1>4. ASSUME NEW n \in 0..Len(s), n < i
      PROVE  After(w, n) = After(s, n) \ {s[i]}
  <2>1. ASSUME NEW k \in (n + 1)..Len(w)
        PROVE  w[k] \in After(s, n) \ {s[i]}
    <3>1. k \in (n + 1)..Len(s) /\ k + 1 \in (n + 1)..Len(s) /\ k \in 1..(Len(s) - 1)
      BY <1>1
    <3>2. w[k] = s[k] \/ w[k] = s[k + 1]
      BY <1>1, <3>1
    <3>3. QED BY <1>2, <3>1, <3>2 DEF After
  <2>2. ASSUME NEW k \in (n + 1)..Len(s), s[k] # s[i]
        PROVE  s[k] \in After(w, n)
    <3>1. CASE k < i
      <4>1. k \in (n + 1)..Len(w) /\ k \in 1..(Len(s) - 1)
        BY <1>1, <3>1
      <4>2. w[k] = s[k]
        BY <1>1, <3>1, <4>1
      <4>3. QED BY <4>1, <4>2 DEF After
    <3>2. CASE k > i
      <4>1. k - 1 \in (n + 1)..Len(w) /\ k - 1 \in 1..(Len(s) - 1) /\ ~(k - 1 < i) /\ k - 1 + 1 = k
        BY <1>1, <1>4, <3>2
      <4>2. w[k - 1] = s[k]
        BY <1>1, <4>1
      <4>3. QED BY <4>1, <4>2 DEF After
    <3>3. QED BY <1>1, <2>2, <3>1, <3>2
  <2>3. QED BY <2>1, <2>2 DEF After
<1>5. ASSUME NEW n \in 0..Len(s), n >= i
      PROVE  After(w, n - 1) = After(s, n)
  <2>1. ASSUME NEW k \in (n - 1 + 1)..Len(w)
        PROVE  w[k] \in After(s, n)
    <3>1. k + 1 \in (n + 1)..Len(s) /\ k \in 1..(Len(s) - 1) /\ ~(k < i)
      BY <1>1, <1>5
    <3>2. w[k] = s[k + 1]
      BY <1>1, <3>1
    <3>3. QED BY <3>1, <3>2 DEF After
  <2>2. ASSUME NEW k \in (n + 1)..Len(s)
        PROVE  s[k] \in After(w, n - 1)
    <3>1. k - 1 \in (n - 1 + 1)..Len(w) /\ k - 1 \in 1..(Len(s) - 1) /\ ~(k - 1 < i) /\ k - 1 + 1 = k
      BY <1>1, <1>5
    <3>2. w[k - 1] = s[k]
      BY <1>1, <3>1
    <3>3. QED BY <3>1, <3>2 DEF After
  <2>3. QED BY <2>1, <2>2 DEF After
<1>6. QED BY <1>1, <1>2, <1>3, <1>4, <1>5 DEF w, LeavesOut

(* Without its first element, every shorter tail is still there.           *)
LEMMA TailElements ==
    ASSUME NEW S, NEW s \in Seq(S), Distinct(s), Len(s) # 0
    PROVE  /\ Tail(s) \in Seq(S) /\ Len(Tail(s)) = Len(s) - 1
           /\ Distinct(Tail(s))
           /\ \A m : (\A k \in 1..Len(s) : s[k] # m) => \A k \in 1..Len(Tail(s)) : Tail(s)[k] # m
           /\ \A n \in 1..Len(s) : After(Tail(s), n - 1) = After(s, n)
<1>1. /\ Tail(s) \in Seq(S) /\ Len(Tail(s)) = Len(s) - 1 /\ Len(s) \in Nat \ {0}
      /\ \A k \in 1..(Len(s) - 1) : Tail(s)[k] = s[k + 1] /\ k + 1 \in 1..Len(s)
  OBVIOUS
<1>2. Distinct(Tail(s))
  BY <1>1 DEF Distinct
<1>3. ASSUME NEW n \in 1..Len(s)
      PROVE  After(Tail(s), n - 1) = After(s, n)
  <2>1. ASSUME NEW k \in (n - 1 + 1)..Len(Tail(s))
        PROVE  Tail(s)[k] \in After(s, n)
    <3>1. k + 1 \in (n + 1)..Len(s) /\ k \in 1..(Len(s) - 1)
      BY <1>1
    <3>2. QED BY <1>1, <3>1 DEF After
  <2>2. ASSUME NEW k \in (n + 1)..Len(s)
        PROVE  s[k] \in After(Tail(s), n - 1)
    <3>1. k - 1 \in (n - 1 + 1)..Len(Tail(s)) /\ k - 1 \in 1..(Len(s) - 1) /\ k - 1 + 1 = k
      BY <1>1
    <3>2. Tail(s)[k - 1] = s[k]
      BY <1>1, <3>1
    <3>3. QED BY <3>1, <3>2 DEF After
  <2>3. QED BY <2>1, <2>2 DEF After
<1>4. QED BY <1>1, <1>2, <1>3

(* Something new at the end joins every tail.                              *)
LEMMA DistinctAppend ==
    ASSUME NEW S, NEW s \in Seq(S), Distinct(s), NEW m \in S, \A k \in 1..Len(s) : s[k] # m
    PROVE  /\ Distinct(Append(s, m)) /\ Len(Append(s, m)) = Len(s) + 1
           /\ \A n \in 0..Len(s) : After(Append(s, m), n) = After(s, n) \cup {m}
<1>1. /\ Len(Append(s, m)) = Len(s) + 1 /\ Len(s) \in Nat
      /\ \A n \in 1..Len(s) : Append(s, m)[n] = s[n]
      /\ Append(s, m)[Len(s) + 1] = m
  OBVIOUS
<1>2. 1..(Len(s) + 1) = 1..Len(s) \cup {Len(s) + 1}
  BY <1>1
<1>3. Distinct(Append(s, m))
  BY <1>1, <1>2 DEF Distinct
<1>4. ASSUME NEW n \in 0..Len(s)
      PROVE  After(Append(s, m), n) = After(s, n) \cup {m}
  <2>1. (n + 1)..(Len(s) + 1) = (n + 1)..Len(s) \cup {Len(s) + 1}
        /\ \A k \in (n + 1)..Len(s) : k \in 1..Len(s)
    BY <1>1
  <2>2. QED BY <1>1, <2>1 DEF After
<1>5. QED BY <1>1, <1>3, <1>4

(* A sequence without repetitions holds as many messages as it is long.    *)
LEMMA DistinctCount ==
    ASSUME NEW S, NEW s \in Seq(S), Distinct(s)
    PROVE  IsFiniteSet(After(s, 0)) /\ Cardinality(After(s, 0)) = Len(s)
<1> DEFINE f == [k \in 1..Len(s) |-> s[k]]
           T == After(s, 0)
<1>1. IsFiniteSet(1..Len(s)) /\ Cardinality(1..Len(s)) = Len(s) /\ Len(s) \in Nat
  <2>1. ASSUME NEW n \in Nat
        PROVE  IsFiniteSet(1..n) /\ Cardinality(1..n) = n
    <3>1. IsFiniteSet(1..n) /\ Cardinality(1..n) = IF 1 > n THEN 0 ELSE n - 1 + 1
      BY FS_Interval
    <3>2. QED BY <3>1
  <2>2. Len(s) \in Nat
    OBVIOUS
  <2>3. QED BY <2>1, <2>2
<1>2. T = {s[k] : k \in 1..Len(s)}
  BY DEF After
<1> HIDE DEF T
<1>3. f \in Surjection(1..Len(s), T) /\ f \in Injection(1..Len(s), T)
  BY <1>2 DEF Surjection, Injection, IsInjective, Distinct
<1> HIDE DEF f
<1>4. IsFiniteSet(T) /\ Cardinality(T) = Cardinality(1..Len(s))
  BY <1>1, <1>3, FS_Surjection
<1>5. QED BY <1>1, <1>4 DEF T

(* An update of one more message keeps it so: it goes to the end of the    *)
(* LRU, and what is evicted to make room is none of the latest.            *)
LEMMA TouchKeepsLatest ==
    ASSUME NEW cap \in Nat \ {0}, NEW S, NEW lru \in Seq(S), Len(lru) <= cap, Distinct(lru),
           NEW m \in S, NEW D, Latest(lru, D)
    PROVE  /\ Distinct(Touch(lru, m, cap))
           /\ Latest(Touch(lru, m, cap), D \cup {m}) \/ Cardinality(D \cup {m}) > cap
<1>0. PICK n \in 0..Len(lru) : D = After(lru, n)
  BY DEF Latest
<1>a. ASSUME NEW s \in Seq(S), Distinct(s), \A k \in 1..Len(s) : s[k] # m,
             NEW x \in 0..Len(s), After(s, x) \cup {m} = D \cup {m}, Touch(lru, m, cap) = Append(s, m)
      PROVE  Distinct(Touch(lru, m, cap)) /\ Latest(Touch(lru, m, cap), D \cup {m})
  <2>1. /\ Distinct(Append(s, m)) /\ Len(Append(s, m)) = Len(s) + 1
        /\ After(Append(s, m), x) = D \cup {m}
    BY <1>a, DistinctAppend
  <2>2. x \in 0..Len(Append(s, m))
    BY <2>1
  <2>3. QED BY <1>a, <2>1, <2>2 DEF Latest
<1>1. CASE Seen(lru, m)
  <2> DEFINE i == CHOOSE k \in 1..Len(lru) : lru[k] = m
             w == Without(lru, i)
  <2>1. i \in 1..Len(lru) /\ lru[i] = m
    BY <1>1 DEF Seen
  <2>2. Touch(lru, m, cap) = Append(w, m)
    BY <1>1 DEF Touch
  <2> HIDE DEF i
  <2>3. /\ w \in Seq(S) /\ Len(w) = Len(lru) - 1 /\ Distinct(w)
        /\ \A k \in 1..(Len(lru) - 1) : w[k] # lru[i]
        /\ \A x \in 0..Len(lru) : x < i => After(w, x) = After(lru, x) \ {lru[i]}
        /\ \A x \in 0..Len(lru) : x >= i => After(w, x - 1) = After(lru, x)
    <3>1. LeavesOut(S, lru, i, w)
      BY <2>1, WithoutElement
    <3> HIDE DEF w
    <3>2. QED BY <3>1 DEF LeavesOut
  <2> HIDE DEF w
  <2>4. \A k \in 1..Len(w) : w[k] # m
    BY <2>1, <2>3
  <2>5. CASE n < i
    <3>1. n \in 0..Len(w)
      BY <2>1, <2>3, <2>5
    <3>2. After(w, n) \cup {m} = D \cup {m}
      BY <1>0, <2>1, <2>3, <2>5
    <3>3. QED BY <1>a, <2>2, <2>3, <2>4, <3>1, <3>2
  <2>6. CASE n >= i
    <3>1. n - 1 \in 0..Len(w)
      BY <2>1, <2>3, <2>6
    <3>2. After(w, n - 1) \cup {m} = D \cup {m}
      BY <1>0, <2>3, <2>6
    <3>3. QED BY <1>a, <2>2, <2>3, <2>4, <3>1, <3>2
  <2>7. QED BY <2>1, <2>5, <2>6
<1>2. CASE ~Seen(lru, m)
  <2>1. \A k \in 1..Len(lru) : lru[k] # m
    BY <1>2 DEF Seen
  <2>2. CASE Len(lru) # cap
    <3>1. Touch(lru, m, cap) = Append(lru, m)
      BY <1>2, <2>2 DEF Touch
    <3>2. QED BY <1>0, <1>a, <2>1, <3>1
  <2>3. CASE Len(lru) = cap
    <3>1. /\ Tail(lru) \in Seq(S) /\ Len(Tail(lru)) = Len(lru) - 1
          /\ Distinct(Tail(lru))
          /\ \A k \in 1..Len(Tail(lru)) : Tail(lru)[k] # m
          /\ \A x \in 1..Len(lru) : After(Tail(lru), x - 1) = After(lru, x)
      BY <2>1, <2>3, TailElements
    <3>2. Touch(lru, m, cap) = Append(Tail(lru), m)
      BY <1>2, <2>3 DEF Touch
    <3>3. CASE n = 0
      <4>1. IsFiniteSet(D) /\ Cardinality(D) = cap
        BY <1>0, <2>3, <3>3, DistinctCount
      <4>2. m \notin D
        BY <1>0, <2>1, <3>3 DEF After
      <4>3. Cardinality(D \cup {m}) = cap + 1
        BY <4>1, <4>2, FS_AddElement
      <4>4. Distinct(Append(Tail(lru), m))
        BY <3>1, DistinctAppend
      <4>5. QED BY <3>2, <4>3, <4>4
    <3>4. CASE n # 0
      <4>1. n \in 1..Len(lru) /\ n - 1 \in 0..Len(Tail(lru))
        BY <3>1, <3>4
      <4>2. After(Tail(lru), n - 1) \cup {m} = D \cup {m}
        BY <1>0, <3>1, <4>1
      <4>3. QED BY <1>a, <3>1, <3>2, <4>1, <4>2
    <3>5. QED BY <3>3, <3>4
  <2>4. QED BY <2>2, <2>3
<1>3. QED BY <1>1, <1>2


(* Touch keeps a sequence of messages within its capacity.                 *)
LEMMA TouchType ==
    ASSUME NEW cap \in Nat \ {0}, NEW S, NEW lru \in Seq(S), Len(lru) <= cap, NEW m \in S
    PROVE  Touch(lru, m, cap) \in Seq(S) /\ Len(Touch(lru, m, cap)) <= cap
<1>1. CASE Seen(lru, m)
  <2> DEFINE i == CHOOSE k \in 1..Len(lru) : lru[k] = m
             w == Without(lru, i)
  <2>1. i \in 1..Len(lru)
    BY <1>1 DEF Seen
  <2>2. w \in Seq(S) /\ Len(w) = Len(lru) - 1
    BY <2>1 DEF Without
  <2>3. Touch(lru, m, cap) = Append(w, m)
    BY <1>1 DEF Touch
  <2> HIDE DEF w
  <2>4. QED BY <2>2, <2>3
<1>2. CASE ~Seen(lru, m)
  BY <1>2 DEF Touch
<1>3. QED BY <1>1, <1>2

(* What the LRU holds was heard of, and at each place stands what was      *)
(* heard of before all that is behind it.                                  *)
Recalls(lru, heard, c) ==
    \A x \in 1..Len(lru) : \E k \in 1..c :
        heard[k] = lru[x] /\ Burst(heard, k, c) = After(lru, x - 1)

(* One update more makes a burst larger by its message, if by anything.    *)
LEMMA BurstGrows ==
    ASSUME NEW heard, NEW k \in Nat, NEW c \in Nat, k <= c
    PROVE  /\ Burst(heard, k, c + 1) = Burst(heard, k, c) \cup {heard[c + 1]}
           /\ IsFiniteSet(Burst(heard, k, c)) /\ Cardinality(Burst(heard, k, c)) \in Nat
           /\ Cardinality(Burst(heard, k, c + 1)) >= Cardinality(Burst(heard, k, c))
<1> DEFINE T == Burst(heard, k, c)
           f == [x \in k..c |-> heard[x]]
           m == heard[c + 1]
<1>1. Burst(heard, k, c + 1) = T \cup {m}
  <2>1. k..(c + 1) = k..c \cup {c + 1}
    OBVIOUS
  <2>2. QED BY <2>1 DEF Burst
<1>2. IsFiniteSet(T)
  <2>1. f \in [k..c -> T] /\ \A t \in T : \E x \in k..c : f[x] = t
    BY DEF Burst
  <2>2. IsFiniteSet(k..c)
    BY FS_Interval
  <2> HIDE DEF f, T
  <2>3. f \in Surjection(k..c, T)
    BY <2>1 DEF Surjection
  <2>4. QED BY <2>2, <2>3, FS_Surjection
<1> HIDE DEF T, m
<1>3. Cardinality(T) \in Nat
  BY <1>2, FS_CardinalityType
<1>4. Cardinality(T \cup {m}) = IF m \in T THEN Cardinality(T) ELSE Cardinality(T) + 1
  BY <1>2, FS_AddElement
<1>5. Cardinality(T \cup {m}) >= Cardinality(T)
  BY <1>3, <1>4
<1>6. QED BY <1>1, <1>2, <1>3, <1>5 DEF T, m

(* Hearing of one more message keeps it so.                                *)
LEMMA RecallsOn ==
    ASSUME NEW cap \in Nat \ {0}, NEW S, NEW lru \in Seq(S), Len(lru) <= cap, Distinct(lru),
           NEW heard, NEW c \in Nat, heard[c + 1] \in S, Recalls(lru, heard, c)
    PROVE  Recalls(Touch(lru, heard[c + 1], cap), heard, c + 1)
<1> DEFINE m == heard[c + 1]
<1>0. m \in S
  OBVIOUS
<1>a. ASSUME NEW s \in Seq(S), Distinct(s), \A k \in 1..Len(s) : s[k] # m,
             Touch(lru, m, cap) = Append(s, m),
             \A y \in 1..Len(s) : \E x \in 1..Len(lru) :
                 s[y] = lru[x] /\ After(s, y - 1) \cup {m} = After(lru, x - 1) \cup {m}
      PROVE  Recalls(Touch(lru, m, cap), heard, c + 1)
  <2> DEFINE t == Append(s, m)
  <2>1. /\ Len(t) = Len(s) + 1 /\ Len(s) \in Nat /\ t[Len(s) + 1] = m
        /\ \A y \in 1..Len(s) : t[y] = s[y]
    OBVIOUS
  <2>2. \A n \in 0..Len(s) : After(t, n) = After(s, n) \cup {m}
    BY <1>0, <1>a, DistinctAppend
  <2> HIDE DEF t
  <2>3. ASSUME NEW y \in 1..Len(t)
        PROVE  \E k \in 1..(c + 1) : heard[k] = t[y] /\ Burst(heard, k, c + 1) = After(t, y - 1)
    <3>1. CASE y = Len(s) + 1
      <4>1. After(s, Len(s)) = {} /\ Len(s) \in 0..Len(s) /\ y - 1 = Len(s)
        BY <2>1, <3>1 DEF After
      <4>2. After(t, y - 1) = {m}
        BY <2>2, <4>1
      <4>3. Burst(heard, c + 1, c + 1) = {m} /\ c + 1 \in 1..(c + 1)
        BY DEF Burst
      <4>4. t[y] = heard[c + 1]
        BY <2>1, <3>1
      <4>5. QED BY <4>2, <4>3, <4>4
    <3>2. CASE y # Len(s) + 1
      <4>1. y \in 1..Len(s) /\ y - 1 \in 0..Len(s)
        BY <2>1, <3>2
      <4>2. PICK x \in 1..Len(lru) : /\ s[y] = lru[x]
                                     /\ After(s, y - 1) \cup {m} = After(lru, x - 1) \cup {m}
        BY <1>a, <4>1
      <4>3. PICK k \in 1..c : heard[k] = lru[x] /\ Burst(heard, k, c) = After(lru, x - 1)
        BY DEF Recalls
      <4>4. k \in Nat /\ k <= c /\ k \in 1..(c + 1)
        OBVIOUS
      <4>5. Burst(heard, k, c + 1) = Burst(heard, k, c) \cup {m}
        BY <4>4, BurstGrows
      <4>6. After(t, y - 1) = After(s, y - 1) \cup {m}
        BY <2>2, <4>1
      <4>7. t[y] = heard[k]
        BY <2>1, <4>1, <4>2, <4>3
      <4>8. QED BY <4>2, <4>3, <4>4, <4>5, <4>6, <4>7
    <3>3. QED BY <3>1, <3>2
  <2>4. QED BY <1>a, <2>3 DEF Recalls, t
<1> HIDE DEF m
<1>1. CASE Seen(lru, m)
  <2> DEFINE i == CHOOSE k \in 1..Len(lru) : lru[k] = m
             w == Without(lru, i)
  <2>1. i \in 1..Len(lru) /\ lru[i] = m
    BY <1>1 DEF Seen
  <2>2. Touch(lru, m, cap) = Append(w, m)
    BY <1>1 DEF Touch
  <2>3. \A k \in 1..(Len(lru) - 1) : w[k] = IF k < i THEN lru[k] ELSE lru[k + 1]
    BY DEF Without
  <2> HIDE DEF i
  <2>4. /\ w \in Seq(S) /\ Len(w) = Len(lru) - 1 /\ Distinct(w)
        /\ \A k \in 1..(Len(lru) - 1) : w[k] # lru[i]
        /\ \A x \in 0..Len(lru) : x < i => After(w, x) = After(lru, x) \ {lru[i]}
        /\ \A x \in 0..Len(lru) : x >= i => After(w, x - 1) = After(lru, x)
    <3>1. LeavesOut(S, lru, i, w)
      BY <2>1, WithoutElement
    <3> HIDE DEF w
    <3>2. QED BY <3>1 DEF LeavesOut
  <2> HIDE DEF w
  <2>5. ASSUME NEW y \in 1..Len(w)
        PROVE  \E x \in 1..Len(lru) :
                 w[y] = lru[x] /\ After(w, y - 1) \cup {m} = After(lru, x - 1) \cup {m}
    <3>1. CASE y < i
      <4>1. /\ y \in 1..Len(lru) /\ y \in 1..(Len(lru) - 1)
            /\ y - 1 \in 0..Len(lru) /\ y - 1 < i
        BY <2>1, <2>4, <3>1
      <4>2. w[y] = lru[y] /\ After(w, y - 1) = After(lru, y - 1) \ {m}
        BY <2>1, <2>3, <2>4, <3>1, <4>1
      <4>3. QED BY <4>1, <4>2
    <3>2. CASE ~(y < i)
      <4>1. /\ y + 1 \in 1..Len(lru) /\ y \in 1..(Len(lru) - 1)
            /\ y \in 0..Len(lru) /\ y >= i /\ y + 1 - 1 = y
        BY <2>1, <2>4, <3>2
      <4>2. w[y] = lru[y + 1] /\ After(w, y - 1) = After(lru, y)
        BY <2>3, <2>4, <3>2, <4>1
      <4>3. QED BY <4>1, <4>2
    <3>3. QED BY <3>1, <3>2
  <2>6. \A k \in 1..Len(w) : w[k] # m
    BY <2>1, <2>4
  <2>7. QED BY <1>a, <2>2, <2>4, <2>5, <2>6 DEF m
<1>2. CASE ~Seen(lru, m) /\ Len(lru) # cap
  <2>1. \A k \in 1..Len(lru) : lru[k] # m
    BY <1>2 DEF Seen
  <2>2. Touch(lru, m, cap) = Append(lru, m)
    BY <1>2 DEF Touch
  <2>3. QED BY <1>a, <2>1, <2>2 DEF m
<1>3. CASE ~Seen(lru, m) /\ Len(lru) = cap
  <2>1. \A k \in 1..Len(lru) : lru[k] # m
    BY <1>3 DEF Seen
  <2>2. Touch(lru, m, cap) = Append(Tail(lru), m)
    BY <1>3 DEF Touch
  <2> DEFINE w == Tail(lru)
  <2>3. /\ w \in Seq(S) /\ Len(w) = Len(lru) - 1 /\ Distinct(w)
        /\ \A k \in 1..Len(w) : w[k] # m
        /\ \A x \in 1..Len(lru) : After(w, x - 1) = After(lru, x)
    BY <1>3, <2>1, TailElements
  <2>4. \A k \in 1..(Len(lru) - 1) : w[k] = lru[k + 1]
    BY <1>3
  <2> HIDE DEF w
  <2>5. ASSUME NEW y \in 1..Len(w)
        PROVE  \E x \in 1..Len(lru) :
                 w[y] = lru[x] /\ After(w, y - 1) \cup {m} = After(lru, x - 1) \cup {m}
    <3>1. /\ y + 1 \in 1..Len(lru) /\ y \in 1..Len(lru) /\ y \in 1..(Len(lru) - 1)
          /\ y + 1 - 1 = y
      BY <2>3
    <3>2. w[y] = lru[y + 1] /\ After(w, y - 1) = After(lru, y)
      BY <2>3, <2>4, <3>1
    <3>3. QED BY <3>1, <3>2
  <2>6. QED BY <1>a, <2>2, <2>3, <2>5 DEF w, m
<1>4. QED BY <1>1, <1>2, <1>3 DEF m

(* The messages D were the latest, or were too many to hold.               *)
Retained(lru, D, cap) == Latest(lru, D) \/ Cardinality(D) > cap

(* An update keeps the messages since the k-th one in the LRU, or there    *)
(* are too many of them.                                                   *)
LEMMA RetainedOn ==
    ASSUME NEW cap \in Nat \ {0}, NEW S, NEW lru \in Seq(S), Len(lru) <= cap, Distinct(lru),
           NEW heard, NEW c \in Nat, heard[c + 1] \in S,
           NEW k \in 1..(c + 1), k <= c => Retained(lru, Burst(heard, k, c), cap)
    PROVE  /\ Retained(Touch(lru, heard[c + 1], cap), Burst(heard, k, c + 1), cap)
           /\ Distinct(Touch(lru, heard[c + 1], cap))
<1> DEFINE m == heard[c + 1]
           t == Touch(lru, m, cap)
<1>0. m \in S
  OBVIOUS
<1> HIDE DEF m
<1>1. ASSUME NEW D, Latest(lru, D)
      PROVE  Distinct(t) /\ Retained(t, D \cup {m}, cap)
  BY <1>0, <1>1, TouchKeepsLatest DEF Retained
<1> HIDE DEF t
<1>2. Latest(lru, {})
  <2>1. After(lru, Len(lru)) = {} /\ Len(lru) \in 0..Len(lru)
    BY DEF After
  <2>2. QED BY <2>1 DEF Latest
<1>3. Distinct(t)
  BY <1>1, <1>2
<1>4. Retained(t, Burst(heard, k, c + 1), cap)
  <2>1. CASE k = c + 1
    <3>1. Burst(heard, k, c + 1) = {} \cup {m}
      BY <2>1 DEF Burst, m
    <3>2. QED BY <1>1, <1>2, <3>1
  <2>2. CASE k <= c
    <3> k \in Nat
      OBVIOUS
    <3>1. Burst(heard, k, c + 1) = Burst(heard, k, c) \cup {m}
      BY <2>2, BurstGrows DEF m
    <3>2. CASE Latest(lru, Burst(heard, k, c))
      BY <1>1, <3>1, <3>2
    <3>3. CASE Cardinality(Burst(heard, k, c)) > cap
      <4>1. /\ Cardinality(Burst(heard, k, c)) \in Nat
            /\ Cardinality(Burst(heard, k, c + 1)) >= Cardinality(Burst(heard, k, c))
        BY <2>2, BurstGrows
      <4>2. Cardinality(Burst(heard, k, c + 1)) \in Nat
        <5>1. k \in Nat /\ c + 1 \in Nat /\ k <= c + 1
          BY <2>2
        <5>2. QED BY <5>1, BurstGrows
      <4>3. Cardinality(Burst(heard, k, c + 1)) > cap
        BY <3>3, <4>1, <4>2
      <4>4. QED BY <4>3 DEF Retained
    <3>4. QED BY <2>2, <3>2, <3>3 DEF Retained
  <2>3. QED BY <2>1, <2>2
<1>5. QED BY <1>3, <1>4 DEF t, m

(* What the LRU knows is no news.                                          *)
LEMMA SeenIsNoNews ==
    ASSUME NEW cap \in Nat \ {0}, NEW S, NEW lru \in Seq(S), Len(lru) <= cap, Distinct(lru),
           NEW heard, NEW c \in Nat, Recalls(lru, heard, c), Seen(lru, heard[c + 1])
    PROVE  ~News(heard, c + 1, cap)
<1>1. PICK x \in 1..Len(lru) : lru[x] = heard[c + 1]
  BY DEF Seen
<1>2. PICK k \in 1..c : heard[k] = lru[x] /\ Burst(heard, k, c) = After(lru, x - 1)
  BY DEF Recalls
<1> DEFINE T == After(lru, x - 1)
<1>3. IsFiniteSet(After(lru, 0)) /\ Cardinality(After(lru, 0)) = Len(lru)
  BY DistinctCount
<1>4. T \subseteq After(lru, 0)
  BY DEF After
<1> HIDE DEF T
<1>5. Cardinality(T) <= Len(lru) /\ Cardinality(T) \in Nat
  BY <1>3, <1>4, FS_Subset, FS_CardinalityType
<1>6. /\ ~(Cardinality(Burst(heard, k, c)) > cap)
      /\ k \in 1..(c + 1 - 1) /\ c + 1 - 1 = c
  BY <1>2, <1>5 DEF T
<1>7. QED BY <1>1, <1>2, <1>6 DEF News

(* What it does not know has become news.                                  *)
LEMMA UnseenIsNews ==
    ASSUME NEW cap \in Nat \ {0}, NEW lru, Len(lru) \in Nat,
           NEW heard, NEW c \in Nat, NEW k \in 1..c, Retained(lru, Burst(heard, k, c), cap),
           NEW m, heard[k] = m, ~Seen(lru, m)
    PROVE  Cardinality(Burst(heard, k, c)) > cap
<1>1. m \in Burst(heard, k, c)
  <2>1. k \in k..c
    OBVIOUS
  <2>2. QED BY <2>1 DEF Burst
<1>2. ~Latest(lru, Burst(heard, k, c))
  <2>1. ASSUME NEW n \in 0..Len(lru), NEW x \in (n + 1)..Len(lru)
        PROVE  x \in 1..Len(lru)
    OBVIOUS
  <2>2. QED BY <1>1, <2>1 DEF Latest, After, Seen
<1>3. QED BY <1>2 DEF Retained
(* Two streams that agree on the first n messages have the same bursts and *)
(* the same news among them, and what is recalled of the one is so of the  *)
(* other.                                                                  *)
LEMMA SamePast ==
    ASSUME NEW g, NEW h, NEW n \in Nat, \A k \in 1..n : g[k] = h[k], NEW cap, NEW lru
    PROVE  /\ \A a \in 1..n, b \in 0..n : Burst(g, a, b) = Burst(h, a, b)
           /\ \A i \in 1..n : News(g, i, cap) <=> News(h, i, cap)
           /\ \A c \in 0..n : Recalls(lru, h, c) => Recalls(lru, g, c)
<1>1. ASSUME NEW a \in 1..n, NEW b \in 0..n
      PROVE  Burst(g, a, b) = Burst(h, a, b)
  <2>1. \A k \in a..b : k \in 1..n
    OBVIOUS
  <2>2. QED BY <2>1 DEF Burst
<1>2. ASSUME NEW i \in 1..n
      PROVE  News(g, i, cap) <=> News(h, i, cap)
  <2>1. i - 1 \in 0..n /\ \A k \in 1..(i - 1) : k \in 1..n
    OBVIOUS
  <2>2. \A k \in 1..(i - 1) : Burst(g, k, i - 1) = Burst(h, k, i - 1) /\ g[k] = h[k]
    BY <1>1, <2>1
  <2>3. g[i] = h[i]
    OBVIOUS
  <2>4. QED BY <2>2, <2>3 DEF News
<1>3. ASSUME NEW c \in 0..n, Recalls(lru, h, c)
      PROVE  Recalls(lru, g, c)
  <2>1. \A k \in 1..c : k \in 1..n
    OBVIOUS
  <2>2. \A k \in 1..c : Burst(g, k, c) = Burst(h, k, c) /\ g[k] = h[k]
    BY <1>1, <2>1
  <2>3. QED BY <1>3, <2>2 DEF Recalls
<1>4. QED BY <1>1, <1>2, <1>3
=============================================================================

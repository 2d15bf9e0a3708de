----------------------------- MODULE FoldLemmas -----------------------------
(***************************************************************************)
(* Induction and recursion over data.  The induction theorems of the       *)
(* library quantify over a predicate; the lemmas of this module say the    *)
(* same of the set of the values that satisfy it, and derive what the      *)
(* folds and the sums of the community modules compute.                    *)
(***************************************************************************)
EXTENDS Integers, Sequences, Functions, FiniteSetsExt, FiniteSetTheorems, TLAPS

\* A set of naturals that has an element has a least one.
LEMMA LeastElement ==
  ASSUME NEW S \in SUBSET Nat, S # {}
  PROVE  \E x \in S : \A y \in S : x <= y
<1> DEFINE R == OpToRel(<, Nat)
<1>1. IsWellFoundedOn(R, Nat)
  BY NatLessThanWellFounded
<1>2. \A x, y \in Nat : <<y, x>> \in R <=> y < x
  BY DEF OpToRel
<1> HIDE DEF R
<1>3. PICK x \in S : \A y \in S : ~ (<<y, x>> \in R)
  BY <1>1, WFMin
<1>4. ASSUME NEW y \in S PROVE x <= y
  <2>1. x \in Nat /\ y \in Nat
    OBVIOUS
  <2>2. ~ (y < x)
    BY <1>2, <1>3, <2>1
  <2> QED
    BY <2>1, <2>2
<1> QED
  BY <1>4

\* Induction over the naturals, of the set of those that have a property.
LEMMA NatSetInduction ==
  ASSUME NEW S, 0 \in S, \A k \in Nat : k \in S => k + 1 \in S
  PROVE  Nat \subseteq S
<1> SUFFICES ASSUME Nat \ S # {} PROVE FALSE
  OBVIOUS
<1>1. PICK x \in Nat \ S : \A y \in Nat \ S : x <= y
  BY LeastElement
<1>2. x - 1 \in Nat /\ x - 1 \in S
  BY <1>1
<1> QED
  BY <1>1, <1>2

\* Induction over the finite subsets of a set, one element at a time.
LEMMA SubsetInduction ==
  ASSUME NEW S, IsFiniteSet(S), NEW F,
         {} \in F,
         \A T \in SUBSET S : \A x \in S \ T : T \in F => T \cup {x} \in F
  PROVE  SUBSET S \subseteq F
<1> DEFINE P == {k \in Nat : \A T \in SUBSET S : Cardinality(T) = k => T \in F}
<1>1. 0 \in P
  <2>1. ASSUME NEW T \in SUBSET S, Cardinality(T) = 0 PROVE T \in F
    <3>1. T = {}
      BY <2>1, FS_Subset, FS_EmptySet
    <3> QED
      BY <3>1
  <2> QED
    BY <2>1
<1>2. ASSUME NEW k \in Nat, k \in P PROVE k + 1 \in P
  <2> SUFFICES ASSUME NEW T \in SUBSET S, Cardinality(T) = k + 1 PROVE T \in F
    OBVIOUS
  <2>1. IsFiniteSet(T) /\ T # {}
    BY FS_Subset, FS_EmptySet
  <2>2. PICK x \in T : TRUE
    BY <2>1
  <2>3. T \ {x} \in SUBSET S /\ Cardinality(T \ {x}) = k
    <3>1. Cardinality(T \ {x}) = Cardinality(T) - 1
      BY <2>1, FS_RemoveElement
    <3> QED
      BY <3>1
  <2>4. T \ {x} \in F /\ x \in S \ (T \ {x})
    BY <1>2, <2>2, <2>3
  <2>5. (T \ {x}) \cup {x} \in F
    BY <2>3, <2>4
  <2>6. (T \ {x}) \cup {x} = T
    BY <2>2
  <2> QED
    BY <2>5, <2>6
<1> HIDE DEF P
<1>3. Nat \subseteq P
  BY <1>1, <1>2, NatSetInduction
<1>4. ASSUME NEW T \in SUBSET S PROVE T \in F
  <2>1. Cardinality(T) \in Nat
    BY FS_Subset, FS_CardinalityType
  <2> QED
    BY <1>3, <2>1 DEF P
<1> QED
  BY <1>4

\* A finite set of naturals that has an element has a greatest one.
LEMMA GreatestElement ==
  ASSUME NEW S \in SUBSET Nat, IsFiniteSet(S), S # {}
  PROVE  \E x \in S : \A y \in S : y <= x
<1> DEFINE F == {T \in SUBSET S : T = {} \/ \E x \in T : \A y \in T : y <= x}
<1>1. {} \in F
  OBVIOUS
<1>2. ASSUME NEW T \in SUBSET S, NEW e \in S \ T, T \in F PROVE T \cup {e} \in F
  <2>1. CASE T = {}
    BY <2>1
  <2>2. CASE \E x \in T : \A y \in T : y <= x
    <3>1. PICK x \in T : \A y \in T : y <= x
      BY <2>2
    <3>2. CASE e <= x
      BY <3>1, <3>2
    <3>3. CASE ~ (e <= x)
      <4>1. \A y \in T \cup {e} : y <= e
        BY <3>1, <3>3
      <4> QED
        BY <4>1
    <3> QED
      BY <3>2, <3>3
  <2> QED
    BY <1>2, <2>1, <2>2
<1> HIDE DEF F
<1>3. S \in F
  BY <1>1, <1>2, SubsetInduction
<1> QED
  BY <1>3 DEF F

-----------------------------------------------------------------------------
(* Folds *)

\* A fold, as far as sets of at most k elements: fold[s] is made of the element
\* of s that is chosen first and of the fold of the others.
FoldsUpTo(fold, D, V, base, step, choice, k) ==
  /\ fold \in [SUBSET D -> V]
  /\ fold[{}] = base
  /\ \A s \in (SUBSET D) \ {{}} :
       Cardinality(s) <= k => fold[s] = step[choice[s]][fold[s \ {choice[s]}]]

IsFold(fold, D, V, base, step, choice) ==
  FoldsUpTo(fold, D, V, base, step, choice, Cardinality(D))

\* The fold takes an element of every set.
IsChoice(choice, D) == \A s \in (SUBSET D) \ {{}} : choice[s] \in s

LEMMA SubsetsOfFinite ==
  ASSUME NEW D, IsFiniteSet(D),
         NEW choice, IsChoice(choice, D)
  PROVE  /\ \A s \in SUBSET D :
              /\ IsFiniteSet(s) /\ Cardinality(s) \in Nat
              /\ Cardinality(s) = 0 <=> s = {}
              /\ Cardinality(s) <= Cardinality(D)
         /\ \A s \in (SUBSET D) \ {{}} :
              /\ choice[s] \in D
              /\ s \ {choice[s]} \in SUBSET D
              /\ Cardinality(s \ {choice[s]}) = Cardinality(s) - 1
<1> USE DEF IsChoice
<1>1. \A s \in SUBSET D :
         /\ IsFiniteSet(s) /\ Cardinality(s) \in Nat
         /\ Cardinality(s) = 0 <=> s = {}
         /\ Cardinality(s) <= Cardinality(D)
  BY FS_Subset, FS_CardinalityType, FS_EmptySet
<1>2. \A s \in (SUBSET D) \ {{}} :
         /\ choice[s] \in D
         /\ s \ {choice[s]} \in SUBSET D
         /\ Cardinality(s \ {choice[s]}) = Cardinality(s) - 1
  BY <1>1, FS_RemoveElement
<1> QED
  BY <1>1, <1>2

\* There is such a fold over a finite set.
LEMMA FoldExists ==
  ASSUME NEW D, IsFiniteSet(D), NEW V, NEW base \in V,
         NEW step \in [D -> [V -> V]],
         NEW choice, IsChoice(choice, D)
  PROVE  \E fold : IsFold(fold, D, V, base, step, choice)
<1> USE DEF IsChoice
<1> DEFINE P == {k \in Nat : \E fold : FoldsUpTo(fold, D, V, base, step, choice, k)}
<1> HIDE DEF P
<1>1. 0 \in P
  <2> DEFINE none == [s \in SUBSET D |-> base]
  <2>1. none \in [SUBSET D -> V] /\ none[{}] = base
    OBVIOUS
  <2>2. \A s \in (SUBSET D) \ {{}} : ~ (Cardinality(s) <= 0)
    BY SubsetsOfFinite
  <2> HIDE DEF none
  <2>3. FoldsUpTo(none, D, V, base, step, choice, 0)
    BY <2>1, <2>2 DEF FoldsUpTo
  <2> QED
    BY <2>3 DEF P
<1>2. ASSUME NEW k \in Nat, k \in P PROVE k + 1 \in P
  <2>1. PICK fold : FoldsUpTo(fold, D, V, base, step, choice, k)
    BY <1>2 DEF P
  <2> DEFINE value(s) == IF Cardinality(s) <= k THEN fold[s]
                         ELSE step[choice[s]][fold[s \ {choice[s]}]]
             more == [s \in SUBSET D |-> value(s)]
  <2>2. ASSUME NEW s \in SUBSET D PROVE value(s) \in V
    <3>1. CASE Cardinality(s) <= k
      BY <2>1, <3>1 DEF FoldsUpTo
    <3>2. CASE ~ (Cardinality(s) <= k)
      <4>1. s # {}
        BY <3>2, SubsetsOfFinite
      <4>2. choice[s] \in D /\ s \ {choice[s]} \in SUBSET D
        BY <4>1
      <4>3. fold[s \ {choice[s]}] \in V
        BY <2>1, <4>2 DEF FoldsUpTo
      <4>4. step[choice[s]] \in [V -> V]
        BY <4>2
      <4>5. step[choice[s]][fold[s \ {choice[s]}]] \in V
        BY <4>3, <4>4
      <4> QED
        BY <3>2, <4>5
    <3> QED
      BY <3>1, <3>2
  <2>3. value({}) = base
    <3>1. Cardinality({}) <= k
      BY FS_EmptySet
    <3> QED
      BY <2>1, <3>1 DEF FoldsUpTo
  <2>4. ASSUME NEW s \in (SUBSET D) \ {{}}, Cardinality(s) <= k + 1
        PROVE  value(s) = step[choice[s]][value(s \ {choice[s]})]
    <3>1. Cardinality(s) \in Nat /\ Cardinality(s \ {choice[s]}) = Cardinality(s) - 1
      BY SubsetsOfFinite
    <3>2. Cardinality(s \ {choice[s]}) <= k
      BY <2>4, <3>1
    <3>3. value(s \ {choice[s]}) = fold[s \ {choice[s]}]
      BY <3>2
    <3> QED
      BY <2>1, <3>3 DEF FoldsUpTo
  <2> HIDE DEF value
  <2>5. /\ more \in [SUBSET D -> V]
        /\ more[{}] = base
        /\ \A s \in SUBSET D : more[s] = value(s)
        /\ \A s \in (SUBSET D) \ {{}} : more[s \ {choice[s]}] = value(s \ {choice[s]})
    BY <2>2, <2>3
  <2> HIDE DEF more
  <2>6. FoldsUpTo(more, D, V, base, step, choice, k + 1)
    BY <2>4, <2>5 DEF FoldsUpTo
  <2> QED
    BY <2>6 DEF P
<1>3. Cardinality(D) \in P
  BY <1>1, <1>2, NatSetInduction, FS_CardinalityType
<1> QED
  BY <1>3 DEF P, IsFold

FollowsFromLess(f, g, D, choice) ==
  \A s \in (SUBSET D) \ {{}} :
     f[s \ {choice[s]}] = g[s \ {choice[s]}] => f[s] = g[s]

\* Two folds are the same where each value follows from that of a smaller set.
LEMMA FoldUnique ==
  ASSUME NEW D, IsFiniteSet(D),
         NEW choice, IsChoice(choice, D),
         NEW f, NEW g, f[{}] = g[{}], FollowsFromLess(f, g, D, choice)
  PROVE  \A s \in SUBSET D : f[s] = g[s]
<1> USE DEF IsChoice, FollowsFromLess
<1> DEFINE P == {k \in Nat : \A s \in SUBSET D : Cardinality(s) = k => f[s] = g[s]}
<1>1. 0 \in P
  <2>1. \A s \in SUBSET D : Cardinality(s) = 0 => s = {}
    BY SubsetsOfFinite
  <2> QED
    BY <2>1
<1>2. ASSUME NEW k \in Nat, k \in P PROVE k + 1 \in P
  <2> SUFFICES ASSUME NEW s \in SUBSET D, Cardinality(s) = k + 1 PROVE f[s] = g[s]
    OBVIOUS
  <2>1. s # {}
    BY SubsetsOfFinite
  <2>2. s \ {choice[s]} \in SUBSET D /\ Cardinality(s \ {choice[s]}) = k
    BY <2>1, SubsetsOfFinite
  <2>3. f[s \ {choice[s]}] = g[s \ {choice[s]}]
    BY <1>2, <2>2
  <2> QED
    BY <2>1, <2>3
<1> HIDE DEF P
<1>3. Nat \subseteq P
  BY <1>1, <1>2, NatSetInduction
<1>4. \A s \in SUBSET D : Cardinality(s) \in Nat
  BY SubsetsOfFinite
<1> QED
  BY <1>3, <1>4 DEF P

-----------------------------------------------------------------------------
(* A left fold of a sequence is a fold of its positions, the last one first *)

LEMMA MaxOf ==
  ASSUME NEW S \in SUBSET Nat, S # {}, IsFiniteSet(S)
  PROVE  Max(S) \in S /\ \A y \in S : y <= Max(S)
BY GreatestElement DEF Max

Latest(n) == [s \in (SUBSET (1 .. n)) \ {{}} |-> Max(s)]

LEMMA LatestIs ==
  ASSUME NEW n \in Nat
  PROVE  /\ IsFiniteSet(1 .. n)
         /\ \A s \in (SUBSET (1 .. n)) \ {{}} : Latest(n)[s] = Max(s) /\ Max(s) \in s
         /\ IsChoice(Latest(n), 1 .. n)
         /\ Max(1 .. n + 1) = n + 1
<1>1. \A m \in Nat : IsFiniteSet(1 .. m)
  BY FS_Interval
<1>2. ASSUME NEW s \in (SUBSET (1 .. n)) \ {{}} PROVE Max(s) \in s
  <2>1. IsFiniteSet(1 .. n) /\ s \in SUBSET (1 .. n) /\ s \in SUBSET Nat /\ s # {}
    BY <1>1
  <2>2. IsFiniteSet(s)
    BY <2>1, FS_Subset
  <2> QED
    BY <2>1, <2>2, MaxOf
<1>3. Max(1 .. n + 1) = n + 1
  <2> DEFINE S == 1 .. n + 1
  <2>1. S \in SUBSET Nat /\ S # {} /\ IsFiniteSet(S) /\ n + 1 \in S
    <3>1. n + 1 \in Nat /\ n + 1 \in S /\ S \in SUBSET Nat
      OBVIOUS
    <3>2. IsFiniteSet(S)
      BY <1>1, <3>1
    <3> HIDE DEF S
    <3> QED
      BY <3>1, <3>2
  <2> HIDE DEF S
  <2>2. Max(S) \in S /\ n + 1 <= Max(S)
    BY <2>1, MaxOf
  <2>3. \A x \in S : n + 1 <= x => x = n + 1
    BY DEF S
  <2> QED
    BY <2>2, <2>3 DEF S
<1> QED
  BY <1>1, <1>2, <1>3 DEF Latest, IsChoice

\* A value and an element give a value.
IsStep(V, S, base, op) == base \in V /\ op \in [V -> [S -> V]]

LeftFold(fold, base, op, seq) ==
  \A s \in SUBSET (1 .. Len(seq)) :
     fold[s] = IF s = {} THEN base ELSE op[fold[s \ {Max(s)}]][seq[Max(s)]]

Left(V, base, op, seq) ==
  (CHOOSE fold : fold \in [SUBSET (1 .. Len(seq)) -> V] /\ LeftFold(fold, base, op, seq))
     [1 .. Len(seq)]

LEMMA LeftFoldExists ==
  ASSUME NEW V, NEW S, NEW base, NEW op, IsStep(V, S, base, op), NEW seq \in Seq(S)
  PROVE  \E fold \in [SUBSET (1 .. Len(seq)) -> V] : LeftFold(fold, base, op, seq)
<1> DEFINE D == 1 .. Len(seq)
           choice == Latest(Len(seq))
           step == [i \in D |-> [v \in V |-> op[v][seq[i]]]]
<1>1. /\ Len(seq) \in Nat /\ \A i \in D : seq[i] \in S
      /\ base \in V /\ \A v \in V : \A e \in S : op[v][e] \in V
  BY DEF IsStep
<1>2. step \in [D -> [V -> V]]
  BY <1>1
<1>3. /\ IsFiniteSet(D) /\ IsChoice(choice, D)
      /\ \A s \in (SUBSET D) \ {{}} : choice[s] = Max(s) /\ Max(s) \in s
  BY <1>1, LatestIs
<1>4. PICK f : IsFold(f, D, V, base, step, choice)
  <2>1. base \in V
    BY <1>1
  <2> HIDE DEF step, D, choice
  <2> QED
    BY <1>2, <1>3, <2>1, FoldExists
<1>5. f \in [SUBSET D -> V] /\ f[{}] = base
  BY <1>4 DEF IsFold, FoldsUpTo
<1> HIDE DEF choice, D
<1>6. ASSUME NEW s \in (SUBSET D) \ {{}}
      PROVE  f[s] = op[f[s \ {Max(s)}]][seq[Max(s)]]
  <2>1. Cardinality(s) <= Cardinality(D)
    BY <1>3, FS_Subset
  <2>2. f[s] = step[choice[s]][f[s \ {choice[s]}]]
    BY <1>4, <2>1 DEF IsFold, FoldsUpTo
  <2>3. choice[s] = Max(s) /\ choice[s] \in D /\ f[s \ {choice[s]}] \in V
    BY <1>3, <1>5
  <2>4. f[s] = op[f[s \ {choice[s]}]][seq[choice[s]]]
    BY <2>2, <2>3
  <2> QED
    BY <2>3, <2>4
<1>7. LeftFold(f, base, op, seq)
  BY <1>5, <1>6 DEF LeftFold, D
<1> QED
  BY <1>5, <1>7 DEF D

\* What is a left fold wherever it stays among the values is the left fold.
LeftFoldWithin(fold, V, base, op, seq) ==
  \A s \in SUBSET (1 .. Len(seq)) :
     IF s = {} THEN fold[s] = base
     ELSE fold[s \ {Max(s)}] \in V => fold[s] = op[fold[s \ {Max(s)}]][seq[Max(s)]]

LEMMA LeftIs ==
  ASSUME NEW V, NEW S, NEW base, NEW op, IsStep(V, S, base, op), NEW seq \in Seq(S),
         NEW fold, LeftFoldWithin(fold, V, base, op, seq)
  PROVE  fold[1 .. Len(seq)] = Left(V, base, op, seq)
<1> DEFINE D == 1 .. Len(seq)
           choice == Latest(Len(seq))
           f == CHOOSE f : f \in [SUBSET D -> V] /\ LeftFold(f, base, op, seq)
<1>1. f \in [SUBSET D -> V] /\ LeftFold(f, base, op, seq)
  BY LeftFoldExists
<1>2. Left(V, base, op, seq) = f[D]
  BY DEF Left
<1> HIDE DEF f
<1>3. /\ IsFiniteSet(D) /\ IsChoice(choice, D)
      /\ \A s \in (SUBSET D) \ {{}} : choice[s] = Max(s) /\ Max(s) \in s
  <2>1. Len(seq) \in Nat
    OBVIOUS
  <2> QED
    BY <2>1, LatestIs
<1> HIDE DEF choice
<1>4. f[{}] = fold[{}]
  BY <1>1 DEF LeftFold, LeftFoldWithin
<1>5. ASSUME NEW s \in (SUBSET D) \ {{}}, f[s \ {choice[s]}] = fold[s \ {choice[s]}]
      PROVE  f[s] = fold[s]
  <2>1. choice[s] = Max(s) /\ s \ {Max(s)} \in SUBSET D
    BY <1>3
  <2>2. fold[s \ {Max(s)}] \in V /\ f[s \ {Max(s)}] = fold[s \ {Max(s)}]
    BY <1>1, <1>5, <2>1
  <2>3. fold[s] = op[fold[s \ {Max(s)}]][seq[Max(s)]]
    BY <2>2 DEF LeftFoldWithin
  <2>4. f[s] = op[f[s \ {Max(s)}]][seq[Max(s)]]
    BY <1>1 DEF LeftFold
  <2> QED
    BY <2>2, <2>3, <2>4
<1> HIDE DEF D
<1>6. FollowsFromLess(f, fold, D, choice)
  BY <1>5 DEF FollowsFromLess
<1>7. \A s \in SUBSET D : f[s] = fold[s]
  BY <1>3, <1>4, <1>6, FoldUnique
<1> QED
  BY <1>2, <1>7 DEF D

LEMMA LeftEmpty ==
  ASSUME NEW V, NEW S, NEW base, NEW op, IsStep(V, S, base, op)
  PROVE  Left(V, base, op, <<>>) = base
<1> DEFINE none == <<>>
<1>1. none \in Seq(S) /\ 1 .. Len(none) = {}
  OBVIOUS
<1> HIDE DEF none
<1>2. PICK f \in [SUBSET (1 .. Len(none)) -> V] : LeftFold(f, base, op, none)
  BY <1>1, LeftFoldExists
<1>3. LeftFoldWithin(f, V, base, op, none)
  BY <1>2 DEF LeftFold, LeftFoldWithin
<1>4. f[1 .. Len(none)] = Left(V, base, op, none)
  BY <1>1, <1>3, LeftIs
<1>5. f[1 .. Len(none)] = base
  BY <1>1, <1>2 DEF LeftFold
<1> QED
  BY <1>4, <1>5 DEF none

LEMMA LeftType ==
  ASSUME NEW V, NEW S, NEW base, NEW op, IsStep(V, S, base, op), NEW seq \in Seq(S)
  PROVE  Left(V, base, op, seq) \in V
<1>1. PICK f \in [SUBSET (1 .. Len(seq)) -> V] : LeftFold(f, base, op, seq)
  BY LeftFoldExists
<1>2. LeftFoldWithin(f, V, base, op, seq)
  BY <1>1 DEF LeftFold, LeftFoldWithin
<1>3. f[1 .. Len(seq)] = Left(V, base, op, seq)
  BY <1>2, LeftIs
<1>4. f[1 .. Len(seq)] \in V
  OBVIOUS
<1> QED
  BY <1>3, <1>4

\* One element more.
LEMMA LeftAppend ==
  ASSUME NEW V, NEW S, NEW base, NEW op, IsStep(V, S, base, op),
         NEW seq \in Seq(S), NEW e \in S
  PROVE  Left(V, base, op, Append(seq, e)) = op[Left(V, base, op, seq)][e]
<1> DEFINE n == Len(seq)
           more == Append(seq, e)
<1>1. /\ n \in Nat /\ Len(more) = n + 1 /\ more[n + 1] = e
      /\ more \in Seq(S) /\ \A i \in 1 .. n : more[i] = seq[i]
  OBVIOUS
<1> HIDE DEF more
<1>2. PICK g \in [SUBSET (1 .. Len(more)) -> V] : LeftFold(g, base, op, more)
  BY <1>1, LeftFoldExists
<1>3. LeftFoldWithin(g, V, base, op, more)
  BY <1>2 DEF LeftFold, LeftFoldWithin
<1>4. g[1 .. n + 1] = Left(V, base, op, more)
  <2>1. g[1 .. Len(more)] = Left(V, base, op, more)
    BY <1>1, <1>3, LeftIs
  <2> QED
    BY <1>1, <2>1
<1>5. LeftFoldWithin(g, V, base, op, seq)
  <2>1. ASSUME NEW s \in SUBSET (1 .. n), s # {}
        PROVE  g[s] = op[g[s \ {Max(s)}]][seq[Max(s)]]
    <3>1. Max(s) \in s
      <4>1. s \in (SUBSET (1 .. n)) \ {{}} /\ n \in Nat
        BY <1>1, <2>1
      <4> HIDE DEF n
      <4> QED
        BY <4>1, LatestIs
    <3>2. more[Max(s)] = seq[Max(s)]
      BY <1>1, <3>1
    <3>3. s \in SUBSET (1 .. Len(more))
      BY <1>1
    <3> QED
      BY <1>2, <2>1, <3>2, <3>3 DEF LeftFold
  <2>2. g[{}] = base
    BY <1>2 DEF LeftFold
  <2> QED
    BY <2>1, <2>2 DEF LeftFoldWithin
<1>6. g[1 .. n] = Left(V, base, op, seq)
  BY <1>5, LeftIs
<1>7. g[1 .. n + 1] = op[g[1 .. n]][e]
  <2> DEFINE all == 1 .. n + 1
  <2>1. Max(all) = n + 1
    BY <1>1, LatestIs
  <2>2. all # {} /\ all \in SUBSET (1 .. Len(more)) /\ all \ {n + 1} = 1 .. n
    BY <1>1
  <2> HIDE DEF all
  <2>3. g[all] = op[g[all \ {Max(all)}]][more[Max(all)]]
    BY <1>2, <2>2 DEF LeftFold
  <2> QED
    BY <1>1, <2>1, <2>2, <2>3 DEF all
<1> QED
  BY <1>4, <1>6, <1>7 DEF more

-----------------------------------------------------------------------------
(* Sums of naturals *)

Addends(f, S) == [x \in S |-> [v \in Nat |-> f[x] + v]]

SomeElement(S) == [s \in (SUBSET S) \ {{}} |-> CHOOSE x \in s : TRUE]

IsSum(fold, f, S) == IsFold(fold, S, Nat, 0, Addends(f, S), SomeElement(S))

LEMMA SumIsFold ==
  ASSUME NEW S, IsFiniteSet(S), NEW f, \A x \in S : f[x] \in Nat
  PROVE  \E fold : IsSum(fold, f, S) /\ SumFunctionOnSet(f, S) = fold[S]
<1> USE DEF IsChoice, FollowsFromLess
<1> DEFINE choice == SomeElement(S)
           Body(fold) ==
             [s \in SUBSET S |->
                IF s = {} THEN 0
                ELSE f[CHOOSE x \in s : TRUE] + fold[s \ {CHOOSE x \in s : TRUE}]]
           sum == CHOOSE fold : fold = Body(fold)
<1>1. \A s \in (SUBSET S) \ {{}} : choice[s] = (CHOOSE x \in s : TRUE) /\ choice[s] \in s
  BY DEF SomeElement
<1>2. 0 \in Nat /\ Addends(f, S) \in [S -> [Nat -> Nat]]
  BY DEF Addends
<1> HIDE DEF choice
<1>3. PICK fold : IsFold(fold, S, Nat, 0, Addends(f, S), choice)
  BY <1>1, <1>2, FoldExists
<1>4. fold = Body(fold)
  <2>1. fold \in [SUBSET S -> Nat] /\ fold[{}] = 0
    BY <1>3 DEF IsFold, FoldsUpTo
  <2>2. ASSUME NEW s \in (SUBSET S) \ {{}}
        PROVE  fold[s] = f[CHOOSE x \in s : TRUE] + fold[s \ {CHOOSE x \in s : TRUE}]
    <3>1. Cardinality(s) <= Cardinality(S)
      BY FS_Subset
    <3>2. fold[s] = Addends(f, S)[choice[s]][fold[s \ {choice[s]}]]
      BY <1>3, <3>1 DEF IsFold, FoldsUpTo
    <3>3. choice[s] \in S /\ fold[s \ {choice[s]}] \in Nat
      BY <1>1, <2>1
    <3>4. fold[s] = f[choice[s]] + fold[s \ {choice[s]}]
      BY <3>2, <3>3 DEF Addends
    <3> QED
      BY <1>1, <3>4
  <2> QED
    BY <2>1, <2>2
<1>5. /\ sum = Body(sum)
      /\ \A s \in SUBSET S : sum[s] = Body(sum)[s]
  <2> HIDE DEF Body
  <2>1. sum = Body(sum)
    BY <1>4
  <2> QED
    BY <2>1
<1>6. sum = fold
  <2> HIDE DEF sum
  <2>1. sum[{}] = 0 /\ fold[{}] = 0
    BY <1>4, <1>5
  <2>2. ASSUME NEW s \in (SUBSET S) \ {{}}
        PROVE  /\ sum[s] = f[choice[s]] + sum[s \ {choice[s]}]
               /\ fold[s] = f[choice[s]] + fold[s \ {choice[s]}]
    <3> DEFINE c == CHOOSE x \in s : TRUE
    <3>1. sum[s] = f[c] + sum[s \ {c}] /\ fold[s] = f[c] + fold[s \ {c}]
      BY <1>4, <1>5
    <3>2. choice[s] = c
      BY <1>1
    <3> QED
      BY <3>1, <3>2
  <2>3. \A s \in SUBSET S : sum[s] = fold[s]
    BY <1>1, <2>1, <2>2, FoldUnique
  <2>4. sum = [s \in SUBSET S |-> sum[s]] /\ fold = [s \in SUBSET S |-> fold[s]]
    BY <1>4, <1>5
  <2> QED
    BY <2>3, <2>4
<1>7. SumFunctionOnSet(f, S) = sum[S]
  BY DEF SumFunctionOnSet, FoldFunctionOnSet, MapThenFoldSet
<1> QED
  BY <1>3, <1>6, <1>7 DEF IsSum, choice

\* The sum over no element, and over one more.
LEMMA SumEmpty ==
  ASSUME NEW f
  PROVE  SumFunctionOnSet(f, {}) = 0
<1>1. PICK fold : IsSum(fold, f, {}) /\ SumFunctionOnSet(f, {}) = fold[{}]
  BY FS_EmptySet, SumIsFold
<1> QED
  BY <1>1 DEF IsSum, IsFold, FoldsUpTo

LEMMA SumType ==
  ASSUME NEW S, IsFiniteSet(S), NEW f, \A x \in S : f[x] \in Nat
  PROVE  SumFunctionOnSet(f, S) \in Nat
<1>1. PICK fold : IsSum(fold, f, S) /\ SumFunctionOnSet(f, S) = fold[S]
  BY SumIsFold
<1> QED
  BY <1>1 DEF IsSum, IsFold, FoldsUpTo

LEMMA SumRemove ==
  ASSUME NEW S, IsFiniteSet(S), NEW f, \A x \in S : f[x] \in Nat, NEW e \in S
  PROVE  SumFunctionOnSet(f, S) = f[e] + SumFunctionOnSet(f, S \ {e})
<1> DEFINE Sum(T) == SumFunctionOnSet(f, T)
           c == SomeElement(S)
<1>1. PICK fold : IsSum(fold, f, S) /\ Sum(S) = fold[S]
  BY SumIsFold
<1>2. \A s \in (SUBSET S) \ {{}} : c[s] \in s
  BY DEF SomeElement
<1> HIDE DEF c
<1>3. \A s \in SUBSET S : IsFiniteSet(s) /\ Cardinality(s) \in Nat /\ fold[s] \in Nat
  BY <1>1, FS_Subset, FS_CardinalityType DEF IsSum, IsFold, FoldsUpTo
<1>4. \A s \in (SUBSET S) \ {{}} : fold[s] = f[c[s]] + fold[s \ {c[s]}]
  <2> SUFFICES ASSUME NEW s \in (SUBSET S) \ {{}}
               PROVE  fold[s] = f[c[s]] + fold[s \ {c[s]}]
    OBVIOUS
  <2>1. Cardinality(s) <= Cardinality(S)
    BY FS_Subset
  <2>2. fold[s] = Addends(f, S)[c[s]][fold[s \ {c[s]}]]
    BY <1>1, <2>1 DEF IsSum, IsFold, FoldsUpTo, c
  <2>3. c[s] \in S /\ fold[s \ {c[s]}] \in Nat
    BY <1>2, <1>3
  <2> QED
    BY <2>2, <2>3 DEF Addends
<1>5. ASSUME NEW T \in SUBSET S PROVE Sum(T) = fold[T]
  <2>1. IsFiniteSet(T) /\ \A x \in T : f[x] \in Nat
    BY <1>3
  <2>2. PICK g : IsSum(g, f, T) /\ Sum(T) = g[T]
    BY <2>1, SumIsFold
  <2>3. /\ g \in [SUBSET T -> Nat] /\ g[{}] = 0
        /\ \A s \in (SUBSET T) \ {{}} : g[s] = f[c[s]] + g[s \ {c[s]}]
    <3>1. g \in [SUBSET T -> Nat] /\ g[{}] = 0
      BY <2>2 DEF IsSum, IsFold, FoldsUpTo
    <3> SUFFICES ASSUME NEW s \in (SUBSET T) \ {{}}
                 PROVE  g[s] = f[c[s]] + g[s \ {c[s]}]
      BY <3>1
    <3>2. Cardinality(s) <= Cardinality(T)
      BY <2>1, FS_Subset
    <3>3. SomeElement(T)[s] = c[s]
      BY DEF SomeElement, c
    <3>4. g[s] = Addends(f, T)[c[s]][g[s \ {c[s]}]]
      BY <2>2, <3>2, <3>3 DEF IsSum, IsFold, FoldsUpTo
    <3>5. c[s] \in T /\ g[s \ {c[s]}] \in Nat
      BY <1>2, <3>1
    <3> QED
      BY <3>4, <3>5 DEF Addends
  <2>4. \A s \in (SUBSET T) \ {{}} : g[s \ {c[s]}] = fold[s \ {c[s]}] => g[s] = fold[s]
    BY <1>4, <2>3
  <2>5. g[{}] = fold[{}]
    BY <1>1, <2>3 DEF IsSum, IsFold, FoldsUpTo
  <2>6. \A s \in SUBSET T : g[s] = fold[s]
    <3>1. \A s \in (SUBSET T) \ {{}} : c[s] \in s
      BY <1>2
    <3> QED
      BY <2>1, <2>4, <2>5, <3>1, FoldUnique DEF IsChoice, FollowsFromLess
  <2> QED
    BY <2>2, <2>6
<1> DEFINE P == {k \in Nat : \A s \in SUBSET S : \A x \in s :
                               Cardinality(s) = k => fold[s] = f[x] + fold[s \ {x}]}
<1>6. 0 \in P
  BY <1>3, FS_EmptySet
<1>7. ASSUME NEW k \in Nat, k \in P PROVE k + 1 \in P
  <2> SUFFICES ASSUME NEW s \in SUBSET S, NEW x \in s, Cardinality(s) = k + 1
               PROVE  fold[s] = f[x] + fold[s \ {x}]
    OBVIOUS
  <2> DEFINE y == c[s]
  <2>1. s # {} /\ y \in s /\ fold[s] = f[y] + fold[s \ {y}]
    BY <1>2, <1>4
  <2> HIDE DEF y
  <2>2. CASE x = y
    BY <2>1, <2>2
  <2>3. CASE x # y
    <3>1. /\ s \ {x} \in SUBSET S /\ s \ {y} \in SUBSET S
          /\ x \in s \ {y} /\ y \in s \ {x}
          /\ (s \ {x}) \ {y} \in SUBSET S /\ (s \ {y}) \ {x} = (s \ {x}) \ {y}
      BY <2>1, <2>3
    <3>2. Cardinality(s \ {x}) = k /\ Cardinality(s \ {y}) = k
      <4>1. Cardinality(s \ {x}) = Cardinality(s) - 1
        BY <1>3, FS_RemoveElement
      <4>2. Cardinality(s \ {y}) = Cardinality(s) - 1
        BY <1>3, <2>1, FS_RemoveElement
      <4> QED
        BY <4>1, <4>2
    <3>3. fold[s \ {y}] = f[x] + fold[(s \ {x}) \ {y}]
      BY <1>7, <3>1, <3>2
    <3>4. fold[s \ {x}] = f[y] + fold[(s \ {x}) \ {y}]
      BY <1>7, <3>1, <3>2
    <3>5. f[x] \in Nat /\ f[y] \in Nat /\ fold[(s \ {x}) \ {y}] \in Nat
      BY <1>3, <2>1, <3>1
    <3> QED
      BY <2>1, <3>3, <3>4, <3>5
  <2> QED
    BY <2>2, <2>3
<1> HIDE DEF P
<1>8. Nat \subseteq P
  BY <1>6, <1>7, NatSetInduction
<1>9. fold[S] = f[e] + fold[S \ {e}]
  BY <1>3, <1>8 DEF P
<1> QED
  BY <1>1, <1>5, <1>9

LEMMA SumAdd ==
  ASSUME NEW S, IsFiniteSet(S), NEW e, e \notin S,
         NEW f, \A x \in S \cup {e} : f[x] \in Nat
  PROVE  SumFunctionOnSet(f, S \cup {e}) = SumFunctionOnSet(f, S) + f[e]
<1>1. IsFiniteSet(S \cup {e}) /\ (S \cup {e}) \ {e} = S
  BY FS_AddElement
<1>2. SumFunctionOnSet(f, S \cup {e}) = f[e] + SumFunctionOnSet(f, S)
  BY <1>1, SumRemove
<1>3. SumFunctionOnSet(f, S) \in Nat /\ f[e] \in Nat
  BY SumType
<1> QED
  BY <1>2, <1>3

\* Sums compare as their addends do.
LEMMA SumMonotonic ==
  ASSUME NEW S, IsFiniteSet(S), NEW f, NEW g,
         \A x \in S : f[x] \in Nat /\ g[x] \in Nat /\ f[x] <= g[x]
  PROVE  SumFunctionOnSet(f, S) <= SumFunctionOnSet(g, S)
<1> DEFINE F == {T \in SUBSET S : SumFunctionOnSet(f, T) <= SumFunctionOnSet(g, T)}
<1>1. {} \in F
  BY SumEmpty
<1>2. ASSUME NEW T \in SUBSET S, NEW x \in S \ T, T \in F PROVE T \cup {x} \in F
  <2>1. IsFiniteSet(T) /\ T \cup {x} \in SUBSET S
    BY FS_Subset
  <2>2. /\ SumFunctionOnSet(f, T \cup {x}) = SumFunctionOnSet(f, T) + f[x]
        /\ SumFunctionOnSet(g, T \cup {x}) = SumFunctionOnSet(g, T) + g[x]
    BY <2>1, SumAdd
  <2>3. SumFunctionOnSet(f, T) \in Nat /\ SumFunctionOnSet(g, T) \in Nat
    BY <2>1, SumType
  <2> QED
    BY <1>2, <2>1, <2>2, <2>3
<1> HIDE DEF F
<1>3. S \in F
  BY <1>1, <1>2, SubsetInduction
<1> QED
  BY <1>3 DEF F

LEMMA SumEqual ==
  ASSUME NEW S, IsFiniteSet(S), NEW f, NEW g,
         \A x \in S : f[x] \in Nat /\ f[x] = g[x]
  PROVE  SumFunctionOnSet(f, S) = SumFunctionOnSet(g, S)
<1>1. /\ SumFunctionOnSet(f, S) <= SumFunctionOnSet(g, S)
      /\ SumFunctionOnSet(g, S) <= SumFunctionOnSet(f, S)
  BY SumMonotonic
<1>2. SumFunctionOnSet(f, S) \in Nat /\ SumFunctionOnSet(g, S) \in Nat
  BY SumType
<1> QED
  BY <1>1, <1>2

\* The sum of equal addends.
LEMMA SumConstant ==
  ASSUME NEW S, IsFiniteSet(S), NEW f, NEW c \in Nat, \A x \in S : f[x] = c
  PROVE  SumFunctionOnSet(f, S) = c * Cardinality(S)
<1> DEFINE F == {T \in SUBSET S : SumFunctionOnSet(f, T) = c * Cardinality(T)}
<1>1. {} \in F
  BY SumEmpty, FS_EmptySet
<1>2. ASSUME NEW T \in SUBSET S, NEW x \in S \ T, T \in F PROVE T \cup {x} \in F
  <2>1. IsFiniteSet(T) /\ T \cup {x} \in SUBSET S /\ Cardinality(T) \in Nat
    BY FS_Subset, FS_CardinalityType
  <2>2. SumFunctionOnSet(f, T \cup {x}) = SumFunctionOnSet(f, T) + f[x]
    <3>1. \A y \in T \cup {x} : f[y] \in Nat
      OBVIOUS
    <3> QED
      BY <2>1, <3>1, SumAdd
  <2>3. Cardinality(T \cup {x}) = Cardinality(T) + 1
    BY <2>1, FS_AddElement
  <2>4. c * (Cardinality(T) + 1) = c * Cardinality(T) + c
    BY <2>1
  <2> QED
    BY <1>2, <2>1, <2>2, <2>3, <2>4
<1> HIDE DEF F
<1>3. S \in F
  BY <1>1, <1>2, SubsetInduction
<1> QED
  BY <1>3 DEF F

\* The sum over two parts, and over one part when the other is all zero.
LEMMA SumParts ==
  ASSUME NEW S, IsFiniteSet(S), NEW f, \A x \in S : f[x] \in Nat, NEW T \in SUBSET S
  PROVE  SumFunctionOnSet(f, S) = SumFunctionOnSet(f, T) + SumFunctionOnSet(f, S \ T)
<1> DEFINE Sum(U) == SumFunctionOnSet(f, U)
           F == {U \in SUBSET (S \ T) : Sum(T \cup U) = Sum(T) + Sum(U)}
<1>1. \A U \in SUBSET S : IsFiniteSet(U) /\ Sum(U) \in Nat
  <2> SUFFICES ASSUME NEW U \in SUBSET S PROVE IsFiniteSet(U) /\ Sum(U) \in Nat
    OBVIOUS
  <2>1. IsFiniteSet(U)
    BY FS_Subset
  <2> QED
    BY <2>1, SumType
<1>2. \A U \in SUBSET S : \A x \in S \ U : Sum(U \cup {x}) = Sum(U) + f[x]
  <2> SUFFICES ASSUME NEW U \in SUBSET S, NEW x \in S \ U
               PROVE  Sum(U \cup {x}) = Sum(U) + f[x]
    OBVIOUS
  <2>1. IsFiniteSet(U) /\ \A y \in U \cup {x} : f[y] \in Nat
    BY <1>1
  <2> QED
    BY <2>1, SumAdd
<1>3. Sum({}) = 0
  BY SumEmpty
<1> HIDE DEF Sum
<1>4. {} \in F
  <2>1. T \cup {} = T
    OBVIOUS
  <2> QED
    BY <1>1, <1>3, <2>1
<1>5. ASSUME NEW U \in SUBSET (S \ T), NEW x \in (S \ T) \ U, U \in F PROVE U \cup {x} \in F
  <2>1. Sum(U \cup {x}) = Sum(U) + f[x]
    BY <1>2
  <2>2. Sum((T \cup U) \cup {x}) = Sum(T \cup U) + f[x]
    <3>1. T \cup U \in SUBSET S /\ x \in S \ (T \cup U)
      OBVIOUS
    <3> QED
      BY <1>2, <3>1
  <2>3. Sum((T \cup U) \cup {x}) = Sum(T \cup (U \cup {x}))
    <3>1. (T \cup U) \cup {x} = T \cup (U \cup {x})
      OBVIOUS
    <3> QED
      BY <3>1, Zenon
  <2>4. Sum(T) \in Nat /\ Sum(U) \in Nat /\ f[x] \in Nat
    BY <1>1
  <2>5. Sum(T \cup U) = Sum(T) + Sum(U)
    BY <1>5 DEF F
  <2>6. Sum(T \cup (U \cup {x})) = Sum(T) + Sum(U \cup {x})
    BY <2>1, <2>2, <2>3, <2>4, <2>5
  <2>7. U \cup {x} \in SUBSET (S \ T)
    OBVIOUS
  <2> QED
    BY <2>6, <2>7 DEF F
<1> HIDE DEF F
<1>6. S \ T \in F
  <2>1. IsFiniteSet(S \ T)
    BY <1>1
  <2>2. SUBSET (S \ T) \subseteq F
    BY <1>4, <1>5, <2>1, SubsetInduction
  <2> QED
    BY <2>2
<1>7. T \cup (S \ T) = S
  OBVIOUS
<1> QED
  BY <1>6, <1>7 DEF F, Sum

LEMMA SumWhere ==
  ASSUME NEW S, IsFiniteSet(S), NEW f, \A x \in S : f[x] \in Nat, NEW T \in SUBSET S
  PROVE  /\ SumFunctionOnSet(f, T) <= SumFunctionOnSet(f, S)
         /\ (\A x \in S \ T : f[x] = 0) => SumFunctionOnSet(f, T) = SumFunctionOnSet(f, S)
<1>1. IsFiniteSet(T) /\ IsFiniteSet(S \ T) /\ Cardinality(S \ T) \in Nat
  BY FS_Subset, FS_CardinalityType
<1>2. SumFunctionOnSet(f, T) \in Nat /\ SumFunctionOnSet(f, S \ T) \in Nat
  BY <1>1, SumType
<1>3. SumFunctionOnSet(f, S) = SumFunctionOnSet(f, T) + SumFunctionOnSet(f, S \ T)
  BY SumParts
<1>4. ASSUME \A x \in S \ T : f[x] = 0 PROVE SumFunctionOnSet(f, S \ T) = 0
  <2>1. SumFunctionOnSet(f, S \ T) = 0 * Cardinality(S \ T)
    BY <1>1, <1>4, SumConstant
  <2> QED
    BY <1>1, <2>1
<1> QED
  BY <1>2, <1>3, <1>4

\* The sum of sums, and of multiples.
LEMMA SumPlus ==
  ASSUME NEW S, IsFiniteSet(S), NEW f, NEW g, NEW h,
         \A x \in S : f[x] \in Nat /\ g[x] \in Nat /\ h[x] = f[x] + g[x]
  PROVE  SumFunctionOnSet(h, S) = SumFunctionOnSet(f, S) + SumFunctionOnSet(g, S)
<1> DEFINE F == {T \in SUBSET S :
                   SumFunctionOnSet(h, T) = SumFunctionOnSet(f, T) + SumFunctionOnSet(g, T)}
<1>1. {} \in F
  BY SumEmpty
<1>2. ASSUME NEW T \in SUBSET S, NEW x \in S \ T, T \in F PROVE T \cup {x} \in F
  <2>1. /\ IsFiniteSet(T) /\ T \cup {x} \in SUBSET S
        /\ \A y \in T \cup {x} : f[y] \in Nat /\ g[y] \in Nat /\ h[y] \in Nat
    BY FS_Subset
  <2>2. /\ SumFunctionOnSet(f, T \cup {x}) = SumFunctionOnSet(f, T) + f[x]
        /\ SumFunctionOnSet(g, T \cup {x}) = SumFunctionOnSet(g, T) + g[x]
        /\ SumFunctionOnSet(h, T \cup {x}) = SumFunctionOnSet(h, T) + h[x]
    BY <2>1, SumAdd
  <2>3. SumFunctionOnSet(f, T) \in Nat /\ SumFunctionOnSet(g, T) \in Nat
    BY <2>1, SumType
  <2> QED
    BY <1>2, <2>1, <2>2, <2>3
<1> HIDE DEF F
<1>3. S \in F
  BY <1>1, <1>2, SubsetInduction
<1> QED
  BY <1>3 DEF F

LEMMA SumScale ==
  ASSUME NEW S, IsFiniteSet(S), NEW c \in Nat, NEW f, NEW g,
         \A x \in S : f[x] \in Nat /\ g[x] = c * f[x]
  PROVE  SumFunctionOnSet(g, S) = c * SumFunctionOnSet(f, S)
<1> DEFINE F == {T \in SUBSET S : SumFunctionOnSet(g, T) = c * SumFunctionOnSet(f, T)}
<1>1. {} \in F
  BY SumEmpty
<1>2. ASSUME NEW T \in SUBSET S, NEW x \in S \ T, T \in F PROVE T \cup {x} \in F
  <2>1. /\ IsFiniteSet(T) /\ T \cup {x} \in SUBSET S
        /\ \A y \in T \cup {x} : f[y] \in Nat /\ g[y] \in Nat
    BY FS_Subset
  <2>2. /\ SumFunctionOnSet(f, T \cup {x}) = SumFunctionOnSet(f, T) + f[x]
        /\ SumFunctionOnSet(g, T \cup {x}) = SumFunctionOnSet(g, T) + g[x]
    BY <2>1, SumAdd
  <2>3. SumFunctionOnSet(f, T) \in Nat /\ f[x] \in Nat
    BY <2>1, SumType
  <2>4. c * (SumFunctionOnSet(f, T) + f[x]) = c * SumFunctionOnSet(f, T) + c * f[x]
    BY <2>3
  <2> QED
    BY <1>2, <2>1, <2>2, <2>4
<1> HIDE DEF F
<1>3. S \in F
  BY <1>1, <1>2, SubsetInduction
<1> QED
  BY <1>3 DEF F

\* The entries of a table add up row by row as they do column by column.
LEMMA SumSwap ==
  ASSUME NEW A, IsFiniteSet(A), NEW B, IsFiniteSet(B),
         NEW m, \A a \in A, b \in B : m[a][b] \in Nat
  PROVE  SumFunctionOnSet([a \in A |-> SumFunctionOnSet(m[a], B)], A)
           = SumFunctionOnSet([b \in B |-> SumFunctionOnSet([a \in A |-> m[a][b]], A)], B)
<1> DEFINE rows == [a \in A |-> SumFunctionOnSet(m[a], B)]
           column(b) == [a \in A |-> m[a][b]]
           columns(T) == [b \in B |-> SumFunctionOnSet(column(b), T)]
           F == {T \in SUBSET A : SumFunctionOnSet(rows, T) = SumFunctionOnSet(columns(T), B)}
<1>1. \A b \in B : \A a \in A : column(b)[a] = m[a][b] /\ column(b)[a] \in Nat
  OBVIOUS
<1>2. \A a \in A : rows[a] = SumFunctionOnSet(m[a], B) /\ rows[a] \in Nat
  BY SumType
<1> HIDE DEF rows, column
<1>3. \A T \in SUBSET A : \A b \in B :
         columns(T)[b] = SumFunctionOnSet(column(b), T) /\ columns(T)[b] \in Nat
  <2> SUFFICES ASSUME NEW T \in SUBSET A, NEW b \in B
               PROVE  SumFunctionOnSet(column(b), T) \in Nat
    OBVIOUS
  <2>1. IsFiniteSet(T) /\ \A a \in T : column(b)[a] \in Nat
    BY <1>1, FS_Subset
  <2> QED
    BY <2>1, SumType
<1> HIDE DEF columns
<1>4. {} \in F
  <2>1. \A b \in B : columns({})[b] = 0
    BY <1>3, SumEmpty
  <2>2. SumFunctionOnSet(columns({}), B) = 0 * Cardinality(B)
    BY <2>1, SumConstant
  <2>3. Cardinality(B) \in Nat
    BY FS_CardinalityType
  <2> QED
    BY <2>2, <2>3, SumEmpty
<1>5. ASSUME NEW T \in SUBSET A, NEW a \in A \ T, T \in F PROVE T \cup {a} \in F
  <2>1. IsFiniteSet(T) /\ T \cup {a} \in SUBSET A
    BY FS_Subset
  <2>2. SumFunctionOnSet(rows, T \cup {a}) = SumFunctionOnSet(rows, T) + rows[a]
    <3>1. \A x \in T \cup {a} : rows[x] \in Nat
      BY <1>2
    <3> QED
      BY <2>1, <3>1, SumAdd
  <2>3. ASSUME NEW b \in B PROVE columns(T \cup {a})[b] = columns(T)[b] + m[a][b]
    <3>1. \A x \in T \cup {a} : column(b)[x] \in Nat
      BY <1>1
    <3>2. SumFunctionOnSet(column(b), T \cup {a})
            = SumFunctionOnSet(column(b), T) + column(b)[a]
      BY <2>1, <3>1, SumAdd
    <3> QED
      BY <1>1, <1>3, <2>1, <3>2
  <2>4. SumFunctionOnSet(columns(T \cup {a}), B)
          = SumFunctionOnSet(columns(T), B) + SumFunctionOnSet(m[a], B)
    BY <1>3, <2>3, SumPlus
  <2> QED
    BY <1>2, <1>5, <2>1, <2>2, <2>4
<1> HIDE DEF F
<1>6. A \in F
  BY <1>4, <1>5, SubsetInduction
<1> QED
  BY <1>6 DEF F, rows, columns, column
=============================================================================

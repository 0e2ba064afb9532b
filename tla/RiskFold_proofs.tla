--------------------------- MODULE RiskFold_proofs ---------------------------
(***************************************************************************)
(* What holds of the event fold of RiskFold for every roster, universe and *)
(* log: how a replay goes on, what one event does to which part of the     *)
(* state, and that a sum over books does not depend on their order.        *)
(*                                                                         *)
(* Both recursive functions of RiskFold are unfolded by induction.  The    *)
(* rule of induction is derived from the well-founded order of the natural *)
(* numbers, by way of a smallest counterexample.                           *)
(***************************************************************************)
EXTENDS RiskFold, FiniteSetTheorems, SequenceTheorems, WellFoundedInduction, TLAPS

-----------------------------------------------------------------------------
(* Induction *)

\* A set of natural numbers has a least element.
LEMMA LeastElement ==
  ASSUME NEW T \in SUBSET Nat, T # {}
  PROVE  \E m \in T : \A k \in T : m <= k
<1> DEFINE R == OpToRel(<, Nat)
<1>1. IsWellFoundedOn(R, Nat)
  BY NatLessThanWellFounded
<1>2. \A x, y \in Nat : <<y, x>> \in R <=> y < x
  BY DEF OpToRel
<1> HIDE DEF R
<1>3. PICK m \in T : \A y \in T : ~ (<<y, m>> \in R)
  <2>1. \E x \in T : \A y \in T : ~ (<<y, x>> \in R)
    BY <1>1, WFMin
  <2> QED
    BY <2>1
<1>4. \A k \in T : ~ (k < m)
  BY <1>2, <1>3, Zenon
<1>5. \A k \in T : m <= k
  BY <1>4
<1> QED
  BY <1>5

\* Induction over the natural numbers, of a property given as a set.
LEMMA Induction ==
  ASSUME NEW P \in SUBSET Nat, 0 \in P, \A n \in Nat : n \in P => n + 1 \in P
  PROVE  \A n \in Nat : n \in P
<1> SUFFICES ASSUME Nat \ P # {} PROVE FALSE
  OBVIOUS
<1>1. PICK m \in Nat \ P : \A k \in Nat \ P : m <= k
  BY LeastElement
<1>2. m # 0 /\ m - 1 \in Nat
  BY <1>1
<1>3. m - 1 \in P
  BY <1>1, <1>2
<1> QED
  BY <1>1, <1>2, <1>3

-----------------------------------------------------------------------------
(* Replay, one event after the other *)

\* What the loop of recover_state does with the n-th event.
FoldStep(acc, n, e) == IF Newer(n, acc) THEN ApplyEvent(acc, n, e) ELSE acc

Unfolds(f, s, events, m) ==
  f = [n \in 0..m |-> IF n = 0 THEN s ELSE FoldStep(f[n - 1], n, events[n])]

LEMMA UnfoldExists ==
  ASSUME NEW s, NEW events, NEW m \in Nat
  PROVE  \E f : Unfolds(f, s, events, m)
<1> DEFINE P == {n \in Nat : \E f : Unfolds(f, s, events, n)}
<1>1. 0 \in P
  <2>1. Unfolds([n \in 0..0 |-> s], s, events, 0)
    BY DEF Unfolds
  <2> QED
    BY <2>1
<1>2. ASSUME NEW n \in Nat, n \in P PROVE n + 1 \in P
  <2>1. PICK f : Unfolds(f, s, events, n)
    BY <1>2
  <2> DEFINE last == FoldStep(f[n], n + 1, events[n + 1])
             g == [k \in 0..(n + 1) |-> IF k = n + 1 THEN last ELSE f[k]]
  <2>2. ASSUME NEW k \in 0..(n + 1)
        PROVE  g[k] = IF k = 0 THEN s ELSE FoldStep(g[k - 1], k, events[k])
    <3>1. CASE k = n + 1
      BY <3>1
    <3>2. CASE k # n + 1
      <4>1. k \in 0..n /\ g[k] = f[k] /\ (k # 0 => g[k - 1] = f[k - 1])
        BY <3>2
      <4>2. f[k] = IF k = 0 THEN s ELSE FoldStep(f[k - 1], k, events[k])
        BY <2>1, <4>1 DEF Unfolds
      <4> QED
        BY <4>1, <4>2
    <3> QED
      BY <3>1, <3>2
  <2>3. Unfolds(g, s, events, n + 1)
    <3>1. g = [k \in 0..(n + 1) |-> g[k]]
      OBVIOUS
    <3> HIDE DEF g
    <3> QED
      BY <2>2, <3>1 DEF Unfolds
  <2> QED
    BY <2>3
<1>3. P \in SUBSET Nat
  OBVIOUS
<1> HIDE DEF P
<1>4. \A n \in Nat : n \in P
  BY <1>1, <1>2, <1>3, Induction
<1> QED
  BY <1>4 DEF P

\* Two runs of the loop over the same events give the same states.
LEMMA UnfoldUnique ==
  ASSUME NEW s, NEW a, NEW b, NEW m \in Nat, NEW k \in 0..m, NEW f, NEW g,
         Unfolds(f, s, a, m), Unfolds(g, s, b, k), \A n \in 1..k : a[n] = b[n]
  PROVE  f[k] = g[k]
<1> DEFINE P == {n \in Nat : n <= k => f[n] = g[n]}
<1>1. 0 \in P
  BY DEF Unfolds
<1>2. ASSUME NEW n \in Nat, n \in P PROVE n + 1 \in P
  <2> SUFFICES ASSUME n + 1 <= k PROVE f[n + 1] = g[n + 1]
    OBVIOUS
  <2>1. f[n] = g[n] /\ a[n + 1] = b[n + 1]
    BY <1>2
  <2>2. f[n + 1] = FoldStep(f[n], n + 1, a[n + 1]) /\ g[n + 1] = FoldStep(g[n], n + 1, b[n + 1])
    BY DEF Unfolds
  <2> QED
    BY <2>1, <2>2
<1>3. P \in SUBSET Nat
  OBVIOUS
<1> HIDE DEF P
<1>4. \A n \in Nat : n \in P
  BY <1>1, <1>2, <1>3, Induction
<1>5. k \in P /\ k <= k
  BY <1>4
<1> QED
  BY <1>5 DEF P

LEMMA ReplayUnfolds ==
  ASSUME NEW s, NEW events, Len(events) \in Nat
  PROVE  \E f : Unfolds(f, s, events, Len(events)) /\ Replay(s, events) = f[Len(events)]
<1> DEFINE f == CHOOSE f : Unfolds(f, s, events, Len(events))
<1>1. Replay(s, events) = f[Len(events)]
  BY DEF Replay, Unfolds, FoldStep
<1>2. Unfolds(f, s, events, Len(events))
  BY UnfoldExists
<1> QED
  BY <1>1, <1>2

\* Nothing to replay.
LEMMA ReplayNothing ==
  ASSUME NEW s
  PROVE  Replay(s, <<>>) = s
<1>1. PICK f : Unfolds(f, s, <<>>, 0) /\ Replay(s, <<>>) = f[0]
  BY ReplayUnfolds
<1> QED
  BY <1>1 DEF Unfolds

\* One event more.
LEMMA ReplayAppend ==
  ASSUME NEW s, NEW E, NEW events \in Seq(E), NEW e \in E
  PROVE  Replay(s, Append(events, e)) = FoldStep(Replay(s, events), Len(events) + 1, e)
<1> DEFINE m == Len(events)
           more == Append(events, e)
<1>1. m \in Nat /\ Len(more) = m + 1 /\ more[m + 1] = e /\ \A n \in 1..m : more[n] = events[n]
  OBVIOUS
<1>2. PICK f : Unfolds(f, s, events, m) /\ Replay(s, events) = f[m]
  BY <1>1, ReplayUnfolds
<1> HIDE DEF more
<1>3. PICK g : Unfolds(g, s, more, m + 1) /\ Replay(s, more) = g[m + 1]
  <2>1. Len(more) \in Nat
    BY <1>1
  <2> QED
    BY <1>1, <2>1, ReplayUnfolds
<1> HIDE DEF m
<1>4. g[m] = f[m]
  <2>1. m + 1 \in Nat /\ m \in 0..(m + 1) /\ m \in 0..m
    BY <1>1
  <2>2. \A n \in 1..m : more[n] = events[n]
    BY <1>1
  <2> DEFINE last == m + 1
  <2>3. last \in Nat /\ m \in 0..last /\ Unfolds(g, s, more, last) /\ Unfolds(f, s, events, m)
    BY <1>2, <1>3, <2>1
  <2> HIDE DEF last
  <2> QED
    BY <2>2, <2>3, UnfoldUnique
<1>5. g[m + 1] = FoldStep(g[m], m + 1, more[m + 1])
  BY <1>1, <1>3 DEF Unfolds
<1> QED
  BY <1>1, <1>2, <1>3, <1>4, <1>5 DEF more, m

-----------------------------------------------------------------------------
(* Sums over a finite set *)

\* One element less.
LEMMA OneLess ==
  ASSUME NEW S, IsFiniteSet(S), NEW x \in S
  PROVE  /\ IsFiniteSet(S \ {x})
         /\ Cardinality(S \ {x}) \in Nat /\ Cardinality(S) = Cardinality(S \ {x}) + 1
<1>1. IsFiniteSet(S \ {x}) /\ Cardinality(S \ {x}) = Cardinality(S) - 1
  BY FS_RemoveElement
<1>2. Cardinality(S) \in Nat /\ Cardinality(S \ {x}) \in Nat
  BY <1>1, FS_CardinalityType
<1> QED
  BY <1>1, <1>2

\* The element that SumOver takes first.
First(T) == CHOOSE x \in T : TRUE

Sums(g, f, D) ==
  g = [T \in D |-> IF T = {} THEN 0 ELSE f[First(T)] + g[T \ {First(T)}]]

LEMMA FirstIsElement ==
  ASSUME NEW T, T # {}
  PROVE  First(T) \in T
BY DEF First

LEMMA SumsExist ==
  ASSUME NEW S, IsFiniteSet(S), NEW f
  PROVE  \E g : Sums(g, f, SUBSET S)
<1> DEFINE UpTo(n) == {T \in SUBSET S : Cardinality(T) <= n}
           P == {n \in Nat : \E g : Sums(g, f, UpTo(n))}
<1>1. \A T \in SUBSET S : IsFiniteSet(T) /\ Cardinality(T) \in Nat /\ (T = {} <=> Cardinality(T) = 0)
  BY FS_Subset, FS_CardinalityType, FS_EmptySet
<1>2. 0 \in P
  <2>1. UpTo(0) = {{}}
    BY <1>1
  <2> DEFINE g == [T \in UpTo(0) |-> 0]
  <2>2. g = [T \in UpTo(0) |-> IF T = {} THEN 0 ELSE f[First(T)] + g[T \ {First(T)}]]
    BY <2>1
  <2>3. Sums(g, f, UpTo(0))
    BY <2>2 DEF Sums
  <2> HIDE DEF g, UpTo
  <2> QED
    BY <2>3
<1>3. ASSUME NEW n \in Nat, n \in P PROVE n + 1 \in P
  <2>1. PICK g : Sums(g, f, UpTo(n))
    BY <1>3
  <2> DEFINE h == [T \in UpTo(n + 1) |->
                     IF T \in UpTo(n) THEN g[T] ELSE f[First(T)] + g[T \ {First(T)}]]
  <2>2. ASSUME NEW T \in UpTo(n + 1), T # {} PROVE T \ {First(T)} \in UpTo(n)
    <3>1. IsFiniteSet(T) /\ First(T) \in T /\ T \in SUBSET S /\ Cardinality(T) <= n + 1
      BY <1>1, <2>2, FirstIsElement
    <3> QED
      BY <3>1, OneLess
  <2>3. UpTo(n) \subseteq UpTo(n + 1)
    BY <1>1
  <2> HIDE DEF UpTo
  <2>4. ASSUME NEW T \in UpTo(n + 1)
        PROVE  h[T] = IF T = {} THEN 0 ELSE f[First(T)] + h[T \ {First(T)}]
    <3>1. T \in UpTo(n) => h[T] = IF T = {} THEN 0 ELSE f[First(T)] + g[T \ {First(T)}]
      BY <2>1, <2>3 DEF Sums
    <3>2. T \notin UpTo(n) => T # {} /\ h[T] = f[First(T)] + g[T \ {First(T)}]
      <4>1. {} \in UpTo(n)
        BY <1>1 DEF UpTo
      <4> QED
        BY <4>1
    <3>3. T # {} => h[T \ {First(T)}] = g[T \ {First(T)}]
      BY <2>2, <2>3
    <3> HIDE DEF h
    <3> QED
      BY <3>1, <3>2, <3>3
  <2>5. h = [T \in UpTo(n + 1) |-> h[T]]
    OBVIOUS
  <2> HIDE DEF h
  <2>6. Sums(h, f, UpTo(n + 1))
    BY <2>4, <2>5 DEF Sums
  <2> QED
    BY <2>6
<1>4. P \in SUBSET Nat
  OBVIOUS
<1>5. Cardinality(S) \in Nat /\ UpTo(Cardinality(S)) = SUBSET S
  BY <1>1, FS_CardinalityType, FS_Subset
<1> HIDE DEF P, UpTo
<1>6. Cardinality(S) \in P
  BY <1>2, <1>3, <1>4, <1>5, Induction
<1>7. \E g : Sums(g, f, UpTo(Cardinality(S)))
  BY <1>6 DEF P
<1> QED
  BY <1>5, <1>7

\* Whatever larger set it is part of, a set has one sum.
LEMMA SumsUnique ==
  ASSUME NEW S, IsFiniteSet(S), NEW T \in SUBSET S, NEW f, NEW g, NEW h,
         Sums(g, f, SUBSET S), Sums(h, f, SUBSET T)
  PROVE  g[T] = h[T]
<1> DEFINE P == {n \in Nat : \A U \in SUBSET T : Cardinality(U) <= n => g[U] = h[U]}
<1>1. \A U \in SUBSET T : IsFiniteSet(U) /\ Cardinality(U) \in Nat /\ (U = {} <=> Cardinality(U) = 0)
  BY FS_Subset, FS_CardinalityType, FS_EmptySet
<1>2. 0 \in P
  <2>1. ASSUME NEW U \in SUBSET T, Cardinality(U) <= 0 PROVE g[U] = h[U]
    <3>1. U = {} /\ U \in SUBSET S
      BY <1>1, <2>1
    <3> QED
      BY <3>1 DEF Sums
  <2> QED
    BY <2>1
<1>3. ASSUME NEW n \in Nat, n \in P PROVE n + 1 \in P
  <2>1. ASSUME NEW U \in SUBSET T, Cardinality(U) <= n + 1 PROVE g[U] = h[U]
    <3>1. CASE U = {}
      BY <3>1, <1>1, <1>3
    <3>2. CASE U # {}
      <4> DEFINE x == First(U)
      <4>1. x \in U /\ IsFiniteSet(U)
        BY <1>1, <3>2, FirstIsElement
      <4>2. U \ {x} \in SUBSET T /\ Cardinality(U \ {x}) <= n
        BY <2>1, <4>1, OneLess
      <4>3. g[U \ {x}] = h[U \ {x}]
        BY <1>3, <4>2
      <4>4. g[U] = f[x] + g[U \ {x}]
        BY <3>2 DEF Sums
      <4>5. h[U] = f[x] + h[U \ {x}]
        BY <3>2 DEF Sums
      <4> QED
        BY <4>3, <4>4, <4>5
    <3> QED
      BY <3>1, <3>2
  <2> QED
    BY <2>1
<1>4. P \in SUBSET Nat
  OBVIOUS
<1>5. Cardinality(T) \in Nat /\ T \in SUBSET T
  BY <1>1
<1> HIDE DEF P
<1>6. Cardinality(T) \in P
  BY <1>2, <1>3, <1>4, <1>5, Induction
<1> QED
  BY <1>5, <1>6 DEF P

LEMMA SumOverSums ==
  ASSUME NEW S, IsFiniteSet(S), NEW f
  PROVE  \E g : Sums(g, f, SUBSET S) /\ SumOver(S, f) = g[S]
<1> DEFINE g == CHOOSE g : Sums(g, f, SUBSET S)
<1>1. SumOver(S, f) = g[S]
  BY DEF SumOver, Sums, First
<1>2. Sums(g, f, SUBSET S)
  BY SumsExist
<1> QED
  BY <1>1, <1>2

\* The recursion of SumOver.
LEMMA SumOverFirst ==
  ASSUME NEW S, IsFiniteSet(S), NEW f
  PROVE  SumOver(S, f)
           = IF S = {} THEN 0 ELSE f[First(S)] + SumOver(S \ {First(S)}, f)
<1>1. PICK g : Sums(g, f, SUBSET S) /\ SumOver(S, f) = g[S]
  BY SumOverSums
<1>2. CASE S = {}
  BY <1>1, <1>2 DEF Sums
<1>3. CASE S # {}
  <2> DEFINE T == S \ {First(S)}
  <2>1. T \in SUBSET S /\ IsFiniteSet(T)
    BY FS_Subset
  <2>2. SumOver(S, f) = f[First(S)] + g[T]
    BY <1>1, <1>3 DEF Sums
  <2> HIDE DEF T
  <2>3. PICK h : Sums(h, f, SUBSET T) /\ SumOver(T, f) = h[T]
    BY <2>1, SumOverSums
  <2>4. g[T] = h[T]
    BY <1>1, <2>1, <2>3, SumsUnique
  <2> QED
    BY <1>3, <2>2, <2>3, <2>4 DEF T
<1> QED
  BY <1>2, <1>3

LEMMA SumInt ==
  ASSUME NEW S, IsFiniteSet(S), NEW f, \A x \in S : f[x] \in Int
  PROVE  SumOver(S, f) \in Int
<1> DEFINE P == {n \in Nat : \A T \in SUBSET S : Cardinality(T) <= n => SumOver(T, f) \in Int}
<1>1. \A T \in SUBSET S : IsFiniteSet(T) /\ Cardinality(T) \in Nat /\ (T = {} <=> Cardinality(T) = 0)
  BY FS_Subset, FS_CardinalityType, FS_EmptySet
<1>2. 0 \in P
  <2>1. ASSUME NEW T \in SUBSET S, Cardinality(T) <= 0 PROVE SumOver(T, f) \in Int
    <3>1. T = {} /\ IsFiniteSet(T)
      BY <1>1, <2>1
    <3>2. SumOver(T, f) = 0
      BY <3>1, SumOverFirst
    <3> QED
      BY <3>2
  <2> QED
    BY <2>1
<1>3. ASSUME NEW n \in Nat, n \in P PROVE n + 1 \in P
  <2>1. ASSUME NEW T \in SUBSET S, Cardinality(T) <= n + 1 PROVE SumOver(T, f) \in Int
    <3>1. IsFiniteSet(T)
      BY <1>1
    <3>2. CASE T = {}
      <4>1. SumOver(T, f) = 0
        BY <3>1, <3>2, SumOverFirst
      <4> QED
        BY <4>1
    <3>3. CASE T # {}
      <4>1. First(T) \in T
        BY <3>3, FirstIsElement
      <4>2. T \ {First(T)} \in SUBSET S /\ Cardinality(T \ {First(T)}) <= n
        BY <2>1, <3>1, <4>1, OneLess
      <4>3. SumOver(T \ {First(T)}, f) \in Int /\ f[First(T)] \in Int
        BY <1>3, <4>1, <4>2
      <4>4. SumOver(T, f) = f[First(T)] + SumOver(T \ {First(T)}, f)
        BY <3>1, <3>3, SumOverFirst
      <4> QED
        BY <4>3, <4>4
    <3> QED
      BY <3>2, <3>3
  <2> QED
    BY <2>1
<1>4. P \in SUBSET Nat
  OBVIOUS
<1>5. Cardinality(S) \in Nat /\ S \in SUBSET S
  BY <1>1
<1> HIDE DEF P
<1>6. Cardinality(S) \in P
  BY <1>2, <1>3, <1>4, <1>5, Induction
<1> QED
  BY <1>5, <1>6 DEF P

\* Any element may be taken first.
LEMMA SumRemove ==
  ASSUME NEW S, IsFiniteSet(S), NEW f, \A x \in S : f[x] \in Int, NEW x \in S
  PROVE  SumOver(S, f) = f[x] + SumOver(S \ {x}, f)
<1> DEFINE Any(T) == \A y \in T : SumOver(T, f) = f[y] + SumOver(T \ {y}, f)
           P == {n \in Nat : \A T \in SUBSET S : Cardinality(T) <= n => Any(T)}
<1>1. \A T \in SUBSET S : IsFiniteSet(T) /\ Cardinality(T) \in Nat /\ (T = {} <=> Cardinality(T) = 0)
  BY FS_Subset, FS_CardinalityType, FS_EmptySet
<1>2. 0 \in P
  BY <1>1
<1>3. ASSUME NEW n \in Nat, n \in P PROVE n + 1 \in P
  <2>1. ASSUME NEW T \in SUBSET S, Cardinality(T) <= n + 1, NEW y \in T
        PROVE  SumOver(T, f) = f[y] + SumOver(T \ {y}, f)
    <3> DEFINE z == First(T)
    <3>1. IsFiniteSet(T) /\ T # {} /\ z \in T
      BY <1>1, <2>1, FirstIsElement
    <3>2. SumOver(T, f) = f[z] + SumOver(T \ {z}, f)
      BY <3>1, SumOverFirst
    <3> HIDE DEF z
    <3>3. CASE y = z
      BY <3>2, <3>3
    <3>4. CASE y # z
      <4> DEFINE both == (T \ {y}) \ {z}
      <4>1. both = (T \ {z}) \ {y} /\ z \in T \ {y} /\ y \in T \ {z}
        BY <2>1, <3>1, <3>4
      <4>2. \A v \in T : T \ {v} \in SUBSET S /\ Cardinality(T \ {v}) <= n
        <5>1. ASSUME NEW v \in T PROVE Cardinality(T) = Cardinality(T \ {v}) + 1 /\ Cardinality(T \ {v}) \in Nat
          BY <3>1, OneLess
        <5> QED
          BY <2>1, <5>1
      <4>3. SumOver(T \ {y}, f) = f[z] + SumOver(both, f)
        BY <1>3, <4>1, <4>2
      <4>4. SumOver(T \ {z}, f) = f[y] + SumOver(both, f)
        BY <1>3, <4>1, <4>2
      <4>5. IsFiniteSet(both) /\ \A v \in both : f[v] \in Int
        BY <2>1, <1>1
      <4> HIDE DEF both
      <4>6. SumOver(both, f) \in Int /\ f[y] \in Int /\ f[z] \in Int
        BY <2>1, <3>1, <4>5, SumInt
      <4> QED
        BY <3>2, <4>3, <4>4, <4>6
    <3> QED
      BY <3>3, <3>4
  <2> QED
    BY <2>1
<1>4. P \in SUBSET Nat
  OBVIOUS
<1>5. Cardinality(S) \in Nat /\ S \in SUBSET S
  BY <1>1
<1> HIDE DEF P
<1>6. Cardinality(S) \in P
  BY <1>2, <1>3, <1>4, <1>5, Induction
<1> QED
  BY <1>5, <1>6 DEF P

\* Elements that add nothing may be left out.
LEMMA SumTrim ==
  ASSUME NEW S, IsFiniteSet(S), NEW X \in SUBSET S, NEW f, NEW g,
         \A x \in X : f[x] = g[x] /\ g[x] \in Int, \A x \in S \ X : f[x] = 0
  PROVE  SumOver(S, f) = SumOver(X, g)
<1> DEFINE Q(T) == SumOver(T, f) = SumOver(T \cap X, g)
           P == {n \in Nat : \A T \in SUBSET S : Cardinality(T) <= n => Q(T)}
<1>1. \A T \in SUBSET S : IsFiniteSet(T) /\ Cardinality(T) \in Nat /\ (T = {} <=> Cardinality(T) = 0)
  BY FS_Subset, FS_CardinalityType, FS_EmptySet
<1>2. 0 \in P
  <2>1. ASSUME NEW T \in SUBSET S, Cardinality(T) <= 0 PROVE Q(T)
    <3>1. T = {} /\ T \cap X = {}
      BY <1>1, <2>1
    <3>2. SumOver({}, f) = 0 /\ SumOver({}, g) = 0
      BY FS_EmptySet, SumOverFirst
    <3> QED
      BY <3>1, <3>2
  <2> QED
    BY <2>1
<1>3. ASSUME NEW n \in Nat, n \in P PROVE n + 1 \in P
  <2>1. ASSUME NEW T \in SUBSET S, Cardinality(T) <= n + 1 PROVE Q(T)
    <3>1. CASE T = {}
      <4>1. T \in SUBSET S /\ Cardinality(T) <= n
        BY <1>1, <1>3, <3>1
      <4> QED
        BY <1>3, <4>1
    <3>2. CASE T # {}
      <4>1. PICK x : x \in T
        BY <3>2
      <4>2. T \ {x} \in SUBSET S /\ Cardinality(T \ {x}) <= n /\ IsFiniteSet(T)
        <5>1. IsFiniteSet(T)
          BY <1>1
        <5>2. Cardinality(T) = Cardinality(T \ {x}) + 1 /\ Cardinality(T \ {x}) \in Nat
          BY <4>1, <5>1, OneLess
        <5> QED
          BY <2>1, <5>1, <5>2
      <4>3. Q(T \ {x})
        BY <1>3, <4>2
      <4>4. \A v \in T : f[v] \in Int
        BY <2>1
      <4>5. SumOver(T, f) = f[x] + SumOver(T \ {x}, f)
        BY <4>1, <4>2, <4>4, SumRemove
      <4>6. SumOver(T \ {x}, f) \in Int
        BY <4>2, <4>4, <1>1, SumInt
      <4>7. CASE x \in X
        <5> DEFINE TX == T \cap X
        <5>1. x \in TX /\ (T \ {x}) \cap X = TX \ {x} /\ IsFiniteSet(TX) /\ \A v \in TX : g[v] \in Int
          <6>1. TX \in SUBSET S
            OBVIOUS
          <6>2. IsFiniteSet(TX)
            BY <1>1, <6>1
          <6> QED
            BY <2>1, <4>1, <4>7, <6>2
        <5> HIDE DEF TX
        <5>2. SumOver(TX, g) = g[x] + SumOver(TX \ {x}, g)
          BY <5>1, SumRemove
        <5>3. SumOver(T, f) = SumOver(TX, g)
          BY <4>3, <4>5, <4>7, <5>1, <5>2
        <5> QED
          BY <5>3 DEF TX
      <4>8. CASE x \notin X
        <5>1. f[x] = 0 /\ (T \ {x}) \cap X = T \cap X
          BY <2>1, <4>1, <4>8
        <5>2. SumOver(T, f) = SumOver(T \ {x}, f)
          BY <4>5, <4>6, <5>1
        <5> QED
          BY <4>3, <5>1, <5>2
      <4> QED
        BY <4>7, <4>8
    <3> QED
      BY <3>1, <3>2
  <2> QED
    BY <2>1
<1>4. P \in SUBSET Nat
  OBVIOUS
<1>5. Cardinality(S) \in Nat /\ S \in SUBSET S /\ S \cap X = X
  BY <1>1
<1> HIDE DEF P
<1>6. Cardinality(S) \in P
  BY <1>2, <1>3, <1>4, <1>5, Induction
<1> QED
  BY <1>5, <1>6 DEF P

-----------------------------------------------------------------------------
(* States *)

Position == [qty : Int, cash : Int, funding : Int]

\* What the fold keeps a state to.
RiskState ==
  [lastSeq : Nat, books : SUBSET Book, marks : [Instrument -> Int],
   pos : [Book -> [Instrument -> Position]],
   hwm : [Scope -> Int], limit : [Scope -> Int], kill : [Scope -> BOOLEAN]]

LEMMA FreshIsState ==
  ASSUME NEW X \in SUBSET Book
  PROVE  Fresh(X) \in RiskState
BY FoldAssumption DEF FoldAssumption, Fresh, RiskState, Position, FlatPosition

\* Two states with the same fields are one.
LEMMA SameFields ==
  ASSUME NEW s \in RiskState, NEW t \in RiskState,
         s.lastSeq = t.lastSeq, s.books = t.books, s.marks = t.marks, s.pos = t.pos,
         s.hwm = t.hwm, s.limit = t.limit, s.kill = t.kill
  PROVE  s = t
BY DEF RiskState

LEMMA NumberField ==
  ASSUME NEW s \in RiskState, NEW n \in Nat
  PROVE  LET t == [s EXCEPT !.lastSeq = n]
         IN  /\ t \in RiskState
             /\ t.lastSeq = n /\ t.books = s.books /\ t.marks = s.marks /\ t.pos = s.pos
             /\ t.hwm = s.hwm /\ t.limit = s.limit /\ t.kill = s.kill
BY DEF RiskState

\* PnL depends on positions and marks alone.
LEMMA BookPnlOf ==
  ASSUME NEW s, NEW t, NEW b, s.marks = t.marks, s.pos[b] = t.pos[b]
  PROVE  BookTotalPnl(s, b) = BookTotalPnl(t, b)
BY DEF BookTotalPnl

LEMMA PnlInt ==
  ASSUME NEW s \in RiskState
  PROVE  /\ \A b \in Book : BookTotalPnl(s, b) \in Int
         /\ DeskTotalPnl(s) \in Int
<1>1. ASSUME NEW b \in Book PROVE BookTotalPnl(s, b) \in Int
  <2> DEFINE f == [i \in Instrument |->
                     s.pos[b][i].cash + s.pos[b][i].qty * s.marks[i] + s.pos[b][i].funding]
  <2>1. \A i \in Instrument : f[i] \in Int
    <3> TAKE i \in Instrument
    <3>1. s.pos[b][i] \in Position /\ s.marks[i] \in Int
      BY DEF RiskState
    <3>2. \A x, y, z, v \in Int : x + y * z + v \in Int
      OBVIOUS
    <3> QED
      BY <3>1, <3>2 DEF Position
  <2>2. BookTotalPnl(s, b) = SumOver(Instrument, f)
    BY DEF BookTotalPnl
  <2> HIDE DEF f
  <2> QED
    BY <2>1, <2>2, SumInt, FoldAssumption DEF FoldAssumption
<1>2. DeskTotalPnl(s) \in Int
  <2> DEFINE f == [b \in s.books |-> BookTotalPnl(s, b)]
  <2>1. s.books \subseteq Book
    BY DEF RiskState
  <2>2. \A b \in s.books : f[b] \in Int
    BY <1>1, <2>1
  <2>3. DeskTotalPnl(s) = SumOver(s.books, f)
    BY DEF DeskTotalPnl
  <2>4. IsFiniteSet(s.books)
    BY <2>1, FS_Subset, FoldAssumption DEF FoldAssumption
  <2> HIDE DEF f
  <2> QED
    BY <2>2, <2>3, <2>4, SumInt
<1> QED
  BY <1>1, <1>2

LEMMA HigherInt ==
  ASSUME NEW m \in Int, NEW n \in Int
  PROVE  Higher(m, n) \in Int
BY DEF Higher

LEMMA HighWaterFields ==
  ASSUME NEW s \in RiskState
  PROVE  LET t == UpdateHighWaterMarks(s)
         IN  /\ t \in RiskState
             /\ t.lastSeq = s.lastSeq /\ t.books = s.books /\ t.marks = s.marks /\ t.pos = s.pos
             /\ t.limit = s.limit /\ t.kill = s.kill
             /\ t.hwm = [x \in Scope |->
                           IF x = Desk THEN Higher(s.hwm[x], DeskTotalPnl(s))
                           ELSE IF x \in s.books THEN Higher(s.hwm[x], BookTotalPnl(s, x))
                           ELSE s.hwm[x]]
<1> DEFINE h == [x \in Scope |->
                   IF x = Desk THEN Higher(s.hwm[x], DeskTotalPnl(s))
                   ELSE IF x \in s.books THEN Higher(s.hwm[x], BookTotalPnl(s, x))
                   ELSE s.hwm[x]]
<1>1. h \in [Scope -> Int]
  <2>1. ASSUME NEW x \in Scope PROVE h[x] \in Int
    <3>1. s.hwm[x] \in Int /\ s.books \subseteq Book
      BY DEF RiskState
    <3>2. DeskTotalPnl(s) \in Int /\ (x \in s.books => BookTotalPnl(s, x) \in Int)
      BY <3>1, PnlInt
    <3> QED
      BY <3>1, <3>2, HigherInt
  <2> QED
    BY <2>1
<1>2. UpdateHighWaterMarks(s) = [s EXCEPT !.hwm = h]
  BY DEF UpdateHighWaterMarks
<1> HIDE DEF h
<1>3. LET t == [s EXCEPT !.hwm = h]
      IN  /\ t \in RiskState
          /\ t.lastSeq = s.lastSeq /\ t.books = s.books /\ t.marks = s.marks /\ t.pos = s.pos
          /\ t.limit = s.limit /\ t.kill = s.kill /\ t.hwm = h
  BY <1>1 DEF RiskState
<1> QED
  BY <1>2, <1>3 DEF h

LEMMA DeskPnlOf ==
  ASSUME NEW s, NEW t, s.books = t.books, s.marks = t.marks, s.pos = t.pos
  PROVE  DeskTotalPnl(s) = DeskTotalPnl(t)
BY DEF DeskTotalPnl, BookTotalPnl

-----------------------------------------------------------------------------
(* What an event does to each field of the state *)

MarksAfter(s, e) ==
  IF e.type = "MARK_UPDATE" THEN [s.marks EXCEPT ![e.instrument] = e.price] ELSE s.marks
LimitAfter(s, e) ==
  IF e.type = "LIMIT_CHANGE" THEN [s.limit EXCEPT ![e.scope] = e.new] ELSE s.limit
KillAfter(s, e) ==
  IF e.type = "KILL_SWITCH" THEN [s.kill EXCEPT ![e.scope] = e.enabled] ELSE s.kill

Fills(e, b, i) == e.type = "FILL" /\ e.scope = b /\ e.instrument = i
Charges(s, e, b, i) == e.type = "FUNDING_UPDATE" /\ b \in s.books /\ e.instrument = i

QtyAfter(s, e, b, i) ==
  IF Fills(e, b, i) THEN s.pos[b][i].qty + e.delta ELSE s.pos[b][i].qty
CashAfter(s, e, b, i) ==
  IF Fills(e, b, i) THEN s.pos[b][i].cash - e.delta * e.price ELSE s.pos[b][i].cash
FundingAfter(s, e, b, i) ==
  IF Charges(s, e, b, i)
    THEN s.pos[b][i].funding - s.pos[b][i].qty * s.marks[i] * e.rate
    ELSE s.pos[b][i].funding

PosAfter(s, e) ==
  [b \in Book |-> [i \in Instrument |->
     [qty     |-> QtyAfter(s, e, b, i),
      cash    |-> CashAfter(s, e, b, i),
      funding |-> FundingAfter(s, e, b, i)]]]

\* High-water marks are raised to the PnL that the event leaves.
Valued(e) == e.type \in {"MARK_UPDATE", "FILL", "FUNDING_UPDATE"}
HwmAfter(s, t) ==
  [x \in Scope |->
     IF x = Desk THEN Higher(s.hwm[x], DeskTotalPnl(t))
     ELSE IF x \in t.books THEN Higher(s.hwm[x], BookTotalPnl(t, x))
     ELSE s.hwm[x]]

Outcome(s, n, e, t) ==
  /\ t \in RiskState
  /\ t.lastSeq = n /\ t.books = s.books
  /\ t.marks = MarksAfter(s, e)
  /\ t.pos = PosAfter(s, e)
  /\ t.limit = LimitAfter(s, e) /\ t.kill = KillAfter(s, e)
  /\ t.hwm = IF Valued(e) THEN HwmAfter(s, t) ELSE s.hwm

LEMMA SamePos ==
  ASSUME NEW s \in RiskState, NEW e, e.type \notin {"FILL", "FUNDING_UPDATE"}
  PROVE  PosAfter(s, e) = s.pos
<1>1. \A b \in Book, i \in Instrument :
        PosAfter(s, e)[b][i] = s.pos[b][i]
  <2> TAKE b \in Book, i \in Instrument
  <2>1. s.pos[b][i] \in Position
    BY DEF RiskState
  <2>2. PosAfter(s, e)[b][i] = [qty |-> s.pos[b][i].qty, cash |-> s.pos[b][i].cash,
                                funding |-> s.pos[b][i].funding]
    BY DEF PosAfter, QtyAfter, CashAfter, FundingAfter, Fills, Charges
  <2> QED
    BY <2>1, <2>2 DEF Position
<1>2. s.pos \in [Book -> [Instrument -> Position]]
  BY DEF RiskState
<1>3. PosAfter(s, e) = [b \in Book |-> [i \in Instrument |-> PosAfter(s, e)[b][i]]]
  BY DEF PosAfter
<1>4. s.pos = [b \in Book |-> [i \in Instrument |-> s.pos[b][i]]]
  BY <1>2
<1> QED
  BY <1>1, <1>3, <1>4

\* The end of every mark, fill and funding event.
LEMMA ValuedOutcome ==
  ASSUME NEW s \in RiskState, NEW n \in Nat, NEW e, Valued(e), NEW u \in RiskState,
         u.books = s.books, u.marks = MarksAfter(s, e), u.pos = PosAfter(s, e),
         u.hwm = s.hwm, u.limit = s.limit, u.kill = s.kill,
         ApplyEvent(s, n, e) = [UpdateHighWaterMarks(u) EXCEPT !.lastSeq = n]
  PROVE  Outcome(s, n, e, ApplyEvent(s, n, e))
<1> DEFINE v == UpdateHighWaterMarks(u)
           t == [v EXCEPT !.lastSeq = n]
<1>1. /\ v \in RiskState
      /\ v.lastSeq = u.lastSeq /\ v.books = u.books /\ v.marks = u.marks /\ v.pos = u.pos
      /\ v.limit = u.limit /\ v.kill = u.kill
      /\ v.hwm = [x \in Scope |->
                    IF x = Desk THEN Higher(u.hwm[x], DeskTotalPnl(u))
                    ELSE IF x \in u.books THEN Higher(u.hwm[x], BookTotalPnl(u, x))
                    ELSE u.hwm[x]]
  BY HighWaterFields
<1> HIDE DEF v
<1>2. /\ t \in RiskState
      /\ t.lastSeq = n /\ t.books = v.books /\ t.marks = v.marks /\ t.pos = v.pos
      /\ t.hwm = v.hwm /\ t.limit = v.limit /\ t.kill = v.kill
  BY <1>1, NumberField
<1>3. ApplyEvent(s, n, e) = t
  BY DEF v
<1> HIDE DEF t
<1>4. DeskTotalPnl(t) = DeskTotalPnl(u) /\ \A b : BookTotalPnl(t, b) = BookTotalPnl(u, b)
  BY <1>1, <1>2, DeskPnlOf, BookPnlOf
<1>5. t.hwm = HwmAfter(s, t)
  BY <1>1, <1>2, <1>4 DEF HwmAfter
<1>6. e.type \notin {"LIMIT_CHANGE", "KILL_SWITCH"}
  BY DEF Valued
<1>7. LimitAfter(s, e) = s.limit /\ KillAfter(s, e) = s.kill
  BY <1>6 DEF LimitAfter, KillAfter
<1>8. Outcome(s, n, e, t)
  BY <1>1, <1>2, <1>5, <1>7 DEF Outcome
<1> QED
  BY <1>3, <1>8

LEMMA MarkFolds ==
  ASSUME NEW s \in RiskState, NEW n \in Nat, NEW e \in Payload, e.type = "MARK_UPDATE"
  PROVE  Outcome(s, n, e, ApplyEvent(s, n, e))
<1> DEFINE u == [s EXCEPT !.marks[e.instrument] = e.price]
<1>1. e.instrument \in Instrument /\ e.price \in Int
  BY DEF Payload, Audit
<1>2. /\ u \in RiskState
      /\ u.books = s.books /\ u.marks = MarksAfter(s, e) /\ u.pos = s.pos
      /\ u.hwm = s.hwm /\ u.limit = s.limit /\ u.kill = s.kill
  BY <1>1 DEF RiskState, MarksAfter
<1>3. ApplyEvent(s, n, e) = [UpdateHighWaterMarks(u) EXCEPT !.lastSeq = n]
  BY DEF ApplyEvent, ApplyMark
<1>4. u.pos = PosAfter(s, e)
  BY <1>2, SamePos
<1>5. Valued(e)
  BY DEF Valued
<1> HIDE DEF u
<1> QED
  BY <1>2, <1>3, <1>4, <1>5, ValuedOutcome

\* Events that change no value: limits, kill switches, and the audit trail.
LEMMA OtherFolds ==
  ASSUME NEW s \in RiskState, NEW n \in Nat, NEW e \in Payload, ~ Valued(e)
  PROVE  Outcome(s, n, e, ApplyEvent(s, n, e))
<1>1. e.type \in {"LIMIT_CHANGE", "KILL_SWITCH", "AUDIT"}
  BY DEF Payload, Audit, Valued
<1> DEFINE u == CASE e.type = "LIMIT_CHANGE" -> [s EXCEPT !.limit[e.scope] = e.new]
                  [] e.type = "KILL_SWITCH" -> [s EXCEPT !.kill[e.scope] = e.enabled]
                  [] e.type = "AUDIT" -> s
           t == [u EXCEPT !.lastSeq = n]
<1>2. ApplyEvent(s, n, e) = t
  BY <1>1 DEF ApplyEvent
<1>3. /\ u \in RiskState
      /\ u.books = s.books /\ u.marks = s.marks /\ u.pos = s.pos
      /\ u.hwm = s.hwm /\ u.limit = LimitAfter(s, e) /\ u.kill = KillAfter(s, e)
  <2>1. CASE e.type = "LIMIT_CHANGE"
    <3>1. e.scope \in Scope /\ e.new \in Int
      BY <2>1 DEF Payload, Audit
    <3>2. u = [s EXCEPT !.limit[e.scope] = e.new]
      BY <2>1
    <3> HIDE DEF u
    <3> QED
      BY <2>1, <3>1, <3>2 DEF RiskState, LimitAfter, KillAfter
  <2>2. CASE e.type = "KILL_SWITCH"
    <3>1. e.scope \in Scope /\ e.enabled \in BOOLEAN
      BY <2>2 DEF Payload, Audit
    <3>2. u = [s EXCEPT !.kill[e.scope] = e.enabled]
      BY <2>2
    <3> HIDE DEF u
    <3> QED
      BY <2>2, <3>1, <3>2 DEF RiskState, LimitAfter, KillAfter
  <2>3. CASE e.type = "AUDIT"
    <3>1. u = s
      BY <2>3
    <3> HIDE DEF u
    <3> QED
      BY <2>3, <3>1 DEF LimitAfter, KillAfter
  <2> QED
    BY <1>1, <2>1, <2>2, <2>3
<1> HIDE DEF u
<1>4. /\ t \in RiskState
      /\ t.lastSeq = n /\ t.books = u.books /\ t.marks = u.marks /\ t.pos = u.pos
      /\ t.hwm = u.hwm /\ t.limit = u.limit /\ t.kill = u.kill
  BY <1>3, NumberField
<1> HIDE DEF t
<1>5. s.marks = MarksAfter(s, e) /\ s.pos = PosAfter(s, e)
  BY <1>1, SamePos DEF MarksAfter
<1> QED
  BY <1>2, <1>3, <1>4, <1>5 DEF Outcome

LEMMA PosFields ==
  ASSUME NEW s \in RiskState, NEW pos \in [Book -> [Instrument -> Position]]
  PROVE  LET u == [s EXCEPT !.pos = pos]
         IN  /\ u \in RiskState
             /\ u.lastSeq = s.lastSeq /\ u.books = s.books /\ u.marks = s.marks /\ u.pos = pos
             /\ u.hwm = s.hwm /\ u.limit = s.limit /\ u.kill = s.kill
BY DEF RiskState

LEMMA PosAfterTyped ==
  ASSUME NEW s \in RiskState, NEW e \in Payload
  PROVE  PosAfter(s, e) \in [Book -> [Instrument -> Position]]
<1>1. ASSUME NEW b \in Book, NEW i \in Instrument
      PROVE  /\ QtyAfter(s, e, b, i) \in Int /\ CashAfter(s, e, b, i) \in Int
             /\ FundingAfter(s, e, b, i) \in Int
  <2>1. s.pos[b][i] \in Position /\ s.marks[i] \in Int
    BY DEF RiskState
  <2>2. s.pos[b][i].qty \in Int /\ s.pos[b][i].cash \in Int /\ s.pos[b][i].funding \in Int
    BY <2>1 DEF Position
  <2>3. /\ e.type = "FILL" => e.delta \in Int /\ e.price \in Int
        /\ e.type = "FUNDING_UPDATE" => e.rate \in Int
    BY DEF Payload, Audit
  <2>4. \A x, y, z, v \in Int : x + y \in Int /\ x - y * z \in Int /\ x - y * z * v \in Int
    OBVIOUS
  <2> QED
    BY <2>1, <2>2, <2>3, <2>4 DEF QtyAfter, CashAfter, FundingAfter, Fills, Charges
<1> QED
  BY <1>1 DEF PosAfter, Position

LEMMA FundingFolds ==
  ASSUME NEW s \in RiskState, NEW n \in Nat, NEW e \in Payload, e.type = "FUNDING_UPDATE"
  PROVE  Outcome(s, n, e, ApplyEvent(s, n, e))
<1> DEFINE pos == [b \in Book |-> [i \in Instrument |->
                     IF b \in s.books /\ i = e.instrument
                       THEN [s.pos[b][i] EXCEPT
                               !.funding = @ - s.pos[b][i].qty * s.marks[i] * e.rate]
                       ELSE s.pos[b][i]]]
           u == [s EXCEPT !.pos = pos]
<1>1. ApplyEvent(s, n, e) = [UpdateHighWaterMarks(u) EXCEPT !.lastSeq = n]
  BY DEF ApplyEvent, ApplyFunding
<1>2. ASSUME NEW b \in Book, NEW i \in Instrument
      PROVE  pos[b][i] = PosAfter(s, e)[b][i]
  <2>1. s.pos[b][i] \in Position
    BY DEF RiskState
  <2>2. PosAfter(s, e)[b][i] = [qty |-> s.pos[b][i].qty, cash |-> s.pos[b][i].cash,
                                funding |-> FundingAfter(s, e, b, i)]
    BY DEF PosAfter, QtyAfter, CashAfter, Fills
  <2>3. pos[b][i] = IF b \in s.books /\ i = e.instrument
                      THEN [s.pos[b][i] EXCEPT !.funding = FundingAfter(s, e, b, i)]
                      ELSE s.pos[b][i]
    <3> HIDE DEF RiskState
    <3> QED
      BY <2>1 DEF FundingAfter, Charges
  <2>4. ~ (b \in s.books /\ i = e.instrument) => FundingAfter(s, e, b, i) = s.pos[b][i].funding
    BY DEF FundingAfter, Charges
  <2> QED
    BY <2>1, <2>2, <2>3, <2>4 DEF Position
<1>3. pos = PosAfter(s, e)
  <2>1. pos = [b \in Book |-> [i \in Instrument |-> pos[b][i]]]
    OBVIOUS
  <2>2. PosAfter(s, e) = [b \in Book |-> [i \in Instrument |-> PosAfter(s, e)[b][i]]]
    BY DEF PosAfter
  <2> HIDE DEF pos
  <2> QED
    BY <1>2, <2>1, <2>2
<1>4. pos \in [Book -> [Instrument -> Position]]
  BY <1>3, PosAfterTyped
<1> HIDE DEF pos
<1>5. /\ u \in RiskState
      /\ u.lastSeq = s.lastSeq /\ u.books = s.books /\ u.marks = s.marks /\ u.pos = pos
      /\ u.hwm = s.hwm /\ u.limit = s.limit /\ u.kill = s.kill
  BY <1>4, PosFields
<1> HIDE DEF u
<1>6. Valued(e) /\ s.marks = MarksAfter(s, e)
  BY DEF Valued, MarksAfter
<1> QED
  BY <1>1, <1>3, <1>5, <1>6, ValuedOutcome

LEMMA FillFolds ==
  ASSUME NEW s \in RiskState, NEW n \in Nat, NEW e \in Payload, e.type = "FILL"
  PROVE  Outcome(s, n, e, ApplyEvent(s, n, e))
<1> DEFINE b == e.scope
           i == e.instrument
           qty == s.pos[b][i].qty + e.delta
           cash == s.pos[b][i].cash - e.delta * e.price
           once == [s.pos EXCEPT ![b][i].qty = qty]
           pos == [once EXCEPT ![b][i].cash = cash]
           u == [s EXCEPT !.pos = pos]
<1>1. b \in Book /\ i \in Instrument
  BY DEF Payload, Audit
<1>2. [s EXCEPT !.pos[e.scope][e.instrument].qty = @ + e.delta,
                !.pos[e.scope][e.instrument].cash = @ - e.delta * e.price] = u
  <2>1. s.pos \in [Book -> [Instrument -> Position]]
    BY DEF RiskState
  <2>2. s.pos[b][i] = [qty |-> s.pos[b][i].qty, cash |-> s.pos[b][i].cash,
                       funding |-> s.pos[b][i].funding]
    BY <1>1, <2>1 DEF Position
  <2>3. [s EXCEPT !.pos[b][i].qty = @ + e.delta, !.pos[b][i].cash = @ - e.delta * e.price]
        = [s EXCEPT !.pos[b][i].qty = qty, !.pos[b][i].cash = cash]
    <3> HIDE DEF b, i
    <3>1. [s EXCEPT !.pos[b][i].qty = @ + e.delta] = [s EXCEPT !.pos[b][i].qty = qty]
      BY DEF RiskState
    <3>2. [s EXCEPT !.pos[b][i].qty = qty].pos[b][i].cash = s.pos[b][i].cash
      BY <1>1 DEF RiskState, Position
    <3> QED
      BY <3>1, <3>2
  <2> HIDE DEF qty, cash, b, i
  <2>4. [s EXCEPT !.pos[b][i].qty = qty] = [s EXCEPT !.pos = once]
    BY DEF RiskState
  <2> HIDE DEF once
  <2>5. [s EXCEPT !.pos[b][i].qty = qty, !.pos[b][i].cash = cash]
        = [[s EXCEPT !.pos = once] EXCEPT !.pos[b][i].cash = cash]
    BY <2>4 DEF RiskState
  <2>6. [[s EXCEPT !.pos = once] EXCEPT !.pos[b][i].cash = cash] = u
    BY DEF RiskState
  <2> QED
    BY <2>3, <2>5, <2>6 DEF b, i
<1>3. ApplyEvent(s, n, e) = [UpdateHighWaterMarks(u) EXCEPT !.lastSeq = n]
  <2> HIDE DEF u
  <2> QED
    BY <1>2 DEF ApplyEvent, ApplyFill
<1>4. ASSUME NEW c \in Book, NEW j \in Instrument
      PROVE  pos[c][j] = PosAfter(s, e)[c][j]
  <2>1. s.pos[c][j] \in Position /\ s.pos \in [Book -> [Instrument -> Position]]
    BY DEF RiskState
  <2>2. PosAfter(s, e)[c][j] = [qty |-> QtyAfter(s, e, c, j), cash |-> CashAfter(s, e, c, j),
                                funding |-> s.pos[c][j].funding]
    BY DEF PosAfter, FundingAfter, Charges
  <2>3. CASE c = b /\ j = i
    <3>1. QtyAfter(s, e, c, j) = qty /\ CashAfter(s, e, c, j) = cash
      BY <2>3 DEF QtyAfter, CashAfter, Fills
    <3> HIDE DEF qty, cash, b, i
    <3>2. pos[c][j] = [[s.pos[c][j] EXCEPT !.qty = qty] EXCEPT !.cash = cash]
      BY <1>1, <2>1, <2>3
    <3> QED
      BY <2>1, <2>2, <3>1, <3>2 DEF Position
  <2>4. CASE ~ (c = b /\ j = i)
    <3>1. QtyAfter(s, e, c, j) = s.pos[c][j].qty /\ CashAfter(s, e, c, j) = s.pos[c][j].cash
      BY <2>4 DEF QtyAfter, CashAfter, Fills
    <3> HIDE DEF qty, cash, b, i
    <3>2. pos[c][j] = s.pos[c][j]
      BY <1>1, <2>1, <2>4
    <3> QED
      BY <2>1, <2>2, <3>1, <3>2 DEF Position
  <2> QED
    BY <2>3, <2>4
<1>5. pos = PosAfter(s, e)
  <2>1. s.pos = [c \in Book |-> [j \in Instrument |-> s.pos[c][j]]]
    BY DEF RiskState
  <2>2. pos = [c \in Book |-> [j \in Instrument |-> pos[c][j]]]
    <3> HIDE DEF qty, cash, b, i
    <3> QED
      BY <1>1, <2>1
  <2>3. PosAfter(s, e) = [c \in Book |-> [j \in Instrument |-> PosAfter(s, e)[c][j]]]
    BY DEF PosAfter
  <2> HIDE DEF pos
  <2> QED
    BY <1>4, <2>2, <2>3
<1> HIDE DEF pos
<1>6. pos \in [Book -> [Instrument -> Position]]
  BY <1>5, PosAfterTyped
<1>7. /\ u \in RiskState
      /\ u.lastSeq = s.lastSeq /\ u.books = s.books /\ u.marks = s.marks /\ u.pos = pos
      /\ u.hwm = s.hwm /\ u.limit = s.limit /\ u.kill = s.kill
  BY <1>6, PosFields
<1> HIDE DEF u
<1>8. Valued(e) /\ s.marks = MarksAfter(s, e)
  BY DEF Valued, MarksAfter
<1> QED
  BY <1>3, <1>5, <1>7, <1>8, ValuedOutcome

\* Every event the log may hold.
LEMMA EventFolds ==
  ASSUME NEW s \in RiskState, NEW n \in Nat, NEW e \in Payload
  PROVE  Outcome(s, n, e, ApplyEvent(s, n, e))
<1>1. Valued(e) => e.type \in {"MARK_UPDATE", "FILL", "FUNDING_UPDATE"}
  BY DEF Valued
<1> QED
  BY <1>1, MarkFolds, FillFolds, FundingFolds, OtherFolds

-----------------------------------------------------------------------------
(* The same events leave two states equally alike *)

\* Agreement in what the gate's limits rest on: positions but for funding, limits,
\* kill switches, and the number of the last event.  Rosters and marks may differ.
Alike(s, t) ==
  /\ s.lastSeq = t.lastSeq /\ s.limit = t.limit /\ s.kill = t.kill
  /\ \A b \in Book, i \in Instrument :
       s.pos[b][i].qty = t.pos[b][i].qty /\ s.pos[b][i].cash = t.pos[b][i].cash

\* A book that s does not have has no part in t, and everything else is the same.
Trimmed(s, t) ==
  /\ t.books = Book
  /\ s.lastSeq = t.lastSeq /\ s.limit = t.limit /\ s.kill = t.kill
  /\ s.marks = t.marks /\ s.pos = t.pos /\ s.hwm = t.hwm
  /\ \A b \in Book \ s.books :
       t.hwm[b] = 0 /\ \A i \in Instrument : t.pos[b][i] = FlatPosition

LEMMA AlikeStep ==
  ASSUME NEW s \in RiskState, NEW t \in RiskState, Alike(s, t), NEW n \in Nat, NEW e \in Payload
  PROVE  Alike(ApplyEvent(s, n, e), ApplyEvent(t, n, e))
<1> DEFINE u == ApplyEvent(s, n, e)
           v == ApplyEvent(t, n, e)
<1>1. Outcome(s, n, e, u) /\ Outcome(t, n, e, v)
  BY EventFolds
<1> HIDE DEF u, v
<1>2. u.lastSeq = v.lastSeq /\ u.limit = v.limit /\ u.kill = v.kill
  BY <1>1 DEF Outcome, Alike, LimitAfter, KillAfter
<1>3. ASSUME NEW b \in Book, NEW i \in Instrument
      PROVE  u.pos[b][i].qty = v.pos[b][i].qty /\ u.pos[b][i].cash = v.pos[b][i].cash
  <2>1. /\ u.pos[b][i].qty = QtyAfter(s, e, b, i) /\ u.pos[b][i].cash = CashAfter(s, e, b, i)
        /\ v.pos[b][i].qty = QtyAfter(t, e, b, i) /\ v.pos[b][i].cash = CashAfter(t, e, b, i)
    BY <1>1 DEF Outcome, PosAfter
  <2>2. s.pos[b][i].qty = t.pos[b][i].qty /\ s.pos[b][i].cash = t.pos[b][i].cash
    BY DEF Alike
  <2> QED
    BY <2>1, <2>2 DEF QtyAfter, CashAfter
<1> QED
  BY <1>2, <1>3 DEF u, v, Alike

\* A flat book that is not in the roster stays flat and is worth nothing.
LEMMA FlatIsWorthless ==
  ASSUME NEW t \in RiskState, NEW b \in Book, \A i \in Instrument : t.pos[b][i] = FlatPosition
  PROVE  BookTotalPnl(t, b) = 0
<1> DEFINE f == [i \in Instrument |->
                   t.pos[b][i].cash + t.pos[b][i].qty * t.marks[i] + t.pos[b][i].funding]
           none == [i \in {} |-> 0]
<1>1. \A i \in Instrument : f[i] = 0
  <2> TAKE i \in Instrument
  <2>1. t.marks[i] \in Int
    BY DEF RiskState
  <2>2. t.pos[b][i].cash = 0 /\ t.pos[b][i].qty = 0 /\ t.pos[b][i].funding = 0
    BY DEF FlatPosition
  <2>3. f[i] = 0 + 0 * t.marks[i] + 0
    BY <2>2
  <2> QED
    BY <2>1, <2>3
<1>2. BookTotalPnl(t, b) = SumOver(Instrument, f)
  BY DEF BookTotalPnl
<1> HIDE DEF f
<1>3. IsFiniteSet(Instrument) /\ {} \in SUBSET Instrument
  BY FoldAssumption DEF FoldAssumption
<1>4. SumOver(Instrument, f) = SumOver({}, none)
  BY <1>1, <1>3, SumTrim
<1>5. SumOver({}, none) = 0
  BY FS_EmptySet, SumOverFirst
<1> QED
  BY <1>2, <1>4, <1>5

LEMMA TrimmedPnl ==
  ASSUME NEW s \in RiskState, NEW t \in RiskState, t.books = Book,
         s.marks = t.marks, s.pos = t.pos,
         \A b \in Book \ s.books : \A i \in Instrument : t.pos[b][i] = FlatPosition
  PROVE  /\ \A b \in Book : BookTotalPnl(s, b) = BookTotalPnl(t, b)
         /\ DeskTotalPnl(s) = DeskTotalPnl(t)
<1>1. \A b \in Book : BookTotalPnl(s, b) = BookTotalPnl(t, b)
  BY BookPnlOf
<1> DEFINE X == s.books
           f == [b \in Book |-> BookTotalPnl(t, b)]
           g == [b \in X |-> BookTotalPnl(s, b)]
<1>2. X \in SUBSET Book
  BY DEF RiskState
<1>3. \A b \in X : f[b] = g[b] /\ g[b] \in Int
  BY <1>1, <1>2, PnlInt
<1>4. \A b \in Book \ X : f[b] = 0
  BY FlatIsWorthless
<1>5. DeskTotalPnl(t) = SumOver(Book, f) /\ DeskTotalPnl(s) = SumOver(X, g)
  BY DEF DeskTotalPnl
<1> HIDE DEF f, g, X
<1>6. SumOver(Book, f) = SumOver(X, g)
  BY <1>2, <1>3, <1>4, SumTrim, FoldAssumption DEF FoldAssumption
<1> QED
  BY <1>1, <1>5, <1>6

LEMMA TrimmedStep ==
  ASSUME NEW s \in RiskState, NEW t \in RiskState, Trimmed(s, t), NEW n \in Nat, NEW e \in Payload,
         e.type = "FILL" => e.scope \in s.books
  PROVE  Trimmed(ApplyEvent(s, n, e), ApplyEvent(t, n, e))
<1> DEFINE u == ApplyEvent(s, n, e)
           v == ApplyEvent(t, n, e)
<1>1. Outcome(s, n, e, u) /\ Outcome(t, n, e, v)
  BY EventFolds
<1> HIDE DEF u, v
<1>2. u \in RiskState /\ v \in RiskState /\ u.books = s.books /\ v.books = Book
  BY <1>1 DEF Outcome, Trimmed
<1>3. u.lastSeq = v.lastSeq /\ u.limit = v.limit /\ u.kill = v.kill /\ u.marks = v.marks
  BY <1>1 DEF Outcome, Trimmed, LimitAfter, KillAfter, MarksAfter
<1>4. ASSUME NEW b \in Book, NEW i \in Instrument
      PROVE  FundingAfter(s, e, b, i) = FundingAfter(t, e, b, i)
  <2>1. CASE b \in s.books
    BY <2>1 DEF Trimmed, FundingAfter, Charges
  <2>2. CASE b \notin s.books
    <3>1. t.pos[b][i].qty = 0 /\ t.pos[b][i].funding = 0 /\ s.pos[b][i].funding = 0
      BY <2>2 DEF Trimmed, FlatPosition
    <3>2. t.marks[i] \in Int /\ (e.type = "FUNDING_UPDATE" => e.rate \in Int)
      BY DEF RiskState, Payload, Audit
    <3>3. \A x, y \in Int : 0 - 0 * x * y = 0
      OBVIOUS
    <3>4. FundingAfter(t, e, b, i) = 0
      BY <3>1, <3>2, <3>3 DEF FundingAfter, Charges
    <3>5. FundingAfter(s, e, b, i) = 0
      BY <2>2, <3>1 DEF FundingAfter, Charges
    <3> QED
      BY <3>4, <3>5
  <2> QED
    BY <2>1, <2>2
<1>5. u.pos = v.pos
  <2>1. \A b \in Book, i \in Instrument :
          QtyAfter(s, e, b, i) = QtyAfter(t, e, b, i) /\ CashAfter(s, e, b, i) = CashAfter(t, e, b, i)
    BY DEF Trimmed, QtyAfter, CashAfter
  <2>2. PosAfter(s, e) = PosAfter(t, e)
    BY <1>4, <2>1 DEF PosAfter
  <2> QED
    BY <1>1, <2>2 DEF Outcome
<1>6. ASSUME NEW b \in Book \ s.books, NEW i \in Instrument
      PROVE  v.pos[b][i] = FlatPosition
  <2>1. ~ Fills(e, b, i)
    BY DEF Fills
  <2>2. /\ QtyAfter(t, e, b, i) = 0 /\ CashAfter(t, e, b, i) = 0
    BY <2>1 DEF QtyAfter, CashAfter, Trimmed, FlatPosition
  <2>3. FundingAfter(t, e, b, i) = 0
    <3>1. FundingAfter(s, e, b, i) = s.pos[b][i].funding
      BY DEF FundingAfter, Charges
    <3>2. s.pos[b][i].funding = 0
      BY DEF Trimmed, FlatPosition
    <3> QED
      BY <1>4, <3>1, <3>2
  <2>4. v.pos[b][i] = [qty |-> QtyAfter(t, e, b, i), cash |-> CashAfter(t, e, b, i),
                       funding |-> FundingAfter(t, e, b, i)]
    BY <1>1 DEF Outcome, PosAfter
  <2> QED
    BY <2>2, <2>3, <2>4 DEF FlatPosition
<1>7. /\ \A b \in Book : BookTotalPnl(u, b) = BookTotalPnl(v, b)
      /\ DeskTotalPnl(u) = DeskTotalPnl(v)
  BY <1>2, <1>3, <1>5, <1>6, TrimmedPnl
<1>8. \A b \in Book \ s.books : BookTotalPnl(v, b) = 0
  BY <1>2, <1>6, FlatIsWorthless
<1>9. \A b \in Book \ s.books : v.hwm[b] = 0
  <2> TAKE b \in Book \ s.books
  <2>1. t.hwm[b] = 0
    BY DEF Trimmed
  <2>2. b # Desk /\ b \in Scope
    BY FoldAssumption DEF FoldAssumption, Scope
  <2>3. HwmAfter(t, v)[b] = 0
    BY <1>2, <1>8, <2>1, <2>2 DEF HwmAfter, Higher
  <2> QED
    BY <1>1, <2>1, <2>3 DEF Outcome
<1>10. u.hwm = v.hwm
  <2>1. CASE ~ Valued(e)
    BY <1>1, <2>1 DEF Outcome, Trimmed
  <2>2. CASE Valued(e)
    <3>1. u.hwm = HwmAfter(s, u) /\ v.hwm = HwmAfter(t, v) /\ s.hwm = t.hwm
      BY <1>1, <2>2 DEF Outcome, Trimmed
    <3>2. ASSUME NEW x \in Scope PROVE HwmAfter(s, u)[x] = HwmAfter(t, v)[x]
      <4>1. CASE x = Desk
        BY <1>7, <3>1, <4>1 DEF HwmAfter
      <4>2. CASE x \in s.books /\ x # Desk
        <5>1. x \in Book
          BY <4>2 DEF RiskState
        <5> QED
          BY <1>2, <1>7, <3>1, <4>2, <5>1 DEF HwmAfter
      <4>3. CASE x \notin s.books /\ x # Desk
        <5>1. x \in Book \ s.books
          BY <4>3 DEF Scope
        <5>2. HwmAfter(s, u)[x] = s.hwm[x]
          BY <1>2, <4>3, <3>2 DEF HwmAfter
        <5> QED
          BY <1>9, <3>1, <5>1, <5>2 DEF Trimmed
      <4> QED
        BY <4>1, <4>2, <4>3
    <3>3. /\ HwmAfter(s, u) = [x \in Scope |-> HwmAfter(s, u)[x]]
          /\ HwmAfter(t, v) = [x \in Scope |-> HwmAfter(t, v)[x]]
      BY DEF HwmAfter
    <3> QED
      BY <3>1, <3>2, <3>3
  <2> QED
    BY <2>1, <2>2
<1> QED
  BY <1>2, <1>3, <1>5, <1>6, <1>9, <1>10 DEF u, v, Trimmed

-----------------------------------------------------------------------------
(* Whole logs *)

TradesWithin(L, X) == \A n \in DOMAIN L : L[n].type = "FILL" => L[n].scope \in X

\* The state is that of the log, event for event; with marks and all, fully.
Agrees(s, L) ==
  /\ s \in RiskState
  /\ Alike(s, Replay(Fresh(Book), L))
  /\ TradesWithin(L, s.books)
AgreesFully(s, L) == Agrees(s, L) /\ Trimmed(s, Replay(Fresh(Book), L))

LEMMA Prefixes ==
  ASSUME NEW E, NEW L \in Seq(E)
  PROVE  /\ SubSeq(L, 1, 0) = <<>> /\ SubSeq(L, 1, Len(L)) = L
         /\ \A n \in 0..Len(L) :
              /\ SubSeq(L, 1, n) \in Seq(E) /\ Len(SubSeq(L, 1, n)) = n
              /\ \A k \in 1..n : SubSeq(L, 1, n)[k] = L[k]
         /\ \A n \in 0..(Len(L) - 1) :
              /\ L[n + 1] \in E
              /\ SubSeq(L, 1, n + 1) = Append(SubSeq(L, 1, n), L[n + 1])
<1>1. SubSeq(L, 1, 0) = <<>> /\ SubSeq(L, 1, Len(L)) = L
  OBVIOUS
<1>2. ASSUME NEW n \in 0..Len(L)
      PROVE  /\ SubSeq(L, 1, n) \in Seq(E) /\ Len(SubSeq(L, 1, n)) = n
             /\ \A k \in 1..n : SubSeq(L, 1, n)[k] = L[k]
  OBVIOUS
<1>3. ASSUME NEW n \in 0..(Len(L) - 1)
      PROVE  L[n + 1] \in E /\ SubSeq(L, 1, n + 1) = Append(SubSeq(L, 1, n), L[n + 1])
  <2> DEFINE a == SubSeq(L, 1, n + 1)
             b == Append(SubSeq(L, 1, n), L[n + 1])
  <2>1. L[n + 1] \in E
    OBVIOUS
  <2>2. a \in Seq(E) /\ Len(a) = n + 1 /\ \A k \in 1..(n + 1) : a[k] = L[k]
    OBVIOUS
  <2>3. b \in Seq(E) /\ Len(b) = n + 1 /\ \A k \in 1..(n + 1) : b[k] = L[k]
    BY <2>1
  <2>4. \A k \in 1..Len(a) : a[k] = b[k]
    BY <2>2, <2>3
  <2> HIDE DEF a, b
  <2>5. a = b
    BY <2>2, <2>3, <2>4, SeqEqual
  <2> QED
    BY <2>1, <2>5 DEF a, b
<1> QED
  BY <1>1, <1>2, <1>3

\* A prefix stays one when the log grows, and when less of it is cut off.
LEMMA PrefixOfAppend ==
  ASSUME NEW E, NEW L \in Seq(E), NEW e \in E, NEW k \in 0..Len(L)
  PROVE  SubSeq(Append(L, e), 1, k) = SubSeq(L, 1, k)
<1> DEFINE a == SubSeq(Append(L, e), 1, k)
           b == SubSeq(L, 1, k)
<1>1. b \in Seq(E) /\ Len(b) = k /\ \A j \in 1..k : b[j] = L[j]
  OBVIOUS
<1>2. a \in Seq(E) /\ Len(a) = k /\ \A j \in 1..k : a[j] = L[j]
  <2>1. Append(L, e) \in Seq(E) /\ k <= Len(Append(L, e)) /\ \A j \in 1..k : Append(L, e)[j] = L[j]
    OBVIOUS
  <2> DEFINE M == Append(L, e)
  <2> HIDE DEF M
  <2>2. M \in Seq(E) /\ k \in 0..Len(M) /\ \A j \in 1..k : M[j] = L[j]
    BY <2>1 DEF M
  <2>3. SubSeq(M, 1, k) \in Seq(E) /\ Len(SubSeq(M, 1, k)) = k /\ \A j \in 1..k : SubSeq(M, 1, k)[j] = M[j]
    BY <2>2
  <2> QED
    BY <2>2, <2>3 DEF M
<1>3. \A j \in 1..Len(a) : a[j] = b[j]
  BY <1>1, <1>2
<1> HIDE DEF a, b
<1>4. a = b
  BY <1>1, <1>2, <1>3, SeqEqual
<1> QED
  BY <1>4 DEF a, b

LEMMA PrefixOfPrefix ==
  ASSUME NEW E, NEW L \in Seq(E), NEW n \in 0..Len(L), NEW k \in 0..n
  PROVE  SubSeq(SubSeq(L, 1, n), 1, k) = SubSeq(L, 1, k)
<1> DEFINE M == SubSeq(L, 1, n)
           a == SubSeq(M, 1, k)
           b == SubSeq(L, 1, k)
<1>1. b \in Seq(E) /\ Len(b) = k /\ \A j \in 1..k : b[j] = L[j]
  OBVIOUS
<1>2. M \in Seq(E) /\ Len(M) = n /\ \A j \in 1..n : M[j] = L[j]
  OBVIOUS
<1> HIDE DEF M
<1>3. a \in Seq(E) /\ Len(a) = k /\ \A j \in 1..k : a[j] = M[j]
  BY <1>2
<1>4. \A j \in 1..Len(a) : a[j] = b[j]
  BY <1>1, <1>2, <1>3
<1> HIDE DEF a, b
<1>5. a = b
  BY <1>1, <1>3, <1>4, SeqEqual
<1> QED
  BY <1>5 DEF a, b, M

\* A replay ends in a state, keeps the roster, and its number is that of the last
\* event, unless it started from a higher one.
LEMMA ReplayTyped ==
  ASSUME NEW L \in Seq(Payload), NEW s \in RiskState
  PROVE  /\ Replay(s, L) \in RiskState
         /\ Replay(s, L).lastSeq = Higher(s.lastSeq, Len(L))
         /\ Replay(s, L).books = s.books
<1> DEFINE at(n) == Replay(s, SubSeq(L, 1, n))
           Good(n) == /\ at(n) \in RiskState /\ at(n).lastSeq = Higher(s.lastSeq, n)
                      /\ at(n).books = s.books
           P == {n \in Nat : n <= Len(L) => Good(n)}
<1>1. s.lastSeq \in Nat
  BY DEF RiskState
<1>2. 0 \in P
  <2>1. at(0) = s
    BY Prefixes, ReplayNothing
  <2> HIDE DEF at
  <2> QED
    BY <1>1, <2>1 DEF Higher
<1>3. ASSUME NEW n \in Nat, n \in P PROVE n + 1 \in P
  <2> SUFFICES ASSUME n + 1 <= Len(L) PROVE Good(n + 1)
    OBVIOUS
  <2> DEFINE e == L[n + 1]
             M == SubSeq(L, 1, n)
             N == Append(M, e)
  <2>1. e \in Payload /\ M \in Seq(Payload) /\ Len(M) = n /\ SubSeq(L, 1, n + 1) = N
    <3>1. n \in 0..Len(L) /\ n \in 0..(Len(L) - 1)
      OBVIOUS
    <3> QED
      BY <3>1, Prefixes
  <2>2. Good(n)
    BY <1>3
  <2>3. at(n) = Replay(s, M) /\ at(n + 1) = Replay(s, N)
    BY <2>1
  <2> HIDE DEF e, M
  <2>4. at(n + 1) = FoldStep(at(n), n + 1, e)
    BY <2>1, <2>3, ReplayAppend
  <2> HIDE DEF at
  <2>5. CASE n + 1 > s.lastSeq
    <3>1. at(n).lastSeq < n + 1
      BY <1>1, <2>2, <2>5 DEF Higher
    <3>2. at(n + 1) = ApplyEvent(at(n), n + 1, e)
      BY <2>4, <3>1 DEF FoldStep, Newer
    <3>3. Outcome(at(n), n + 1, e, ApplyEvent(at(n), n + 1, e))
      BY <2>1, <2>2, EventFolds
    <3>4. Higher(s.lastSeq, n + 1) = n + 1
      BY <1>1, <2>5 DEF Higher
    <3> QED
      BY <2>2, <3>2, <3>3, <3>4 DEF Outcome
  <2>6. CASE ~ (n + 1 > s.lastSeq)
    <3>1. at(n).lastSeq = s.lastSeq /\ Higher(s.lastSeq, n + 1) = s.lastSeq
      BY <1>1, <2>2, <2>6 DEF Higher
    <3>2. at(n + 1) = at(n)
      BY <2>4, <2>6, <3>1 DEF FoldStep, Newer
    <3> QED
      BY <2>2, <3>1, <3>2
  <2> QED
    BY <2>5, <2>6
<1>4. P \in SUBSET Nat
  OBVIOUS
<1>5. Len(L) \in Nat /\ SubSeq(L, 1, Len(L)) = L
  BY Prefixes
<1> HIDE DEF P
<1>6. Len(L) \in P
  BY <1>2, <1>3, <1>4, <1>5, Induction
<1>7. at(Len(L)) = Replay(s, L)
  BY <1>5
<1> HIDE DEF at
<1> QED
  BY <1>5, <1>6, <1>7 DEF P

\* The fold of a whole log has the number of its last event.
LEMMA ReferenceTyped ==
  ASSUME NEW L \in Seq(Payload)
  PROVE  /\ Replay(Fresh(Book), L) \in RiskState
         /\ Replay(Fresh(Book), L).lastSeq = Len(L)
         /\ Replay(Fresh(Book), L).books = Book
<1> DEFINE s == Fresh(Book)
<1>1. s \in RiskState /\ s.lastSeq = 0 /\ s.books = Book
  BY FreshIsState DEF Fresh
<1> HIDE DEF s
<1>2. /\ Replay(s, L) \in RiskState /\ Replay(s, L).books = s.books
      /\ Replay(s, L).lastSeq = Higher(s.lastSeq, Len(L))
  BY <1>1, ReplayTyped
<1>3. Higher(0, Len(L)) = Len(L)
  BY DEF Higher
<1> QED
  BY <1>1, <1>2, <1>3 DEF s

\* StateStore.record and the loop of recover_state: one event more, on both sides.
LEMMA AgreesStep ==
  ASSUME NEW L \in Seq(Payload), NEW s, Agrees(s, L), NEW e \in Payload,
         e.type = "FILL" => e.scope \in s.books
  PROVE  LET t == ApplyEvent(s, Len(L) + 1, e)
         IN  /\ Agrees(t, Append(L, e)) /\ t.books = s.books /\ t.lastSeq = Len(L) + 1
             /\ AgreesFully(s, L) => AgreesFully(t, Append(L, e))
<1> DEFINE n == Len(L) + 1
           t == ApplyEvent(s, n, e)
           ref == Replay(Fresh(Book), L)
           M == Append(L, e)
<1>1. n \in Nat /\ s \in RiskState
  BY DEF Agrees
<1>2. ref \in RiskState /\ ref.lastSeq = Len(L)
  BY ReferenceTyped
<1>3. Replay(Fresh(Book), M) = ApplyEvent(ref, n, e)
  <2>1. Replay(Fresh(Book), M) = FoldStep(ref, n, e)
    BY ReplayAppend
  <2>2. n > ref.lastSeq
    BY <1>2
  <2> HIDE DEF ref, n
  <2> QED
    BY <2>1, <2>2 DEF FoldStep, Newer
<1>4. Outcome(s, n, e, t)
  BY <1>1, EventFolds
<1>5. Alike(s, ref)
  BY DEF Agrees
<1>6. TradesWithin(M, s.books)
  <2>1. ASSUME NEW k \in DOMAIN M, M[k].type = "FILL" PROVE M[k].scope \in s.books
    <3>1. k \in 1..(Len(L) + 1) /\ (k = Len(L) + 1 => M[k] = e) /\ (k \in 1..Len(L) => M[k] = L[k])
      BY <2>1
    <3>2. CASE k = Len(L) + 1
      BY <2>1, <3>1, <3>2
    <3>3. CASE k # Len(L) + 1
      <4>1. k \in DOMAIN L /\ M[k] = L[k]
        BY <3>1, <3>3
      <4> QED
        BY <2>1, <4>1 DEF Agrees, TradesWithin
    <3> QED
      BY <3>2, <3>3
  <2> QED
    BY <2>1 DEF TradesWithin
<1> HIDE DEF n, ref, M
<1>7. Alike(t, ApplyEvent(ref, n, e))
  BY <1>1, <1>2, <1>5, AlikeStep
<1>8. Trimmed(s, ref) => Trimmed(t, ApplyEvent(ref, n, e))
  BY <1>1, <1>2, TrimmedStep
<1> HIDE DEF t
<1>9. t \in RiskState /\ t.books = s.books /\ t.lastSeq = n
  BY <1>4 DEF Outcome
<1>10. Agrees(t, M) /\ t.books = s.books /\ t.lastSeq = n /\ (AgreesFully(s, L) => AgreesFully(t, M))
  BY <1>3, <1>6, <1>7, <1>8, <1>9 DEF Agrees, AgreesFully, ref
<1> QED
  BY <1>10 DEF n, t, M

\* A replay that starts from the state of a prefix, and skips that prefix by its
\* number, ends with the state of the whole log.
LEMMA ReplayResumes ==
  ASSUME NEW L \in Seq(Payload), NEW s, s.lastSeq \in 0..Len(L),
         Agrees(s, SubSeq(L, 1, s.lastSeq)), TradesWithin(L, s.books)
  PROVE  /\ Agrees(Replay(s, L), L) /\ Replay(s, L).books = s.books
         /\ AgreesFully(s, SubSeq(L, 1, s.lastSeq)) => AgreesFully(Replay(s, L), L)
<1> DEFINE k == s.lastSeq
           at(n) == Replay(s, SubSeq(L, 1, n))
           Good(n) == /\ Agrees(at(n), SubSeq(L, 1, n)) /\ at(n).books = s.books
                      /\ AgreesFully(s, SubSeq(L, 1, k)) => AgreesFully(at(n), SubSeq(L, 1, n))
           P == {n \in Nat : n <= Len(L) => (n <= k => at(n) = s) /\ (n >= k => Good(n))}
<1>1. 0 \in P
  <2>1. at(0) = s
    BY Prefixes, ReplayNothing
  <2>2. 0 >= k => k = 0
    OBVIOUS
  <2> HIDE DEF at
  <2> QED
    BY <2>1, <2>2
<1>2. ASSUME NEW n \in Nat, n \in P PROVE n + 1 \in P
  <2> SUFFICES ASSUME n + 1 <= Len(L)
               PROVE  (n + 1 <= k => at(n + 1) = s) /\ (n + 1 >= k => Good(n + 1))
    OBVIOUS
  <2> DEFINE e == L[n + 1]
             M == SubSeq(L, 1, n)
             N == SubSeq(L, 1, n + 1)
  <2>1. e \in Payload /\ M \in Seq(Payload) /\ Len(M) = n /\ N = Append(M, e)
    <3>1. n \in 0..Len(L) /\ n \in 0..(Len(L) - 1)
      OBVIOUS
    <3> QED
      BY <3>1, Prefixes
  <2>2. at(n) = Replay(s, M) /\ at(n + 1) = Replay(s, N)
    OBVIOUS
  <2>3. (n <= k => at(n) = s) /\ (n >= k => Good(n))
    BY <1>2
  <2>4. e.type = "FILL" => e.scope \in s.books
    <3>1. n + 1 \in DOMAIN L
      OBVIOUS
    <3> QED
      BY <3>1 DEF TradesWithin
  <2> HIDE DEF e
  <2>5. at(n + 1) = FoldStep(at(n), n + 1, e)
    <3> HIDE DEF M, N
    <3> QED
      BY <2>1, <2>2, ReplayAppend
  <2>6. CASE n + 1 <= k
    <3>1. at(n) = s /\ ~ Newer(n + 1, s)
      BY <2>3, <2>6 DEF Newer
    <3>2. at(n + 1) = s
      <4> HIDE DEF at
      <4> QED
        BY <2>5, <3>1 DEF FoldStep
    <3>3. n + 1 >= k => n + 1 = k
      BY <2>6
    <3>4. n + 1 >= k => Good(n + 1)
      <4> HIDE DEF at
      <4> QED
        BY <3>2, <3>3
    <3> QED
      BY <3>2, <3>4
  <2>7. CASE ~ (n + 1 <= k)
    <3>1. Good(n)
      BY <2>3, <2>7
    <3>2. Agrees(at(n), M) /\ at(n).books = s.books
      BY <3>1
    <3>3. (AgreesFully(s, SubSeq(L, 1, k)) => AgreesFully(at(n), M))
      BY <3>1
    <3> HIDE DEF at, k
    <3>4. at(n).lastSeq = n
      <4>1. Replay(Fresh(Book), M).lastSeq = n
        <5> HIDE DEF M
        <5> QED
          BY <2>1, ReferenceTyped
      <4> QED
        BY <3>2, <4>1 DEF Agrees, Alike
    <3>5. at(n + 1) = ApplyEvent(at(n), n + 1, e)
      BY <2>5, <3>4 DEF FoldStep, Newer
    <3> HIDE DEF M, N
    <3> DEFINE a == at(n)
    <3>6. Agrees(a, M) /\ (e.type = "FILL" => e.scope \in a.books)
      BY <2>4, <3>2
    <3> HIDE DEF a
    <3> DEFINE t == ApplyEvent(a, Len(M) + 1, e)
    <3>7. /\ Agrees(t, Append(M, e)) /\ t.books = a.books
          /\ AgreesFully(a, M) => AgreesFully(t, Append(M, e))
      BY <2>1, <3>6, AgreesStep
    <3>8. t = at(n + 1)
      BY <2>1, <3>5 DEF a
    <3> HIDE DEF t
    <3>9. /\ Agrees(at(n + 1), N) /\ at(n + 1).books = s.books
          /\ AgreesFully(s, SubSeq(L, 1, k)) => AgreesFully(at(n + 1), N)
      BY <2>1, <3>2, <3>3, <3>7, <3>8 DEF a
    <3> QED
      BY <2>7, <3>9 DEF N, k
  <2> QED
    BY <2>6, <2>7
<1>3. P \in SUBSET Nat
  OBVIOUS
<1>4. Len(L) \in Nat /\ SubSeq(L, 1, Len(L)) = L /\ Len(L) <= Len(L) /\ Len(L) >= k
  BY Prefixes
<1> HIDE DEF P
<1>5. Len(L) \in P
  BY <1>1, <1>2, <1>3, <1>4, Induction
<1>6. at(Len(L)) = Replay(s, L)
  BY <1>4
<1>7. Good(Len(L))
  BY <1>4, <1>5 DEF P
<1> HIDE DEF at
<1> QED
  BY <1>4, <1>6, <1>7

\* Any roster will do for the empty log.
LEMMA FreshAgrees ==
  ASSUME NEW X \in SUBSET Book
  PROVE  AgreesFully(Fresh(X), <<>>)
<1>1. Replay(Fresh(Book), <<>>) = Fresh(Book) /\ Fresh(X) \in RiskState
  BY ReplayNothing, FreshIsState
<1>2. Alike(Fresh(X), Fresh(Book))
  BY DEF Alike, Fresh
<1>3. Trimmed(Fresh(X), Fresh(Book))
  BY DEF Trimmed, Fresh, Scope
<1>4. TradesWithin(<<>>, Fresh(X).books)
  BY DEF TradesWithin
<1> QED
  BY <1>1, <1>2, <1>3, <1>4 DEF AgreesFully, Agrees

\* A fold for fewer books, all that ever traded among them, is no other fold.
LEMMA RosterApart ==
  ASSUME NEW L \in Seq(Payload), NEW X \in SUBSET Book, TradesWithin(L, X)
  PROVE  AgreesFully(Replay(Fresh(X), L), L)
<1> DEFINE s == Fresh(X)
<1>1. s.lastSeq = 0 /\ s.books = X
  BY DEF Fresh
<1>2. AgreesFully(s, SubSeq(L, 1, s.lastSeq))
  BY <1>1, FreshAgrees, Prefixes
<1> HIDE DEF s
<1>3. Agrees(s, SubSeq(L, 1, s.lastSeq)) /\ s.lastSeq \in 0..Len(L) /\ TradesWithin(L, s.books)
  BY <1>1, <1>2 DEF AgreesFully
<1>4. AgreesFully(Replay(s, L), L)
  BY <1>2, <1>3, ReplayResumes
<1> QED
  BY <1>4 DEF s
=============================================================================

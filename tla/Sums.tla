-------------------------------- MODULE Sums --------------------------------
(***************************************************************************)
(* Sums over finite sets.  MapThenSumSet of the community modules is a fold *)
(* whose order is that of CHOOSE; here it is shown to have the laws of a    *)
(* sum.  The induction is a least counterexample among the subsets of a     *)
(* finite set, so that no lemma takes an operator as a parameter: a sum is  *)
(* that of a function, Total(f, S), and a lemma at the place of its use     *)
(* shows that a particular MapThenSumSet is one.                           *)
(***************************************************************************)
EXTENDS FiniteSetsExt, FiniteSetTheorems, WellFoundedInduction, TLAPS

\* The induction: among sets of subsets of a finite set there is a least one.
LEMMA LeastSubset ==
  ASSUME NEW S, IsFiniteSet(S), NEW B, B \subseteq SUBSET S, B # {}
  PROVE  \E s \in B : \A t \in B : t \subseteq s => t = s
<1>1. IsWellFoundedOn(StrictSubsetOrdering(S), FiniteSubsetsOf(S))
  BY FS_StrictSubsetOrderingWellFounded
<1>2. B \subseteq FiniteSubsetsOf(S)
  BY FS_FiniteSubsetsOfFinite
<1>3. PICK s \in B : \A t \in B : <<t, s>> \notin StrictSubsetOrdering(S)
  BY <1>1, <1>2, WFMin
<1> QED
  BY <1>3 DEF StrictSubsetOrdering

First(s) == CHOOSE x \in s : TRUE

\* What iter is in the definition of MapThenFoldSet.
IsFold(iter, f, S) ==
  iter = [s \in SUBSET S |-> IF s = {} THEN 0 ELSE f[First(s)] + iter[s \ {First(s)}]]

LEMMA FirstIsMember == ASSUME NEW s, s # {} PROVE First(s) \in s
BY DEF First

LEMMA FoldStep ==
  ASSUME NEW S, NEW f, NEW g, IsFold(g, f, S), NEW s \in SUBSET S
  PROVE  g[s] = IF s = {} THEN 0 ELSE f[First(s)] + g[s \ {First(s)}]
BY DEF IsFold

LEMMA FoldUnique ==
  ASSUME NEW S, IsFiniteSet(S), NEW f, NEW g, NEW h, IsFold(g, f, S), IsFold(h, f, S)
  PROVE  \A s \in SUBSET S : g[s] = h[s]
<1> DEFINE B == {s \in SUBSET S : g[s] # h[s]}
<1> SUFFICES ASSUME B # {} PROVE FALSE
  OBVIOUS
<1>0. PICK s \in B : \A t \in B : t \subseteq s => t = s
  <2>1. B \subseteq SUBSET S
    OBVIOUS
  <2> HIDE DEF B
  <2> QED
    BY <2>1, LeastSubset
<1>1. s \in SUBSET S /\ g[s] # h[s] /\ \A t \in SUBSET S : t \subseteq s /\ t # s => g[t] = h[t]
  BY <1>0
<1> HIDE DEF B
<1>2. g[s] = (IF s = {} THEN 0 ELSE f[First(s)] + g[s \ {First(s)}])
  BY <1>1, FoldStep
<1>3. h[s] = (IF s = {} THEN 0 ELSE f[First(s)] + h[s \ {First(s)}])
  BY <1>1, FoldStep
<1>4. s # {}
  BY <1>1, <1>2, <1>3
<1>5. First(s) \in s
  BY <1>4, FirstIsMember
<1>6. g[s \ {First(s)}] = h[s \ {First(s)}]
  BY <1>1, <1>5
<1> QED
  BY <1>1, <1>2, <1>3, <1>4, <1>6

LEMMA FoldRestricted ==
  ASSUME NEW S, NEW f, NEW g, IsFold(g, f, S), NEW T \in SUBSET S
  PROVE  IsFold([t \in SUBSET T |-> g[t]], f, T)
<1> DEFINE h == [t \in SUBSET T |-> g[t]]
<1>1. ASSUME NEW t \in SUBSET T
      PROVE  h[t] = IF t = {} THEN 0 ELSE f[First(t)] + h[t \ {First(t)}]
  <2>1. t \in SUBSET S /\ t \ {First(t)} \in SUBSET T
    OBVIOUS
  <2> QED
    BY <2>1, FoldStep
<1>2. h = [t \in SUBSET T |-> h[t]]
  OBVIOUS
<1> HIDE DEF h
<1>3. h = [t \in SUBSET T |-> IF t = {} THEN 0 ELSE f[First(t)] + h[t \ {First(t)}]]
  BY <1>1, <1>2
<1>4. IsFold(h, f, T)
  BY <1>3 DEF IsFold
<1> QED
  BY <1>4 DEF h

\* The fold over a set, and its value there.
FoldOf(f, S) == CHOOSE iter : IsFold(iter, f, S)
Total(f, S) == FoldOf(f, S)[S]

LEMMA FoldExists ==
  ASSUME NEW S, IsFiniteSet(S), NEW f
  PROVE  \E g : IsFold(g, f, S)
<1> DEFINE B == {s \in SUBSET S : ~ \E g : IsFold(g, f, s)}
<1> SUFFICES ASSUME B # {} PROVE FALSE
  OBVIOUS
<1>1. PICK T \in B : \A t \in B : t \subseteq T => t = T
  <2>1. B \subseteq SUBSET S
    OBVIOUS
  <2> HIDE DEF B
  <2> QED
    BY <2>1, LeastSubset
<1>2. IsFiniteSet(T) /\ T \in SUBSET S
  BY <1>1, FS_Subset
<1>3. ASSUME NEW t \in SUBSET T, t # T PROVE IsFold(FoldOf(f, t), f, t)
  BY <1>1, <1>2, <1>3 DEF FoldOf
<1> DEFINE h == [s \in SUBSET T |-> IF s = {} THEN 0
                                    ELSE f[First(s)] + Total(f, s \ {First(s)})]
<1>4. ASSUME NEW t \in SUBSET T, t # T PROVE h[t] = Total(f, t)
  <2>1. FoldOf(f, t)[t] = (IF t = {} THEN 0
                           ELSE f[First(t)] + FoldOf(f, t)[t \ {First(t)}])
    BY <1>3, <1>4, FoldStep
  <2>2. CASE t = {}
    BY <2>1, <2>2 DEF Total
  <2>3. CASE t # {}
    <3> DEFINE u == t \ {First(t)}
    <3>1. First(t) \in t /\ u \in SUBSET t /\ u \in SUBSET T /\ u # T /\ IsFiniteSet(u)
      BY <1>2, <2>3, FirstIsMember, FS_Subset
    <3>2. IsFold([s \in SUBSET u |-> FoldOf(f, t)[s]], f, u)
      BY <1>3, <1>4, <3>1, FoldRestricted
    <3>3. IsFold(FoldOf(f, u), f, u)
      BY <1>3, <3>1
    <3> HIDE DEF u
    <3>4. [s \in SUBSET u |-> FoldOf(f, t)[s]][u] = FoldOf(f, u)[u]
      BY <3>1, <3>2, <3>3, FoldUnique
    <3>5. FoldOf(f, t)[u] = Total(f, u)
      BY <3>4 DEF Total
    <3> QED
      BY <2>1, <2>3, <3>5 DEF u, Total
  <2> QED
    BY <2>2, <2>3
<1>5. ASSUME NEW s \in SUBSET T
      PROVE  h[s] = IF s = {} THEN 0 ELSE f[First(s)] + h[s \ {First(s)}]
  <2>1. CASE s = {}
    BY <2>1
  <2>2. CASE s # {}
    <3>1. First(s) \in s
      BY <2>2, FirstIsMember
    <3>2. h[s \ {First(s)}] = Total(f, s \ {First(s)})
      BY <1>4, <3>1
    <3>3. h[s] = f[First(s)] + Total(f, s \ {First(s)})
      BY <2>2
    <3> QED
      BY <2>2, <3>2, <3>3
  <2> QED
    BY <2>1, <2>2
<1>6. h = [s \in SUBSET T |-> h[s]]
  OBVIOUS
<1> HIDE DEF h
<1>7. h = [s \in SUBSET T |-> IF s = {} THEN 0 ELSE f[First(s)] + h[s \ {First(s)}]]
  BY <1>5, <1>6
<1>8. IsFold(h, f, T)
  BY <1>7 DEF IsFold
<1> QED
  BY <1>1, <1>8

\* A value of the fold of a function over any set that holds the summed one is their sum.
LEMMA FoldValue ==
  ASSUME NEW S, IsFiniteSet(S), NEW f, NEW g, IsFold(g, f, S)
  PROVE  g[S] = Total(f, S)
<1>1. IsFold(FoldOf(f, S), f, S)
  BY DEF FoldOf
<1> QED
  BY <1>1, FoldUnique DEF Total

LEMMA TotalEmpty == ASSUME NEW f PROVE Total(f, {}) = 0
<1>1. IsFiniteSet({})
  BY FS_EmptySet
<1>2. IsFold(FoldOf(f, {}), f, {})
  BY <1>1, FoldExists DEF FoldOf
<1> QED
  BY <1>2, FoldStep DEF Total

LEMMA TotalFirst ==
  ASSUME NEW S, IsFiniteSet(S), S # {}, NEW f
  PROVE  First(S) \in S /\ Total(f, S) = f[First(S)] + Total(f, S \ {First(S)})
<1> DEFINE T == S \ {First(S)}
<1>1. First(S) \in S /\ T \in SUBSET S /\ IsFiniteSet(T)
  BY FirstIsMember, FS_Subset
<1>2. IsFold(FoldOf(f, S), f, S)
  BY FoldExists DEF FoldOf
<1>3. FoldOf(f, S)[S] = f[First(S)] + FoldOf(f, S)[T]
  BY <1>2, FoldStep
<1>4. IsFold([t \in SUBSET T |-> FoldOf(f, S)[t]], f, T)
  BY <1>1, <1>2, FoldRestricted
<1>5. [t \in SUBSET T |-> FoldOf(f, S)[t]][T] = Total(f, T)
  BY <1>1, <1>4, FoldValue
<1> QED
  BY <1>1, <1>3, <1>5 DEF Total

LEMMA TotalInt ==
  ASSUME NEW S, IsFiniteSet(S), NEW f, \A x \in S : f[x] \in Int
  PROVE  Total(f, S) \in Int
<1> DEFINE B == {s \in SUBSET S : Total(f, s) \notin Int}
<1> SUFFICES ASSUME B # {} PROVE FALSE
  OBVIOUS
<1>1. PICK s \in B : \A t \in B : t \subseteq s => t = s
  <2>1. B \subseteq SUBSET S
    OBVIOUS
  <2> HIDE DEF B
  <2> QED
    BY <2>1, LeastSubset
<1>2. s \in SUBSET S /\ Total(f, s) \notin Int /\ IsFiniteSet(s) /\ s # {}
  <2>1. s \in SUBSET S /\ Total(f, s) \notin Int
    BY <1>1
  <2> HIDE DEF B
  <2>2. IsFiniteSet(s)
    BY <2>1, FS_Subset
  <2>3. ASSUME s = {} PROVE FALSE
    <3>1. Total(f, s) = 0
      BY <2>3, TotalEmpty
    <3> QED
      BY <2>1, <3>1
  <2> QED
    BY <2>1, <2>2, <2>3
<1>3. First(s) \in s /\ Total(f, s) = f[First(s)] + Total(f, s \ {First(s)})
  BY <1>2, TotalFirst
<1>4. Total(f, s \ {First(s)}) \in Int
  BY <1>1, <1>2, <1>3
<1> QED
  BY <1>2, <1>3, <1>4

\* A sum does not depend on the order: any member may be taken out of it.
LEMMA TotalRemove ==
  ASSUME NEW S, IsFiniteSet(S), NEW f, \A x \in S : f[x] \in Int, NEW x \in S
  PROVE  Total(f, S) = f[x] + Total(f, S \ {x})
<1> DEFINE B == {s \in SUBSET S : \E y \in s : Total(f, s) # f[y] + Total(f, s \ {y})}
<1> SUFFICES ASSUME B # {} PROVE FALSE
  OBVIOUS
<1>1. PICK s \in B : \A t \in B : t \subseteq s => t = s
  <2>1. B \subseteq SUBSET S
    OBVIOUS
  <2> HIDE DEF B
  <2> QED
    BY <2>1, LeastSubset
<1>2. PICK y \in s : Total(f, s) # f[y] + Total(f, s \ {y})
  BY <1>1
<1>3. s \in SUBSET S /\ IsFiniteSet(s) /\ s # {}
  BY <1>1, <1>2, FS_Subset
<1> DEFINE p == First(s)
<1>4. p \in s /\ Total(f, s) = f[p] + Total(f, s \ {p})
  BY <1>3, TotalFirst
<1> HIDE DEF p
<1>5. \A t \in SUBSET s : t # s => \A z \in t : Total(f, t) = f[z] + Total(f, t \ {z})
  BY <1>1, <1>3
<1>6. Total(f, s \ {p}) = f[y] + Total(f, (s \ {p}) \ {y})
  BY <1>2, <1>4, <1>5
<1>7. Total(f, s \ {y}) = f[p] + Total(f, (s \ {y}) \ {p})
  BY <1>2, <1>4, <1>5
<1>8. (s \ {y}) \ {p} = (s \ {p}) \ {y} /\ IsFiniteSet((s \ {p}) \ {y})
  BY <1>3, FS_Subset
<1> DEFINE rest == Total(f, (s \ {p}) \ {y})
<1>9. f[p] \in Int /\ f[y] \in Int /\ rest \in Int
  BY <1>2, <1>3, <1>4, <1>8, TotalInt
<1>10. Total(f, s) = f[p] + (f[y] + rest)
  BY <1>4, <1>6
<1>11. Total(f, s \ {y}) = f[p] + rest
  BY <1>7, <1>8
<1> HIDE DEF B, rest
<1>12. Total(f, s) = f[y] + (f[p] + rest)
  BY <1>9, <1>10
<1> QED
  BY <1>2, <1>11, <1>12

LEMMA TotalAdd ==
  ASSUME NEW S, IsFiniteSet(S), NEW x, x \notin S, NEW f, \A y \in S \cup {x} : f[y] \in Int
  PROVE  Total(f, S \cup {x}) = f[x] + Total(f, S)
<1>1. IsFiniteSet(S \cup {x}) /\ (S \cup {x}) \ {x} = S
  BY FS_AddElement
<1>2. Total(f, S \cup {x}) = f[x] + Total(f, (S \cup {x}) \ {x})
  BY <1>1, TotalRemove
<1> QED
  BY <1>1, <1>2

LEMMA TotalSingle == ASSUME NEW x, NEW f, f[x] \in Int PROVE Total(f, {x}) = f[x]
<1>1. IsFiniteSet({}) /\ {} \cup {x} = {x}
  BY FS_EmptySet
<1>2. Total(f, {} \cup {x}) = f[x] + Total(f, {})
  BY <1>1, TotalAdd
<1> QED
  BY <1>1, <1>2, TotalEmpty

\* Functions that agree on a set have one sum over it.
LEMMA TotalEqual ==
  ASSUME NEW S, IsFiniteSet(S), NEW f, NEW g, \A x \in S : f[x] = g[x]
  PROVE  Total(f, S) = Total(g, S)
<1> DEFINE B == {s \in SUBSET S : Total(f, s) # Total(g, s)}
<1> SUFFICES ASSUME B # {} PROVE FALSE
  OBVIOUS
<1>1. PICK s \in B : \A t \in B : t \subseteq s => t = s
  <2>1. B \subseteq SUBSET S
    OBVIOUS
  <2> HIDE DEF B
  <2> QED
    BY <2>1, LeastSubset
<1>2. s \in SUBSET S /\ IsFiniteSet(s) /\ s # {}
  BY <1>1, FS_Subset, TotalEmpty
<1>3. /\ First(s) \in s
      /\ Total(f, s) = f[First(s)] + Total(f, s \ {First(s)})
      /\ Total(g, s) = g[First(s)] + Total(g, s \ {First(s)})
  BY <1>2, TotalFirst
<1>4. Total(f, s \ {First(s)}) = Total(g, s \ {First(s)})
  BY <1>1, <1>2, <1>3
<1> QED
  BY <1>1, <1>2, <1>3, <1>4

LEMMA TotalNat ==
  ASSUME NEW S, IsFiniteSet(S), NEW f, \A x \in S : f[x] \in Nat
  PROVE  Total(f, S) \in Nat
<1> DEFINE B == {s \in SUBSET S : Total(f, s) \notin Nat}
<1> SUFFICES ASSUME B # {} PROVE FALSE
  <2>1. S \in SUBSET S
    OBVIOUS
  <2> QED
    BY <2>1
<1>1. PICK s \in B : \A t \in B : t \subseteq s => t = s
  <2>1. B \subseteq SUBSET S
    OBVIOUS
  <2> HIDE DEF B
  <2> QED
    BY <2>1, LeastSubset
<1>2. s \in SUBSET S /\ Total(f, s) \notin Nat /\ IsFiniteSet(s)
  BY <1>1, FS_Subset
<1>3. s # {}
  BY <1>2, TotalEmpty
<1>4. First(s) \in s /\ Total(f, s) = f[First(s)] + Total(f, s \ {First(s)})
  BY <1>2, <1>3, TotalFirst
<1>5. Total(f, s \ {First(s)}) \in Nat
  BY <1>1, <1>2, <1>4
<1>6. f[First(s)] \in Nat
  BY <1>2, <1>4
<1> QED
  BY <1>2, <1>4, <1>5, <1>6

\* The sum over two sets without a common member.
LEMMA TotalUnion ==
  ASSUME NEW S, IsFiniteSet(S), NEW T, IsFiniteSet(T), S \cap T = {},
         NEW f, \A x \in S \cup T : f[x] \in Int
  PROVE  Total(f, S \cup T) = Total(f, S) + Total(f, T)
<1> DEFINE B == {t \in SUBSET T : Total(f, S \cup t) # Total(f, S) + Total(f, t)}
<1> SUFFICES ASSUME B # {} PROVE FALSE
  <2>1. T \in SUBSET T
    OBVIOUS
  <2> QED
    BY <2>1
<1>1. PICK t \in B : \A u \in B : u \subseteq t => u = t
  <2>1. B \subseteq SUBSET T
    OBVIOUS
  <2> HIDE DEF B
  <2> QED
    BY <2>1, LeastSubset
<1>2. t \in SUBSET T /\ Total(f, S \cup t) # Total(f, S) + Total(f, t) /\ IsFiniteSet(t)
  BY <1>1, FS_Subset
<1>3. Total(f, S) \in Int
  BY TotalInt
<1>4. t # {}
  <2>1. S \cup {} = S /\ Total(f, {}) = 0
    BY TotalEmpty
  <2> QED
    BY <1>2, <1>3, <2>1
<1> DEFINE x == First(t)
           u == t \ {x}
<1>5. x \in t /\ Total(f, t) = f[x] + Total(f, u)
  BY <1>2, <1>4, TotalFirst
<1>6. Total(f, S \cup u) = Total(f, S) + Total(f, u)
  BY <1>1, <1>2, <1>5
<1>7. IsFiniteSet(S \cup t) /\ IsFiniteSet(u) /\ (S \cup t) \ {x} = S \cup u
  BY <1>2, <1>5, FS_Union, FS_Subset
<1>8. Total(f, S \cup t) = f[x] + Total(f, (S \cup t) \ {x})
  <2>1. x \in S \cup t /\ \A y \in S \cup t : f[y] \in Int
    BY <1>2, <1>5
  <2> HIDE DEF B, x, u
  <2> QED
    BY <1>7, <2>1, TotalRemove
<1>9. f[x] \in Int /\ Total(f, u) \in Int
  <2>1. f[x] \in Int /\ \A y \in u : f[y] \in Int
    BY <1>2, <1>5
  <2> QED
    BY <1>7, <2>1, TotalInt
<1> HIDE DEF B, x, u
<1>10. Total(f, S \cup t) = f[x] + (Total(f, S) + Total(f, u))
  BY <1>6, <1>7, <1>8
<1>11. Total(f, S \cup t) = Total(f, S) + (f[x] + Total(f, u))
  BY <1>3, <1>9, <1>10
<1> QED
  BY <1>2, <1>5, <1>11

\* A sum of natural numbers grows with its set.
LEMMA TotalMonotone ==
  ASSUME NEW T, IsFiniteSet(T), NEW S \in SUBSET T, NEW f, \A x \in T : f[x] \in Nat
  PROVE  Total(f, S) \in Nat /\ Total(f, T) \in Nat /\ Total(f, S) <= Total(f, T)
<1>1. IsFiniteSet(S) /\ IsFiniteSet(T \ S) /\ S \cup (T \ S) = T /\ S \cap (T \ S) = {}
  BY FS_Subset, FS_Difference
<1>2. Total(f, T) = Total(f, S) + Total(f, T \ S)
  BY <1>1, TotalUnion
<1>3. Total(f, S) \in Nat /\ Total(f, T \ S) \in Nat
  BY <1>1, TotalNat
<1> QED
  BY <1>2, <1>3

LEMMA TotalZero ==
  ASSUME NEW S, IsFiniteSet(S), NEW f, \A x \in S : f[x] = 0
  PROVE  Total(f, S) = 0
<1> DEFINE B == {s \in SUBSET S : Total(f, s) # 0}
<1> SUFFICES ASSUME B # {} PROVE FALSE
  <2>1. S \in SUBSET S
    OBVIOUS
  <2> QED
    BY <2>1
<1>1. PICK s \in B : \A t \in B : t \subseteq s => t = s
  <2>1. B \subseteq SUBSET S
    OBVIOUS
  <2> HIDE DEF B
  <2> QED
    BY <2>1, LeastSubset
<1>2. s \in SUBSET S /\ Total(f, s) # 0 /\ IsFiniteSet(s)
  BY <1>1, FS_Subset
<1>3. s # {}
  BY <1>2, TotalEmpty
<1>4. First(s) \in s /\ Total(f, s) = f[First(s)] + Total(f, s \ {First(s)})
  BY <1>2, <1>3, TotalFirst
<1>5. Total(f, s \ {First(s)}) = 0
  BY <1>1, <1>2, <1>4
<1> QED
  BY <1>2, <1>4, <1>5

\* Members that count zero may be left out.
LEMMA TotalPart ==
  ASSUME NEW T, IsFiniteSet(T), NEW S \in SUBSET T, NEW f, \A x \in S : f[x] \in Int,
         \A x \in T \ S : f[x] = 0
  PROVE  Total(f, T) = Total(f, S)
<1>1. IsFiniteSet(S) /\ IsFiniteSet(T \ S) /\ S \cup (T \ S) = T /\ S \cap (T \ S) = {}
  BY FS_Subset, FS_Difference
<1>2. Total(f, T) = Total(f, S) + Total(f, T \ S)
  BY <1>1, TotalUnion
<1>3. Total(f, T \ S) = 0 /\ Total(f, S) \in Int
  BY <1>1, TotalZero, TotalInt
<1> QED
  BY <1>2, <1>3

LEMMA TotalPair ==
  ASSUME NEW x, NEW y, x # y, NEW f, f[x] \in Int, f[y] \in Int
  PROVE  Total(f, {x, y}) = f[x] + f[y]
<1>1. IsFiniteSet({y}) /\ x \notin {y} /\ {y} \cup {x} = {x, y}
  BY FS_Singleton
<1>2. Total(f, {y} \cup {x}) = f[x] + Total(f, {y})
  BY <1>1, TotalAdd
<1> QED
  BY <1>1, <1>2, TotalSingle

LEMMA TotalLinear ==
  ASSUME NEW S, IsFiniteSet(S), NEW f, NEW g, NEW h, NEW m \in Int,
         \A x \in S : f[x] \in Int /\ g[x] \in Int /\ h[x] = m * f[x] + g[x]
  PROVE  Total(h, S) = m * Total(f, S) + Total(g, S)
<1> DEFINE B == {s \in SUBSET S : Total(h, s) # m * Total(f, s) + Total(g, s)}
<1> SUFFICES ASSUME B # {} PROVE FALSE
  <2>1. S \in SUBSET S
    OBVIOUS
  <2> QED
    BY <2>1
<1>1. PICK s \in B : \A t \in B : t \subseteq s => t = s
  <2>1. B \subseteq SUBSET S
    OBVIOUS
  <2> HIDE DEF B
  <2> QED
    BY <2>1, LeastSubset
<1>2. s \in SUBSET S /\ Total(h, s) # m * Total(f, s) + Total(g, s) /\ IsFiniteSet(s)
  BY <1>1, FS_Subset
<1>3. s # {}
  <2>1. Total(h, {}) = 0 /\ Total(f, {}) = 0 /\ Total(g, {}) = 0
    BY TotalEmpty
  <2>2. m * 0 + 0 = 0
    OBVIOUS
  <2> QED
    BY <1>2, <2>1, <2>2
<1> DEFINE x == First(s)
           u == s \ {x}
<1>4. /\ x \in s /\ Total(h, s) = h[x] + Total(h, u)
      /\ Total(f, s) = f[x] + Total(f, u) /\ Total(g, s) = g[x] + Total(g, u)
  BY <1>2, <1>3, TotalFirst
<1>5. Total(h, u) = m * Total(f, u) + Total(g, u)
  BY <1>1, <1>2, <1>4
<1>6. f[x] \in Int /\ g[x] \in Int /\ h[x] = m * f[x] + g[x]
  BY <1>2, <1>4
<1>7. Total(f, u) \in Int /\ Total(g, u) \in Int
  <2>1. IsFiniteSet(u)
    BY <1>2, FS_Subset
  <2>2. \A y \in u : f[y] \in Int /\ g[y] \in Int
    BY <1>2
  <2> HIDE DEF x, u
  <2> QED
    BY <2>1, <2>2, TotalInt
<1> HIDE DEF B, x, u
<1>8. ASSUME NEW a \in Int, NEW b \in Int, NEW c \in Int, NEW d \in Int
      PROVE  (m * a + c) + (m * b + d) = m * (a + b) + (c + d)
  OBVIOUS
<1>9. Total(h, s) = m * (f[x] + Total(f, u)) + (g[x] + Total(g, u))
  BY <1>4, <1>5, <1>6, <1>7, <1>8
<1> QED
  BY <1>2, <1>4, <1>9

\* A sum by parts: over the members that k maps to each i.
LEMMA TotalFibers ==
  ASSUME NEW T, IsFiniteSet(T), NEW S, IsFiniteSet(S), NEW f, \A x \in T : f[x] \in Int,
         NEW k, \A x \in T : k[x] \in S
  PROVE  Total(f, T) = Total([i \in S |-> Total(f, {x \in T : k[x] = i})], S)
<1> DEFINE Fiber(i) == {x \in T : k[x] = i}
           Over(s) == {x \in T : k[x] \in s}
           g == [i \in S |-> Total(f, Fiber(i))]
           B == {s \in SUBSET S : Total(f, Over(s)) # Total(g, s)}
<1> SUFFICES ASSUME B # {} PROVE FALSE
  <2>1. S \in SUBSET S /\ Over(S) = T
    OBVIOUS
  <2> QED
    BY <2>1
<1>1. PICK s \in B : \A t \in B : t \subseteq s => t = s
  <2>1. B \subseteq SUBSET S
    OBVIOUS
  <2> HIDE DEF B
  <2> QED
    BY <2>1, LeastSubset
<1>2. s \in SUBSET S /\ Total(f, Over(s)) # Total(g, s) /\ IsFiniteSet(s)
  BY <1>1, FS_Subset
<1>3. s # {}
  <2>1. Over({}) = {} /\ Total(f, {}) = 0 /\ Total(g, {}) = 0
    BY TotalEmpty
  <2> HIDE DEF Over, g
  <2> QED
    BY <1>2, <2>1
<1> DEFINE i == First(s)
           u == s \ {i}
<1>4. i \in s /\ Total(g, s) = g[i] + Total(g, u)
  <2> HIDE DEF g
  <2> QED
    BY <1>2, <1>3, TotalFirst
<1>5. Total(f, Over(u)) = Total(g, u)
  <2>1. u \in SUBSET S /\ u \subseteq s /\ u # s
    BY <1>2, <1>4
  <2>2. u \notin B
    <3> HIDE DEF B, u
    <3> QED
      BY <1>1, <2>1
  <2> QED
    BY <2>1, <2>2
<1>6. g[i] = Total(f, Fiber(i))
  BY <1>2, <1>4
<1>7. /\ Over(s) = Over(u) \cup Fiber(i) /\ Over(u) \cap Fiber(i) = {}
      /\ IsFiniteSet(Over(u)) /\ IsFiniteSet(Fiber(i))
      /\ \A x \in Over(u) \cup Fiber(i) : f[x] \in Int
  <2>1. Over(s) = Over(u) \cup Fiber(i) /\ Over(u) \cap Fiber(i) = {}
    BY <1>4
  <2>2. Over(u) \in SUBSET T /\ Fiber(i) \in SUBSET T
    OBVIOUS
  <2> HIDE DEF Over, Fiber
  <2>3. IsFiniteSet(Over(u)) /\ IsFiniteSet(Fiber(i))
    BY <2>2, FS_Subset
  <2> QED
    BY <2>1, <2>2, <2>3
<1> HIDE DEF B, i, u, g, Over, Fiber
<1>8. Total(f, Over(s)) = Total(f, Over(u)) + Total(f, Fiber(i))
  BY <1>7, TotalUnion
<1>9. Total(f, Over(u)) \in Int /\ Total(f, Fiber(i)) \in Int
  BY <1>7, TotalInt
<1> QED
  BY <1>2, <1>4, <1>5, <1>6, <1>8, <1>9
=============================================================================

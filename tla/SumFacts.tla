------------------------------ MODULE SumFacts ------------------------------
(***************************************************************************)
(* Facts about sums over finite sets, which balances, dashboards and       *)
(* positions are made of, and about least elements.  A recursive function  *)
(* is a CHOOSE: that there is one which satisfies its equation, that it is *)
(* the only one and what it returns are each proved by looking at a        *)
(* smallest set for which they would fail.                                 *)
(***************************************************************************)
EXTENDS Integers, FiniteSets, FiniteSetTheorems, WellFoundedInduction, TLAPS

\* A sum takes one element after the other out of the set.
Pick(s) == CHOOSE x \in s : TRUE
IsFold(g, f, D) ==
  g = [s \in SUBSET D |-> IF s = {} THEN 0 ELSE f[Pick(s)] + g[s \ {Pick(s)}]]
Sigma(f, D) == (CHOOSE g : IsFold(g, f, D))[D]

-----------------------------------------------------------------------------
\* A set of naturals that is not empty has a least element.
LEMMA LeastElement ==
  ASSUME NEW T \in SUBSET Nat, T # {}
  PROVE  \E x \in T : \A y \in T : x <= y
<1> DEFINE R == {ss \in Nat \X Nat : ss[1] < ss[2]}
<1>1. IsWellFoundedOn(R, Nat)
  BY NatLessThanWellFounded, Zenon DEF OpToRel
<1>2. PICK x \in T : \A y \in T : <<y, x>> \notin R
  <2> HIDE DEF R
  <2> QED
    BY <1>1, WFMin
<1>3. \A y \in T : <<y, x>> \in Nat \X Nat /\ <<y, x>>[1] = y /\ <<y, x>>[2] = x
  OBVIOUS
<1>4. \A y \in T : ~(y < x)
  BY <1>2, <1>3
<1> QED
  BY <1>4

\* Among subsets of a finite set there is one that contains no other.
LEMMA SmallestSet ==
  ASSUME NEW D, IsFiniteSet(D), NEW B \in SUBSET SUBSET D, B # {}
  PROVE  \E s \in B : \A t \in B : t \subseteq s => t = s
<1>1. IsWellFoundedOn(StrictSubsetOrdering(D), SUBSET D)
  BY FS_StrictSubsetOrderingWellFounded, FS_FiniteSubsetsOfFinite
<1>2. PICK s \in B : \A t \in B : <<t, s>> \notin StrictSubsetOrdering(D)
  BY <1>1, WFMin
<1>3. ASSUME NEW t \in B, t \subseteq s, t # s PROVE FALSE
  <2>1. <<t, s>> \in (SUBSET D) \X (SUBSET D) /\ <<t, s>>[1] = t /\ <<t, s>>[2] = s
    OBVIOUS
  <2>2. <<t, s>> \in StrictSubsetOrdering(D)
    BY <1>3, <2>1 DEF StrictSubsetOrdering
  <2> QED
    BY <1>2, <2>2
<1> QED
  BY <1>3

\* A strict total order.
StrictOrder(R, D) ==
  /\ \A x \in D : <<x, x>> \notin R
  /\ \A x, y, z \in D : <<x, y>> \in R /\ <<y, z>> \in R => <<x, z>> \in R
  /\ \A x, y \in D : x # y => <<x, y>> \in R \/ <<y, x>> \in R

\* In a finite set that is so ordered something comes first.
LEMMA FirstInOrder ==
  ASSUME NEW D, IsFiniteSet(D), D # {}, NEW R, StrictOrder(R, D)
  PROVE  \E x \in D : \A y \in D \ {x} : <<x, y>> \in R
<1> DEFINE P(x) == {y \in D : y = x \/ <<y, x>> \in R}
           B == {P(x) : x \in D}
<1>1. PICK s \in B : \A t \in B : t \subseteq s => t = s
  <2>1. B \in SUBSET SUBSET D
    OBVIOUS
  <2>2. PICK x \in D : TRUE
    OBVIOUS
  <2>3. P(x) \in B
    OBVIOUS
  <2>4. B # {}
    BY <2>3
  <2> HIDE DEF B
  <2> QED
    BY <2>1, <2>4, SmallestSet
<1>2. PICK x \in D : s = P(x)
  OBVIOUS
<1>3. ASSUME NEW y \in D \ {x} PROVE <<x, y>> \in R
  <2> USE DEF StrictOrder
  <2>1. SUFFICES ASSUME <<y, x>> \in R PROVE FALSE
    OBVIOUS
  <2>2. P(y) \subseteq P(x)
    BY <2>1
  <2>3. x \notin P(y)
    BY <2>1
  <2>4. x \in P(x)
    OBVIOUS
  <2> HIDE DEF P
  <2>5. P(y) \in B
    OBVIOUS
  <2> HIDE DEF B
  <2> QED
    BY <1>1, <1>2, <2>2, <2>3, <2>4, <2>5
<1> QED
  BY <1>3

\* What a sum takes out of a set is in it.
LEMMA PickIn == \A s : s # {} => Pick(s) \in s
  BY DEF Pick

\* Two sums of the same figures agree wherever both are defined.
LEMMA FoldUnique ==
  ASSUME NEW D, IsFiniteSet(D), NEW E \in SUBSET D, NEW f, NEW h, \A x \in E : f[x] = h[x],
         NEW g, IsFold(g, f, D), NEW k, IsFold(k, h, E)
  PROVE  \A s \in SUBSET E : g[s] = k[s]
<1> DEFINE B == {s \in SUBSET E : g[s] # k[s]}
<1>1. SUFFICES ASSUME B # {} PROVE FALSE
  OBVIOUS
<1>2. IsFiniteSet(E)
  BY FS_Subset
<1>3. PICK s \in B : \A t \in B : t \subseteq s => t = s
  <2> HIDE DEF B
  <2>1. B \in SUBSET SUBSET E
    BY DEF B
  <2> QED
    BY <1>1, <1>2, <2>1, SmallestSet
<1>4. CASE s = {}
  BY <1>4 DEF IsFold
<1>5. CASE s # {}
  <2>1. Pick(s) \in s /\ s \ {Pick(s)} \subseteq s /\ s \ {Pick(s)} # s
    BY <1>5, PickIn
  <2>2. g[s \ {Pick(s)}] = k[s \ {Pick(s)}]
    BY <1>3, <2>1
  <2>3. g[s] = f[Pick(s)] + g[s \ {Pick(s)}]
    BY <1>5 DEF IsFold
  <2>4. k[s] = h[Pick(s)] + k[s \ {Pick(s)}]
    BY <1>5 DEF IsFold
  <2> QED
    BY <2>1, <2>2, <2>3, <2>4
<1> QED
  BY <1>4, <1>5

\* The recursive function of a sum exists.
LEMMA FoldExists ==
  ASSUME NEW D, IsFiniteSet(D), NEW f
  PROVE  \E g : IsFold(g, f, D)
<1> DEFINE B == {s \in SUBSET D : ~\E g : IsFold(g, f, s)}
<1>1. SUFFICES ASSUME B # {} PROVE FALSE
  OBVIOUS
<1>2. PICK U \in B : \A t \in B : t \subseteq U => t = U
  <2> HIDE DEF B
  <2>1. B \in SUBSET SUBSET D
    BY DEF B
  <2> QED
    BY <1>1, <2>1, SmallestSet
<1> DEFINE Of(V) == CHOOSE g : IsFold(g, f, V)
           G == [s \in SUBSET U |-> IF s = {} THEN 0
                                    ELSE f[Pick(s)] + Of(s \ {Pick(s)})[s \ {Pick(s)}]]
<1>3. ASSUME NEW V \in SUBSET U, V # U PROVE IsFold(Of(V), f, V)
  <2>1. \E g : IsFold(g, f, V)
    BY <1>2, <1>3
  <2> QED
    BY <2>1
<1> HIDE DEF Of
<1>4. ASSUME NEW V \in SUBSET U, V # U PROVE G[V] = Of(V)[V]
  <2>1. CASE V = {}
    BY <1>3, <1>4, <2>1 DEF IsFold
  <2>2. CASE V # {}
    <3> DEFINE W == V \ {Pick(V)}
    <3>1. Pick(V) \in V /\ W \in SUBSET V /\ W \in SUBSET U /\ W # U /\ IsFiniteSet(V)
      BY <1>4, <2>2, PickIn, FS_Subset
    <3>2. Of(V)[V] = f[Pick(V)] + Of(V)[W]
      BY <1>3, <1>4, <2>2 DEF IsFold
    <3>3. Of(V)[W] = Of(W)[W]
      <4>1. IsFold(Of(V), f, V) /\ IsFold(Of(W), f, W)
        BY <1>3, <1>4, <3>1
      <4> HIDE DEF W
      <4> QED
        BY <3>1, <4>1, FoldUnique
    <3>4. G[V] = f[Pick(V)] + Of(W)[W]
      BY <2>2
    <3> QED
      BY <3>2, <3>3, <3>4
  <2> QED
    BY <2>1, <2>2
<1>5. ASSUME NEW s \in SUBSET U
      PROVE  G[s] = IF s = {} THEN 0 ELSE f[Pick(s)] + G[s \ {Pick(s)}]
  <2>1. CASE s = {}
    BY <2>1
  <2>2. CASE s # {}
    <3>1. s \ {Pick(s)} \in SUBSET U /\ s \ {Pick(s)} # U
      BY <2>2, PickIn
    <3>2. G[s] = f[Pick(s)] + Of(s \ {Pick(s)})[s \ {Pick(s)}]
      BY <2>2
    <3> HIDE DEF G
    <3> QED
      BY <1>4, <2>2, <3>1, <3>2
  <2> QED
    BY <2>1, <2>2
<1>6. G = [s \in SUBSET U |-> G[s]]
  OBVIOUS
<1>7. IsFold(G, f, U)
  <2> HIDE DEF G
  <2> QED
    BY <1>5, <1>6 DEF IsFold
<1> QED
  BY <1>2, <1>7

\* So it is what the CHOOSE stands for.
LEMMA SigmaFold ==
  ASSUME NEW D, IsFiniteSet(D), NEW f
  PROVE  \E g : IsFold(g, f, D) /\ Sigma(f, D) = g[D]
<1> DEFINE G == CHOOSE g : IsFold(g, f, D)
<1>1. IsFold(G, f, D)
  BY FoldExists
<1>2. Sigma(f, D) = G[D]
  BY Zenon DEF Sigma
<1> HIDE DEF G
<1> QED
  BY <1>1, <1>2, Zenon

\* A sum over part of a set is what the sum over the set has for it.
LEMMA SigmaOfPart ==
  ASSUME NEW D, IsFiniteSet(D), NEW f, NEW g, IsFold(g, f, D), NEW S \in SUBSET D
  PROVE  Sigma(f, S) = g[S]
<1>1. IsFiniteSet(S)
  BY FS_Subset
<1>2. PICK k : IsFold(k, f, S) /\ Sigma(f, S) = k[S]
  BY <1>1, SigmaFold
<1> QED
  BY <1>2, FoldUnique

-----------------------------------------------------------------------------
\* Only the figures that are summed matter.
LEMMA SigmaSame ==
  ASSUME NEW D, IsFiniteSet(D), NEW f, NEW h, \A x \in D : f[x] = h[x]
  PROVE  Sigma(f, D) = Sigma(h, D)
<1>1. PICK g : IsFold(g, f, D) /\ Sigma(f, D) = g[D]
  BY SigmaFold
<1>2. PICK k : IsFold(k, h, D) /\ Sigma(h, D) = k[D]
  BY SigmaFold
<1>3. g[D] = k[D]
  <2>1. D \in SUBSET D
    OBVIOUS
  <2>2. \A s \in SUBSET D : g[s] = k[s]
    BY <1>1, <1>2, <2>1, FoldUnique
  <2> QED
    BY <2>1, <2>2
<1> QED
  BY <1>1, <1>2, <1>3

\* The sum of integers is an integer.
LEMMA SigmaType ==
  ASSUME NEW D, IsFiniteSet(D), NEW f, \A x \in D : f[x] \in Int
  PROVE  Sigma(f, D) \in Int
<1>1. PICK g : IsFold(g, f, D) /\ Sigma(f, D) = g[D]
  BY SigmaFold
<1> DEFINE B == {s \in SUBSET D : g[s] \notin Int}
<1>2. SUFFICES ASSUME B # {} PROVE FALSE
  BY <1>1
<1>3. PICK s \in B : \A t \in B : t \subseteq s => t = s
  <2> HIDE DEF B
  <2>1. B \in SUBSET SUBSET D
    BY DEF B
  <2> QED
    BY <1>2, <2>1, SmallestSet
<1>4. CASE s = {}
  BY <1>1, <1>4 DEF IsFold
<1>5. CASE s # {}
  <2>1. Pick(s) \in s /\ s \ {Pick(s)} \subseteq s /\ s \ {Pick(s)} # s
    BY <1>5, PickIn
  <2>2. g[s \ {Pick(s)}] \in Int
    BY <1>3, <2>1
  <2>3. g[s] = f[Pick(s)] + g[s \ {Pick(s)}]
    BY <1>1, <1>5 DEF IsFold
  <2>4. f[Pick(s)] \in Int
    BY <2>1
  <2> QED
    BY <2>2, <2>3, <2>4
<1> QED
  BY <1>4, <1>5

\* The sum over nothing is 0.
LEMMA SigmaEmpty == \A f : Sigma(f, {}) = 0
<1> TAKE f
<1>1. PICK g : IsFold(g, f, {}) /\ Sigma(f, {}) = g[{}]
  BY FS_EmptySet, SigmaFold
<1> QED
  BY <1>1 DEF IsFold

\* Any element may be taken out first: the order of a sum does not matter.
LEMMA SigmaTake ==
  ASSUME NEW D, IsFiniteSet(D), NEW f, \A x \in D : f[x] \in Int, NEW x \in D
  PROVE  Sigma(f, D) = f[x] + Sigma(f, D \ {x})
<1>1. PICK g : IsFold(g, f, D) /\ Sigma(f, D) = g[D]
  BY SigmaFold
<1>2. \A s \in SUBSET D : g[s] \in Int
  <2>1. ASSUME NEW s \in SUBSET D PROVE g[s] \in Int
    <3>1. Sigma(f, s) = g[s] /\ IsFiniteSet(s)
      BY <1>1, SigmaOfPart, FS_Subset
    <3>2. Sigma(f, s) \in Int
      BY <3>1, SigmaType
    <3> QED
      BY <3>1, <3>2
  <2> QED
    BY <2>1
<1> DEFINE B == {s \in SUBSET D : \E y \in s : g[s] # f[y] + g[s \ {y}]}
<1>3. B = {}
  <2>1. SUFFICES ASSUME B # {} PROVE FALSE
    OBVIOUS
  <2>2. PICK s \in B : \A t \in B : t \subseteq s => t = s
    <3> HIDE DEF B
    <3>1. B \in SUBSET SUBSET D
      BY DEF B
    <3> QED
      BY <2>1, <3>1, SmallestSet
  <2>3. PICK y \in s : g[s] # f[y] + g[s \ {y}]
    OBVIOUS
  <2> DEFINE p == Pick(s)
  <2>4. p \in s /\ g[s] = f[p] + g[s \ {p}]
    BY <1>1, <2>3, PickIn DEF IsFold
  <2> HIDE DEF p
  <2>5. p # y
    BY <2>3, <2>4
  <2>6. s \ {p} \notin B /\ s \ {y} \notin B
    BY <2>2, <2>3, <2>4
  <2>7. g[s \ {p}] = f[y] + g[(s \ {p}) \ {y}]
    BY <2>5, <2>6
  <2>8. g[s \ {y}] = f[p] + g[(s \ {y}) \ {p}]
    BY <2>4, <2>5, <2>6
  <2>9. (s \ {p}) \ {y} = (s \ {y}) \ {p}
    OBVIOUS
  <2>10. f[p] \in Int /\ f[y] \in Int /\ g[(s \ {y}) \ {p}] \in Int
    BY <1>2, <2>3, <2>4
  <2>11. f[p] + (f[y] + g[(s \ {y}) \ {p}]) = f[y] + (f[p] + g[(s \ {y}) \ {p}])
    BY <2>10
  <2> QED
    BY <2>3, <2>4, <2>7, <2>8, <2>9, <2>11
<1>4. g[D] = f[x] + g[D \ {x}]
  BY <1>3
<1>5. Sigma(f, D \ {x}) = g[D \ {x}]
  BY <1>1, SigmaOfPart
<1> QED
  BY <1>1, <1>4, <1>5

\* A sum splits into the sums over two parts of its set.
LEMMA SigmaSplit ==
  ASSUME NEW D, IsFiniteSet(D), NEW f, \A x \in D : f[x] \in Int, NEW S \in SUBSET D
  PROVE  Sigma(f, D) = Sigma(f, S) + Sigma(f, D \ S)
<1> DEFINE B == {s \in SUBSET D : \E T \in SUBSET s : Sigma(f, s) # Sigma(f, T) + Sigma(f, s \ T)}
<1>0. \A s \in SUBSET D : IsFiniteSet(s) /\ Sigma(f, s) \in Int
  <2>1. ASSUME NEW s \in SUBSET D PROVE IsFiniteSet(s) /\ Sigma(f, s) \in Int
    <3>1. IsFiniteSet(s)
      BY FS_Subset
    <3> QED
      BY <3>1, SigmaType
  <2> QED
    BY <2>1
<1>1. B = {}
  <2>1. SUFFICES ASSUME B # {} PROVE FALSE
    OBVIOUS
  <2>2. PICK s \in B : \A t \in B : t \subseteq s => t = s
    <3> HIDE DEF B
    <3>1. B \in SUBSET SUBSET D
      BY DEF B
    <3> QED
      BY <2>1, <3>1, SmallestSet
  <2>3. PICK T \in SUBSET s : Sigma(f, s) # Sigma(f, T) + Sigma(f, s \ T)
    OBVIOUS
  <2>4. CASE T = {}
    <3>1. s \ T = s
      BY <2>4
    <3> QED
      BY <1>0, <2>3, <2>4, <3>1, SigmaEmpty
  <2>5. CASE T # {}
    <3>1. PICK x \in T : TRUE
      BY <2>5
    <3>2. x \in s /\ s \ {x} \notin B /\ T \ {x} \in SUBSET (s \ {x}) /\ s \ {x} \in SUBSET D
      BY <2>2, <3>1
    <3>3. Sigma(f, s \ {x}) = Sigma(f, T \ {x}) + Sigma(f, (s \ {x}) \ (T \ {x}))
      BY <3>2
    <3>4. (s \ {x}) \ (T \ {x}) = s \ T
      BY <3>1
    <3>5. Sigma(f, s) = f[x] + Sigma(f, s \ {x})
      <4>1. IsFiniteSet(s) /\ \A y \in s : f[y] \in Int
        BY <1>0
      <4> HIDE DEF B
      <4> QED
        BY <3>2, <4>1, SigmaTake
    <3>6. Sigma(f, T) = f[x] + Sigma(f, T \ {x})
      BY <1>0, <3>1, SigmaTake
    <3>7. /\ f[x] \in Int /\ Sigma(f, T \ {x}) \in Int /\ Sigma(f, s \ T) \in Int
      <4>1. x \in D /\ T \ {x} \in SUBSET D /\ s \ T \in SUBSET D
        BY <3>2
      <4> QED
        BY <1>0, <4>1
    <3>8. f[x] + (Sigma(f, T \ {x}) + Sigma(f, s \ T)) = (f[x] + Sigma(f, T \ {x})) + Sigma(f, s \ T)
      BY <3>7
    <3> QED
      BY <2>3, <3>3, <3>4, <3>5, <3>6, <3>8
  <2> QED
    BY <2>4, <2>5
<1> QED
  BY <1>1
=============================================================================

---------------------------- MODULE LedgerProofs ----------------------------
(***************************************************************************)
(* Proofs about Ledger for any accounts, handlers, days, amounts and       *)
(* transactions: the state stays well typed, an undisturbed recompute      *)
(* writes the balance the tables imply, and only a crash or a stale read   *)
(* leaves a wrong balance behind.                                          *)
(***************************************************************************)
EXTENDS Ledger, SumFacts

Table == [Ids -> Rows \cup {Absent}]
Statements == [Accounts -> [Days -> Figures \cup {None}]]

-----------------------------------------------------------------------------
(* Facts about the operators of Ledger.                                    *)

\* A transaction's figures are numbers, and its day is a day if it is somewhere.
LEMMA RowFigures ==
  ASSUME NEW T \in Table, NEW i \in Ids
  PROVE  /\ T[i].amt \in Int /\ T[i].day \in Nat /\ i \in Nat
         /\ T[i].closing \in Figures \cup {None}
         /\ \A a \in Accounts : T[i].acct = a => T[i].day \in Days
<1>1. T[i] \in Rows \/ T[i] = Absent
  BY DEF Table
<1>2. CASE T[i] \in Rows
  <2>1. T[i].amt \in Amounts /\ T[i].day \in Days /\ T[i].closing \in Figures \cup {None}
    BY <1>2 DEF Rows
  <2>2. Amounts \subseteq Int /\ Days \subseteq Nat /\ i \in Nat
    BY DataAssumption DEF Ids
  <2> QED
    BY <2>1, <2>2
<1>3. CASE T[i] = Absent
  BY <1>3, DataAssumption, NoneAssumption DEF Absent, Ids
<1> QED
  BY <1>1, <1>2, <1>3

\* There are finitely many rows.
LEMMA IdsFinite == IsFiniteSet(Ids) /\ \A S \in SUBSET Ids : IsFiniteSet(S)
<1>1. IsFiniteSet(Ids)
  BY DataAssumption, FS_Interval DEF Ids
<1> QED
  BY <1>1, FS_Subset

\* Total is a sum, and so an integer that depends on the amounts alone.
LEMMA TotalIsSigma ==
  ASSUME NEW T, NEW S, IsFiniteSet(S)
  PROVE  Total(T, S) = Sigma([i \in S |-> T[i].amt], S)
<1> DEFINE f == [i \in S |-> T[i].amt]
           Sums(k) == k = [s \in SUBSET S |-> IF s = {} THEN 0
                  ELSE LET x == CHOOSE x \in s : TRUE IN T[x].amt + k[s \ {x}]]
           G == CHOOSE k : Sums(k)
<1>1. Total(T, S) = G[S]
  BY Zenon DEF Total, MapThenSumSet, MapThenFoldSet
<1>2. PICK g : IsFold(g, f, S) /\ Sigma(f, S) = g[S]
  BY SigmaFold
<1>3. \A k : Sums(k) <=> IsFold(k, f, S)
  <2>1. \A s \in SUBSET S : s # {} => f[Pick(s)] = T[Pick(s)].amt
    BY PickIn
  <2> QED
    BY <2>1 DEF IsFold, Pick
<1>4. IsFold(G, f, S)
  <2> HIDE DEF Sums, f
  <2> QED
    BY <1>2, <1>3, Zenon
<1>5. \A s \in SUBSET S : g[s] = G[s]
  <2> HIDE DEF G
  <2>1. S \in SUBSET S
    OBVIOUS
  <2> QED
    BY <1>2, <1>4, <2>1, FoldUnique
<1>6. S \in SUBSET S
  OBVIOUS
<1> QED
  BY <1>1, <1>2, <1>5, <1>6

\* The sum of the amounts of rows is an integer.
LEMMA TotalType ==
  ASSUME NEW T \in Table, NEW S \in SUBSET Ids
  PROVE  Total(T, S) \in Int
<1>1. IsFiniteSet(S) /\ \A i \in S : [j \in S |-> T[j].amt][i] \in Int
  BY IdsFinite, RowFigures
<1> QED
  BY <1>1, TotalIsSigma, SigmaType

\* A sum depends on its own rows only.
LEMMA TotalSame ==
  ASSUME NEW T, NEW U, NEW S \in SUBSET Ids, \A i \in S : T[i] = U[i]
  PROVE  Total(T, S) = Total(U, S)
<1>1. IsFiniteSet(S)
  BY IdsFinite
<1> DEFINE f == [j \in S |-> T[j].amt]
           h == [j \in S |-> U[j].amt]
<1>2. \A i \in S : f[i] = h[i]
  OBVIOUS
<1>3. Total(T, S) = Sigma(f, S) /\ Total(U, S) = Sigma(h, S)
  BY <1>1, TotalIsSigma
<1> HIDE DEF f, h
<1>4. Sigma(f, S) = Sigma(h, S)
  BY <1>1, <1>2, SigmaSame
<1> QED
  BY <1>3, <1>4

\* Ids with days are totally ordered: there is one latest and one earliest.
LEMMA Extremes ==
  ASSUME NEW T \in Table, NEW S \in SUBSET Ids, S # {}
  PROVE  /\ Latest(T, S) \in S /\ \A j \in S \ {Latest(T, S)} : Before(T, j, Latest(T, S))
         /\ Earliest(T, S) \in S /\ \A j \in S \ {Earliest(T, S)} : Before(T, Earliest(T, S), j)
<1> DEFINE R == {e \in S \X S : Before(T, e[1], e[2])}
           Q == {e \in S \X S : Before(T, e[2], e[1])}
<1>0. \A i \in S : T[i].day \in Nat /\ i \in Nat
  BY RowFigures
<1>1. /\ \A i, j \in S : <<i, j>> \in R <=> Before(T, i, j)
      /\ \A i, j \in S : <<i, j>> \in Q <=> Before(T, j, i)
  OBVIOUS
<1>2. /\ \A i \in S : ~Before(T, i, i)
      /\ \A i, j, k \in S : Before(T, i, j) /\ Before(T, j, k) => Before(T, i, k)
      /\ \A i, j \in S : i # j => Before(T, i, j) \/ Before(T, j, i)
  BY <1>0 DEF Before
<1>3. IsFiniteSet(S)
  BY IdsFinite
<1>4. StrictOrder(R, S) /\ StrictOrder(Q, S)
  BY <1>1, <1>2 DEF StrictOrder
<1> HIDE DEF R, Q
<1>5. \E i \in S : \A j \in S \ {i} : <<i, j>> \in R
  BY <1>3, <1>4, FirstInOrder
<1>6. \E i \in S : \A j \in S \ {i} : <<i, j>> \in Q
  BY <1>3, <1>4, FirstInOrder
<1>7. PICK i \in S : \A j \in S \ {i} : Before(T, i, j)
  <2>1. PICK i \in S : \A j \in S \ {i} : <<i, j>> \in R
    BY <1>5
  <2>2. \A j \in S \ {i} : Before(T, i, j)
    BY <1>1, <2>1
  <2> QED
    BY <2>2
<1>8. PICK l \in S : \A j \in S \ {l} : Before(T, j, l)
  <2>1. PICK k \in S : \A j \in S \ {k} : <<k, j>> \in Q
    BY <1>6
  <2>2. \A j \in S \ {k} : Before(T, j, k)
    BY <1>1, <2>1
  <2> QED
    BY <2>2
<1> QED
  BY <1>7, <1>8 DEF Latest, Earliest

\* The days a balance is stated for.
StatedDays(S, a) == {d \in Days : S[a][d] # None}

\* Of the days stated there is a last one.
LEMMA LastStated ==
  ASSUME NEW D \in SUBSET Days, D # {}
  PROVE  \E d \in D : \A e \in D : e <= d
<1> DEFINE R == {e \in D \X D : e[1] > e[2]}
<1>0. D \subseteq Nat
  BY DataAssumption
<1>1. \A d, e \in D : <<d, e>> \in R <=> d > e
  OBVIOUS
<1>2. IsFiniteSet(D)
  BY DataAssumption, FS_Subset
<1>3. StrictOrder(R, D)
  BY <1>0, <1>1 DEF StrictOrder
<1> HIDE DEF R
<1>4. PICK d \in D : \A e \in D \ {d} : <<d, e>> \in R
  BY <1>2, <1>3, FirstInOrder
<1>5. \A e \in D : e = d \/ d > e
  BY <1>1, <1>4
<1>6. \A e \in D : e <= d
  BY <1>0, <1>5
<1> QED
  BY <1>6

-----------------------------------------------------------------------------
(* A recompute on tables that stand still.                                 *)

\* The tables' evidence, as RecomputeAccountBalance reads it and as Balance does.
AnchorOf(T, S, a) == Anchor(ClosingFact(T, a), StatedFact(S, a))
FactsOf(T, S, a) ==
  {<<<<T[i].day, i>>, T[i].closing>> : i \in Closed(T, a)}
  \cup {<<<<d, EndOfDay>>, S[a][d]>> : d \in {e \in Days : S[a][e] # None}}
Moved(T, a, f) == {i \in Of(T, a) : Later(<<T[i].day, i>>, f[1])}
Due(T, S, o, a) ==
  IF FactsOf(T, S, a) = {} THEN o + Total(T, Of(T, a))
  ELSE LET f == CHOOSE f \in FactsOf(T, S, a) : \A g \in FactsOf(T, S, a) \ {f} : Later(f[1], g[1])
       IN f[2] + Total(T, Moved(T, a, f))

\* Balance, with the tables it reads as parameters.
LEMMA BalanceIsDue == \A a : Balance(a) = Due(txn, stated, opening[a], a)
  BY Zenon DEF Balance, Due, Facts, FactsOf, Moved

\* And after a step.
LEMMA BalanceIsDueNext == \A a : Balance(a)' = Due(txn', stated', opening'[a], a)
  BY Zenon DEF Balance, Due, Facts, FactsOf, Moved

\* What latestAnchor's first statement finds: the latest closing balance.
LEMMA ClosingFound ==
  ASSUME NEW T \in Table, NEW a \in Accounts
  PROVE  LET t == ClosingFact(T, a) IN
         /\ Closed(T, a) = {} <=> t.by = None
         /\ Closed(T, a) = {} => t = NoFact
         /\ Closed(T, a) # {} =>
              /\ t.by = "txn" /\ t.id \in Closed(T, a) /\ t.day = T[t.id].day
              /\ t.balance = T[t.id].closing
              /\ \A j \in Closed(T, a) \ {t.id} : Before(T, j, t.id)
<1>1. CASE Closed(T, a) = {}
  BY <1>1 DEF ClosingFact, NoFact
<1>2. CASE Closed(T, a) # {}
  <2> DEFINE i == Latest(T, Closed(T, a))
  <2>1. Closed(T, a) \in SUBSET Ids
    BY DEF Closed, Of
  <2>2. i \in Closed(T, a) /\ \A j \in Closed(T, a) \ {i} : Before(T, j, i)
    BY <1>2, <2>1, Extremes
  <2>3. ClosingFact(T, a) = [by |-> "txn", day |-> T[i].day, id |-> i, balance |-> T[i].closing]
    BY <1>2 DEF ClosingFact
  <2> HIDE DEF i
  <2> QED
    BY <1>2, <2>2, <2>3, NoneAssumption
<1> QED
  BY <1>1, <1>2

\* What its second statement finds: the latest statement.
LEMMA StatementFound ==
  ASSUME NEW S \in Statements, NEW a \in Accounts
  PROVE  LET D == StatedDays(S, a)
             s == StatedFact(S, a)
         IN /\ D = {} <=> s.by = None
            /\ D = {} => s = NoFact
            /\ D # {} => /\ s.by = "stated" /\ s.day \in D /\ s.balance = S[a][s.day] /\ s.id = 0
                         /\ \A e \in D : e <= s.day
<1> DEFINE D == StatedDays(S, a)
<1>1. CASE D = {}
  BY <1>1 DEF StatedFact, StatedDays, NoFact
<1>2. CASE D # {}
  <2> DEFINE d == CHOOSE d \in D : \A e \in D : e <= d
  <2>1. d \in D /\ \A e \in D : e <= d
    <3>1. D \in SUBSET Days
      BY DEF StatedDays
    <3>2. \E x \in D : \A e \in D : e <= x
      BY <1>2, <3>1, LastStated
    <3> HIDE DEF D
    <3> QED
      BY <3>2
  <2>2. StatedFact(S, a) = [by |-> "stated", day |-> d, id |-> 0, balance |-> S[a][d]]
    BY <1>2, Zenon DEF StatedFact, StatedDays
  <2> HIDE DEF d
  <2> QED
    BY <1>2, <2>1, <2>2, NoneAssumption
<1> QED
  BY <1>1, <1>2

\* The evidence a recompute starts from.
Evidence == [by : {None, "txn", "stated"}, day : Days \cup {0}, id : Ids \cup {0}, balance : Int]
\* Both queries return evidence, or none.
LEMMA EvidenceType ==
  ASSUME NEW T \in Table, NEW S \in Statements, NEW a \in Accounts
  PROVE  ClosingFact(T, a) \in Evidence /\ StatedFact(S, a) \in Evidence
<1>0. NoFact \in Evidence
  BY DEF NoFact, Evidence
<1>1. ClosingFact(T, a) \in Evidence
  <2>1. CASE Closed(T, a) = {}
    BY <1>0, <2>1 DEF ClosingFact
  <2>2. CASE Closed(T, a) # {}
    <3> DEFINE i == Latest(T, Closed(T, a))
    <3>1. Closed(T, a) \in SUBSET Ids
      BY DEF Closed, Of
    <3>2. i \in Closed(T, a)
      BY <2>2, <3>1, Extremes
    <3>3. i \in Ids /\ T[i].day \in Days /\ T[i].closing \in Int
      BY <3>2, RowFigures, DataAssumption DEF Closed, Of
    <3>4. ClosingFact(T, a) = [by |-> "txn", day |-> T[i].day, id |-> i, balance |-> T[i].closing]
      BY <2>2 DEF ClosingFact
    <3> HIDE DEF i
    <3> QED
      BY <3>3, <3>4 DEF Evidence
  <2> QED
    BY <2>1, <2>2
<1>2. StatedFact(S, a) \in Evidence
  <2> DEFINE s == StatedFact(S, a)
  <2>1. CASE StatedDays(S, a) = {}
    BY <1>0, <2>1, StatementFound
  <2>2. CASE StatedDays(S, a) # {}
    <3>1. s.day \in StatedDays(S, a)
      BY <2>2, StatementFound
    <3>2. S[a][s.day] \in Figures /\ s.day \in Days
      BY <3>1 DEF StatedDays, Statements
    <3>3. PICK d \in Days : s = [by |-> "stated", day |-> d, id |-> 0, balance |-> S[a][d]]
      <4> DEFINE d == CHOOSE d \in StatedDays(S, a) : \A e \in StatedDays(S, a) : e <= d
      <4>1. s = [by |-> "stated", day |-> d, id |-> 0, balance |-> S[a][d]]
        BY <2>2, Zenon DEF StatedFact, StatedDays
      <4>2. d = s.day
        BY <4>1
      <4> QED
        BY <3>2, <4>1, <4>2
    <3>4. s.day = d
      BY <3>3
    <3>5. S[a][d] \in Int
      BY <3>2, <3>4, DataAssumption
    <3>6. [by |-> "stated", day |-> d, id |-> 0, balance |-> S[a][d]] \in Evidence
      BY <3>5 DEF Evidence
    <3> QED
      BY <3>3, <3>6
  <2> QED
    BY <2>1, <2>2
<1> QED
  BY <1>1, <1>2

\* The opening balance a closing balance implies.
LEMMA OpeningType ==
  ASSUME NEW T \in Table, NEW a, NEW o \in Int
  PROVE  Opening(T, a, o) \in Int
<1>1. CASE Closed(T, a) = {}
  BY <1>1 DEF Opening
<1>2. CASE Closed(T, a) # {}
  <2> DEFINE i == Earliest(T, Closed(T, a))
  <2>1. Closed(T, a) \in SUBSET Ids
    BY DEF Closed, Of
  <2>2. i \in Closed(T, a)
    BY <1>2, <2>1, Extremes
  <2>3. T[i].closing \in Int /\ T[i].amt \in Int
    BY <2>2, RowFigures, DataAssumption DEF Closed, Of
  <2>4. Opening(T, a, o) = T[i].closing - T[i].amt
    BY <1>2 DEF Opening
  <2> HIDE DEF i
  <2> QED
    BY <2>3, <2>4
<1> QED
  BY <1>1, <1>2

\* The moment and the figure of an anchor, as Balance writes them.
FactOf(f) == <<<<f.day, IF f.by = "txn" THEN f.id ELSE EndOfDay>>, f.balance>>

\* Moments of facts are pairs of naturals, and no two facts have the same.
LEMMA FactMoments ==
  ASSUME NEW T \in Table, NEW S \in Statements, NEW a \in Accounts
  PROVE  /\ \A f \in FactsOf(T, S, a) : f[1][1] \in Nat /\ f[1][2] \in Nat
         /\ FactsOf(T, S, a) = {} <=> Closed(T, a) = {} /\ StatedDays(S, a) = {}
<1>1. \A i \in Closed(T, a) : T[i].day \in Nat /\ i \in Nat
  BY RowFigures DEF Closed, Of
<1>2. EndOfDay \in Nat /\ \A d \in Days : d \in Nat
  BY DataAssumption DEF EndOfDay
<1>3. ASSUME NEW f \in FactsOf(T, S, a) PROVE f[1][1] \in Nat /\ f[1][2] \in Nat
  <2>1. CASE \E i \in Closed(T, a) : f = <<<<T[i].day, i>>, T[i].closing>>
    BY <1>1, <2>1
  <2>2. CASE \E d \in Days : f = <<<<d, EndOfDay>>, S[a][d]>>
    BY <1>2, <2>2
  <2> QED
    BY <2>1, <2>2 DEF FactsOf
<1>4. FactsOf(T, S, a) = {} <=> Closed(T, a) = {} /\ StatedDays(S, a) = {}
  BY DEF FactsOf, StatedDays
<1> QED
  BY <1>3, <1>4

\* The anchor is the latest fact there is: a statement counts after all
\* movements of its day, and of two closing balances the later id's counts.
LEMMA AnchorIsLatest ==
  ASSUME NEW T \in Table, NEW S \in Statements, NEW a \in Accounts, FactsOf(T, S, a) # {}
  PROVE  LET f == AnchorOf(T, S, a) IN
         /\ f.by \in {"txn", "stated"} /\ FactOf(f) \in FactsOf(T, S, a)
         /\ \A g \in FactsOf(T, S, a) \ {FactOf(f)} : Later(FactOf(f)[1], g[1])
<1> DEFINE t == ClosingFact(T, a)
           s == StatedFact(S, a)
           f == AnchorOf(T, S, a)
           C == Closed(T, a)
           D == StatedDays(S, a)
<1>0. /\ \A i \in C : T[i].day \in Nat /\ i \in 1..MaxTxn
      /\ \A d \in D : d \in Nat
      /\ MaxTxn \in Nat
  BY RowFigures, DataAssumption DEF Closed, Of, StatedDays, Ids
<1>1. ASSUME f = t, t.by = "txn", D # {} => s.day < t.day
      PROVE  /\ FactOf(f) \in FactsOf(T, S, a)
             /\ \A g \in FactsOf(T, S, a) \ {FactOf(f)} : Later(FactOf(f)[1], g[1])
  <2> DEFINE i == t.id
  <2>1. /\ i \in C /\ t.day = T[i].day /\ t.balance = T[i].closing
        /\ \A j \in C \ {i} : Before(T, j, i)
    BY <1>1, ClosingFound, NoneAssumption
  <2>2. FactOf(f) = <<<<T[i].day, i>>, T[i].closing>>
    BY <1>1, <2>1 DEF FactOf
  <2> HIDE DEF i
  <2>3. FactOf(f) \in FactsOf(T, S, a)
    BY <2>1, <2>2 DEF FactsOf
  <2>4. ASSUME NEW g \in FactsOf(T, S, a) \ {FactOf(f)} PROVE Later(FactOf(f)[1], g[1])
    <3>1. CASE \E j \in C : g = <<<<T[j].day, j>>, T[j].closing>>
      <4>1. PICK j \in C : g = <<<<T[j].day, j>>, T[j].closing>>
        BY <3>1
      <4>2. j # i
        BY <2>2, <2>4, <4>1
      <4>3. Before(T, j, i)
        BY <2>1, <4>2
      <4> QED
        BY <1>0, <2>1, <2>2, <4>1, <4>3 DEF Before, Later
    <3>2. CASE \E d \in D : g = <<<<d, EndOfDay>>, S[a][d]>>
      <4>1. PICK d \in D : g = <<<<d, EndOfDay>>, S[a][d]>>
        BY <3>2
      <4>2. d <= s.day /\ s.day \in D /\ s.day < t.day
        BY <1>1, <4>1, StatementFound
      <4>3. d \in Nat /\ s.day \in Nat /\ T[i].day \in Nat
        BY <1>0, <2>1, <4>2
      <4>4. T[i].day > d
        BY <2>1, <4>2, <4>3
      <4> QED
        BY <2>2, <4>1, <4>4 DEF Later
    <3> QED
      BY <2>4, <3>1, <3>2 DEF FactsOf, StatedDays
  <2> QED
    BY <2>3, <2>4
<1>2. ASSUME f = s, s.by = "stated", C # {} => s.day >= t.day
      PROVE  /\ FactOf(f) \in FactsOf(T, S, a)
             /\ \A g \in FactsOf(T, S, a) \ {FactOf(f)} : Later(FactOf(f)[1], g[1])
  <2> DEFINE d == s.day
  <2>1. d \in D /\ s.balance = S[a][d] /\ \A e \in D : e <= d
    BY <1>2, StatementFound, NoneAssumption
  <2>2. FactOf(f) = <<<<d, EndOfDay>>, S[a][d]>>
    BY <1>2, <2>1 DEF FactOf
  <2>3. FactOf(f) \in FactsOf(T, S, a)
    BY <2>1, <2>2 DEF FactsOf, StatedDays
  <2>4. ASSUME NEW g \in FactsOf(T, S, a) \ {FactOf(f)} PROVE Later(FactOf(f)[1], g[1])
    <3>1. CASE \E j \in C : g = <<<<T[j].day, j>>, T[j].closing>>
      <4>1. PICK j \in C : g = <<<<T[j].day, j>>, T[j].closing>>
        BY <3>1
      <4>2. /\ t.id \in C /\ t.day = T[t.id].day /\ t.day <= d
            /\ j # t.id => Before(T, j, t.id)
        BY <1>2, <4>1, ClosingFound
      <4>3. T[j].day \in Nat /\ T[t.id].day \in Nat /\ d \in Nat /\ j \in 1..MaxTxn
        BY <1>0, <2>1, <4>2
      <4>4. T[j].day <= d
        BY <4>2, <4>3 DEF Before
      <4> HIDE DEF d
      <4> QED
        BY <1>0, <2>2, <4>1, <4>3, <4>4 DEF Later, EndOfDay
    <3>2. CASE \E e \in D : g = <<<<e, EndOfDay>>, S[a][e]>>
      <4>1. PICK e \in D : g = <<<<e, EndOfDay>>, S[a][e]>>
        BY <3>2
      <4>2. e # d /\ e <= d /\ e \in Nat /\ d \in Nat
        BY <1>0, <2>1, <2>2, <2>4, <4>1
      <4> HIDE DEF d
      <4> QED
        BY <2>2, <4>1, <4>2 DEF Later
    <3> QED
      BY <2>4, <3>1, <3>2 DEF FactsOf, StatedDays
  <2> QED
    BY <2>3, <2>4
<1>3. C # {} \/ D # {}
  BY FactMoments
<1>4. CASE D = {}
  <2>1. t.by = "txn" /\ f = t
    BY <1>3, <1>4, ClosingFound, StatementFound, NoneAssumption DEF AnchorOf, Anchor
  <2> QED
    BY <1>1, <1>4, <2>1
<1>5. CASE D # {} /\ C = {}
  <2>1. s.by = "stated" /\ f = s
    BY <1>5, ClosingFound, StatementFound, NoneAssumption DEF AnchorOf, Anchor
  <2> QED
    BY <1>2, <1>5, <2>1
<1>6. CASE D # {} /\ C # {}
  <2>1. /\ s.by = "stated" /\ t.by = "txn" /\ f = IF s.day >= t.day THEN s ELSE t
        /\ s.day \in Nat /\ t.day \in Nat
    BY <1>0, <1>6, ClosingFound, StatementFound, NoneAssumption DEF AnchorOf, Anchor
  <2>2. CASE s.day >= t.day
    BY <1>2, <2>1, <2>2
  <2>3. CASE s.day < t.day
    BY <1>1, <2>1, <2>3
  <2> QED
    BY <2>1, <2>2, <2>3
<1> QED
  BY <1>4, <1>5, <1>6

\* So an undisturbed recompute leaves what Balance says.
LEMMA RecomputeIsExact ==
  ASSUME NEW T \in Table, NEW S \in Statements, NEW a \in Accounts, NEW o \in Int
  PROVE  LET f == AnchorOf(T, S, a) IN
         Due(T, S, Opening(T, a, o), a)
           = (IF f.by = None THEN o ELSE f.balance) + Total(T, After(T, a, f))
<1> DEFINE f == AnchorOf(T, S, a)
           F == FactsOf(T, S, a)
<1>1. CASE F = {}
  <2>1. Closed(T, a) = {} /\ StatedDays(S, a) = {}
    BY <1>1, FactMoments
  <2>2. ClosingFact(T, a).by = None /\ StatedFact(S, a).by = None
    BY <2>1, ClosingFound, StatementFound
  <2>3. f.by = None
    BY <2>2 DEF AnchorOf, Anchor
  <2>4. Opening(T, a, o) = o
    BY <2>1 DEF Opening
  <2> QED
    <3>1. After(T, a, f) = Of(T, a)
      <4> HIDE DEF f
      <4> QED
        BY <2>3, NoneAssumption DEF After
    <3>2. \A x : Due(T, S, x, a) = x + Total(T, Of(T, a))
      BY <1>1, Zenon DEF Due
    <3> QED
      BY <2>3, <2>4, <3>1, <3>2
<1>2. CASE F # {}
  <2> DEFINE top == CHOOSE g \in F : \A h \in F \ {g} : Later(g[1], h[1])
  <2>1. /\ f.by \in {"txn", "stated"} /\ FactOf(f) \in F
        /\ \A g \in F \ {FactOf(f)} : Later(FactOf(f)[1], g[1])
    BY <1>2, AnchorIsLatest
  <2>2. top = FactOf(f)
    <3>1. top \in F /\ \A h \in F \ {top} : Later(top[1], h[1])
      <4> HIDE DEF F
      <4> QED
        BY <2>1
    <3>2. /\ top[1][1] \in Nat /\ top[1][2] \in Nat
          /\ FactOf(f)[1][1] \in Nat /\ FactOf(f)[1][2] \in Nat
      BY <2>1, <3>1, FactMoments
    <3>3. top # FactOf(f) => Later(top[1], FactOf(f)[1]) /\ Later(FactOf(f)[1], top[1])
      BY <2>1, <3>1
    <3> HIDE DEF top
    <3> QED
      BY <3>2, <3>3 DEF Later
  <2>3. Due(T, S, Opening(T, a, o), a) = top[2] + Total(T, Moved(T, a, top))
    BY <1>2, Zenon DEF Due
  <2>4. top[2] = f.balance /\ f.by # None
    <3>1. FactOf(f)[2] = f.balance
      BY DEF FactOf
    <3> HIDE DEF top, f
    <3> QED
      BY <2>1, <2>2, <3>1, NoneAssumption
  <2>5. Moved(T, a, FactOf(f)) = After(T, a, f)
    <3>1. \A i \in Of(T, a) : T[i].day \in Nat /\ i \in 1..MaxTxn /\ MaxTxn \in Nat
      BY RowFigures, DataAssumption DEF Of, Ids
    <3>2. CASE f.by = "txn"
      <4>1. FactOf(f)[1] = <<f.day, f.id>>
        BY <3>2 DEF FactOf
      <4>2. After(T, a, f) = {i \in Of(T, a) : T[i].day > f.day \/ (T[i].day = f.day /\ i > f.id)}
        BY <2>4, <3>2 DEF After
      <4> QED
        BY <4>1, <4>2 DEF Moved, Later
    <3>3. CASE f.by = "stated"
      <4>1. FactOf(f)[1] = <<f.day, MaxTxn + 1>>
        BY <3>3 DEF FactOf, EndOfDay
      <4>2. After(T, a, f) = {i \in Of(T, a) : T[i].day > f.day}
        BY <2>4, <3>3 DEF After
      <4> QED
        BY <3>1, <4>1, <4>2 DEF Moved, Later
    <3> QED
      BY <2>1, <3>2, <3>3
  <2> HIDE DEF top
  <2> QED
    BY <2>2, <2>3, <2>4, <2>5
<1> QED
  BY <1>1, <1>2

\* What the tables say of one account is all its balance depends on.
LEMMA DueDependsOn ==
  ASSUME NEW T, NEW U, NEW S, NEW V, NEW o, NEW a,
         Of(T, a) = Of(U, a), \A i \in Of(T, a) : T[i] = U[i], S[a] = V[a]
  PROVE  Due(T, S, o, a) = Due(U, V, o, a)
<1>1. Closed(T, a) = Closed(U, a)
  BY DEF Closed
<1>2. FactsOf(T, S, a) = FactsOf(U, V, a)
  BY <1>1 DEF FactsOf, Closed
<1>3. \A f : Moved(T, a, f) = Moved(U, a, f)
  BY DEF Moved
<1>4. \A f : Total(T, Moved(T, a, f)) = Total(U, Moved(U, a, f))
  <2> TAKE f
  <2>1. Moved(T, a, f) \in SUBSET Ids /\ \A i \in Moved(T, a, f) : T[i] = U[i]
    BY DEF Moved, Of
  <2> QED
    BY <1>3, <2>1, TotalSame
<1>5. Total(T, Of(T, a)) = Total(U, Of(U, a))
  <2>1. Of(T, a) \in SUBSET Ids
    BY DEF Of
  <2> QED
    BY <2>1, TotalSame
<1> QED
  BY <1>2, <1>4, <1>5 DEF Due

-----------------------------------------------------------------------------
(* The invariant.                                                          *)

Recomputing == {"closing", "stated", "opening", "sum", "write"}
Forms == [acct : Accounts \cup {None}, day : Days \cup {0}, amt : Int, closing : Figures \cup {None}]
Locals == [pc : Recomputing \cup {"idle", "facts", "edit", "correct"}, corrected : BOOLEAN,
           todo : Seq(Accounts), ids : SUBSET Ids, row : Forms, from : SUBSET Accounts,
           fact : Evidence, value : Int]

\* Ids that were not given yet are free.
Tables ==
  /\ up \in BOOLEAN
  /\ txn \in Table
  /\ nextId \in 1..MaxTxn + 1
  /\ \A i \in Ids : nextId <= i => txn[i] = Absent
  /\ stated \in Statements
  /\ opening \in [Accounts -> Int] /\ current \in [Accounts -> Int]

\* A handler has accounts to recompute exactly while it is recomputing or about
\* to, and what it still has to write fits the tables.
Sound(me) ==
  /\ me.pc \in {"idle", "edit", "correct"} => me.todo = <<>>
  /\ me.pc \in Recomputing => me.todo # <<>>
  /\ me.pc \in {"facts", "correct"} => me.row.acct \in Accounts
  /\ me.pc = "facts" => me.row.day \in Days /\ me.row.closing \in Figures
  /\ me.pc = "edit" => me.row \in Rows \cup {Absent} /\ IsFiniteSet(me.from)

Inv == Tables /\ work \in [Workers -> Locals] /\ \A w \in Workers : Sound(work[w])

\* The empty row, the empty fact and a handler at rest are well formed.
LEMMA Shapes ==
  /\ Absent \in Forms /\ Rows \subseteq Forms /\ NoFact \in Evidence
  /\ Off \in Locals /\ Sound(Off)
<1>1. Absent \in Forms /\ NoFact \in Evidence
  BY DEF Absent, Forms, NoFact, Evidence
<1>2. Rows \subseteq Forms
  BY DataAssumption DEF Rows, Forms
<1>3. <<>> \in Seq(Accounts)
  OBVIOUS
<1>4. Off \in Locals
  BY <1>1, <1>3 DEF Off, Locals
<1>5. Sound(Off)
  BY DEF Off, Sound, Recomputing
<1> QED
  BY <1>1, <1>2, <1>4, <1>5

\* What a handler goes on with.
LEMMA ProceedSound ==
  ASSUME NEW q \in Seq(Accounts)
  PROVE  /\ Proceed(q) \in Locals /\ Sound(Proceed(q)) /\ Proceed(q).todo = q
         /\ Proceed(q).pc \in {"idle", "closing"}
<1>1. CASE q = <<>>
  BY <1>1, Shapes DEF Proceed, Off
<1>2. CASE q # <<>>
  <2>1. Proceed(q) = [Off EXCEPT !.pc = "closing", !.todo = q]
    BY <1>2 DEF Proceed
  <2>2. Proceed(q) \in Locals /\ Proceed(q).pc = "closing" /\ Proceed(q).todo = q
    BY <2>1, Shapes DEF Locals, Recomputing
  <2> QED
    BY <1>2, <2>2 DEF Sound, Recomputing
<1> QED
  BY <1>1, <1>2

\* A step of one handler on well-formed tables.
LEMMA StepKeeps ==
  ASSUME Inv, Tables', NEW w \in Workers, NEW me \in Locals, Sound(me),
         work' = [work EXCEPT ![w] = me]
  PROVE  Inv'
<1>1. work' \in [Workers -> Locals]
  BY DEF Inv
<1>2. \A x \in Workers : Sound(work'[x])
  BY DEF Inv
<1> QED
  BY <1>1, <1>2 DEF Inv

\* The accounts left for later.
LEMMA TodoParts ==
  ASSUME NEW q \in Seq(Accounts), q # <<>>
  PROVE  /\ Head(q) \in Accounts /\ Tail(q) \in Seq(Accounts) /\ q[1] = Head(q)
         /\ DOMAIN q = 1..Len(q) /\ Len(q) \in Nat \ {0}
         /\ \A k \in DOMAIN q : k # 1 => k - 1 \in DOMAIN Tail(q) /\ Tail(q)[k - 1] = q[k]
  OBVIOUS

\* An empty ledger satisfies the invariant.
LEMMA InitInv == Init => Inv
<1> SUFFICES ASSUME Init PROVE Inv
  OBVIOUS
<1>1. txn \in Table /\ \A i \in Ids : txn[i] = Absent
  BY DEF Init, Table
<1>2. stated \in Statements
  BY DEF Init, Statements
<1>3. Tables
  BY <1>1, <1>2, DataAssumption DEF Init, Tables
<1> QED
  BY <1>3, Shapes DEF Init, Inv

-----------------------------------------------------------------------------
(* The recompute.                                                          *)

\* A statement of a recompute keeps the tables and locals well formed and its evidence sound.
LEMMA RecomputeKeeps ==
  ASSUME Inv, NEW w \in Workers, Recompute(w)
  PROVE  Inv'
<1> DEFINE me == work[w]
           a == Account(w)
<1>0. /\ me \in Locals /\ Sound(me) /\ me.pc \in Recomputing
      /\ txn \in Table /\ stated \in Statements /\ opening \in [Accounts -> Int]
      /\ Tables
  BY DEF Inv, Tables, Recompute, ReadClosing, ReadStated, ReadOpening, Sum, Write, Recomputing
<1>1. me.todo \in Seq(Accounts) /\ me.todo # <<>>
  BY <1>0 DEF Locals, Sound
<1>2. a \in Accounts
  BY <1>1, TodoParts DEF Account
<1>3. ASSUME NEW p \in Locals, p.pc \in Recomputing, p.todo = me.todo, Local(w, p) PROVE Inv'
  <2>1. Sound(p)
    BY <1>1, <1>3 DEF Sound, Recomputing
  <2>2. Tables'
    BY <1>0, <1>3 DEF Tables, Local, tables
  <2> QED
    BY <1>3, <2>1, <2>2, StepKeeps DEF Local
<1>4. CASE ReadClosing(w)
  <2> DEFINE p == [me EXCEPT !.pc = "stated", !.fact = ClosingFact(txn, a)]
  <2>1. ClosingFact(txn, a) \in Evidence
    BY <1>0, <1>2, EvidenceType
  <2>2. p \in Locals /\ p.pc \in Recomputing /\ p.todo = me.todo
    BY <1>0, <2>1 DEF Locals, Recomputing
  <2> QED
    BY <1>3, <1>4, <2>2 DEF ReadClosing
<1>5. CASE ReadStated(w)
  <2> DEFINE f == Anchor(me.fact, StatedFact(stated, a))
             c == IF f.by = None THEN "opening" ELSE "sum"
             p == [me EXCEPT !.pc = c, !.fact = f, !.value = f.balance]
  <2>1. f \in Evidence
    BY <1>0, <1>2, EvidenceType DEF Anchor, Locals
  <2>2. f.balance \in Int /\ c \in Recomputing
    BY <2>1 DEF Evidence, Recomputing
  <2>3. Local(w, p)
    BY <1>5 DEF ReadStated
  <2> HIDE DEF f, c
  <2>4. p \in Locals /\ p.pc \in Recomputing /\ p.todo = me.todo
    BY <1>0, <2>1, <2>2 DEF Locals, Recomputing
  <2> QED
    BY <1>3, <2>3, <2>4
<1>6. CASE ReadOpening(w)
  <2> DEFINE p == [me EXCEPT !.pc = "sum", !.value = opening[a]]
  <2>1. p \in Locals /\ p.pc \in Recomputing /\ p.todo = me.todo
    BY <1>0, <1>2 DEF Locals, Recomputing
  <2> QED
    BY <1>3, <1>6, <2>1 DEF ReadOpening
<1>7. CASE Sum(w)
  <2> DEFINE n == Total(txn, After(txn, a, me.fact))
             v == me.value + n
             p == [me EXCEPT !.pc = "write", !.value = v]
  <2>1. n \in Int
    <3>1. After(txn, a, me.fact) \in SUBSET Ids
      BY NoneAssumption DEF After, Of
    <3> QED
      BY <1>0, <3>1, TotalType
  <2>2. Local(w, p)
    BY <1>7 DEF Sum
  <2>3. v \in Int
    BY <1>0, <2>1 DEF Locals
  <2> HIDE DEF v
  <2>4. p \in Locals /\ p.pc \in Recomputing /\ p.todo = me.todo
    BY <1>0, <2>3 DEF Locals, Recomputing
  <2> QED
    BY <1>3, <2>2, <2>4
<1>8. CASE Write(w)
  <2>1. Opening(txn, a, opening[a]) \in Int
    BY <1>0, <1>2, OpeningType
  <2>2. me.value \in Int
    BY <1>0 DEF Locals
  <2>3. Tables'
    BY <1>0, <1>2, <1>8, <2>1, <2>2 DEF Tables, Write
  <2>4. Proceed(Tail(me.todo)) \in Locals /\ Sound(Proceed(Tail(me.todo)))
    BY <1>1, TodoParts, ProceedSound
  <2>5. work' = [work EXCEPT ![w] = Proceed(Tail(me.todo))]
    BY <1>8 DEF Write
  <2> QED
    BY <2>3, <2>4, <2>5, StepKeeps
<1> QED
  BY <1>4, <1>5, <1>6, <1>7, <1>8 DEF Recompute

-----------------------------------------------------------------------------
(* The handlers.                                                           *)

\* A new row goes where there is none.
LEMMA InsertKeeps ==
  ASSUME Tables, NEW r \in Rows, Insert(r)
  PROVE  /\ txn' \in Table /\ nextId' \in 1..MaxTxn + 1
         /\ \A i \in Ids : nextId' <= i => txn'[i] = Absent
         /\ \A i \in Ids : txn'[i] = IF i = nextId THEN r ELSE txn[i]
         /\ nextId \in Ids /\ txn[nextId] = Absent
<1>1. nextId \in Ids /\ txn \in Table /\ \A i \in Ids : nextId <= i => txn[i] = Absent
  BY DEF Tables, Insert
<1>2. \A i \in Ids : txn'[i] = IF i = nextId THEN r ELSE txn[i]
  BY <1>1 DEF Insert, Table
<1>3. txn' \in Table
  BY <1>1 DEF Insert, Table
<1>4. nextId' = nextId + 1 /\ nextId' \in 1..MaxTxn + 1
  BY <1>1, DataAssumption DEF Insert, Ids
<1>5. txn[nextId] = Absent
  BY <1>1, DataAssumption DEF Ids
<1>6. \A i \in Ids : nextId' <= i => txn'[i] = Absent
  BY <1>1, <1>2, <1>4, DataAssumption DEF Ids
<1> QED
  BY <1>1, <1>2, <1>3, <1>4, <1>5, <1>6

\* What is recomputed at once are figures, too.
LEMMA AtOnceKeeps ==
  ASSUME NEW T \in Table, NEW S \in Statements, NEW a \in Accounts,
         opening \in [Accounts -> Int], current \in [Accounts -> Int],
         RecomputeAtOnce(T, S, a)
  PROVE  /\ opening' \in [Accounts -> Int] /\ current' \in [Accounts -> Int]
         /\ opening'[a] = Opening(T, a, opening[a])
         /\ current'[a] = (IF AnchorOf(T, S, a).by = None THEN opening[a] ELSE AnchorOf(T, S, a).balance)
                            + Total(T, After(T, a, AnchorOf(T, S, a)))
         /\ \A b \in Accounts : b # a => opening'[b] = opening[b] /\ current'[b] = current[b]
<1> DEFINE f == AnchorOf(T, S, a)
           base == IF f.by = None THEN opening[a] ELSE f.balance
           n == Total(T, After(T, a, f))
           o == Opening(T, a, opening[a])
<1>1. /\ current' = [current EXCEPT ![a] = base + n]
      /\ opening' = [opening EXCEPT ![a] = o]
  BY DEF RecomputeAtOnce, AnchorOf
<1>2. f \in Evidence
  BY EvidenceType DEF AnchorOf, Anchor
<1>3. base \in Int
  BY <1>2 DEF Evidence
<1>4. n \in Int
  <2>1. After(T, a, f) \in SUBSET Ids
    BY NoneAssumption DEF After, Of
  <2> QED
    BY <2>1, TotalType
<1>5. o \in Int
  BY OpeningType
<1> HIDE DEF base, n, o
<1>6. /\ opening' \in [Accounts -> Int] /\ current' \in [Accounts -> Int]
      /\ opening'[a] = o /\ current'[a] = base + n
      /\ \A b \in Accounts : b # a => opening'[b] = opening[b] /\ current'[b] = current[b]
  BY <1>1, <1>3, <1>4, <1>5
<1> QED
  BY <1>6 DEF base, n, o

\* The order in which the accounts of a deletion are recomputed has each of them.
LEMMA OrdersCover ==
  ASSUME NEW A \in SUBSET Accounts, IsFiniteSet(A), NEW q \in Orders(A)
  PROVE  q \in Seq(Accounts) /\ \A a \in A : \E k \in DOMAIN q : q[k] = a
<1>1. Cardinality(A) \in Nat
  BY FS_CardinalityType
<1>2. q \in [1..Cardinality(A) -> A] /\ \A a \in A : \E k \in DOMAIN q : q[k] = a
  BY DEF Orders
<1>3. q \in [1..Cardinality(A) -> Accounts]
  BY <1>2
<1>4. q \in Seq(Accounts)
  BY <1>1, <1>3
<1> QED
  BY <1>2, <1>4

\* After an edit every account that had or gets a row of it is recomputed.
LEMMA TouchedCover ==
  ASSUME Inv, NEW w \in Workers, work[w].pc = "edit", NEW q \in Touched(work[w])
  PROVE  /\ q \in Seq(Accounts)
         /\ \A a \in work[w].from : \E k \in DOMAIN q : q[k] = a
         /\ work[w].row # Absent => \E k \in DOMAIN q : q[k] = work[w].row.acct
<1> DEFINE me == work[w]
<1>0. /\ me.row \in Rows \cup {Absent} /\ IsFiniteSet(me.from) /\ me.from \in SUBSET Accounts
  BY DEF Inv, Sound, Locals
<1>1. CASE me.row = Absent
  <2>1. q \in Orders(me.from)
    BY <1>1 DEF Touched
  <2> QED
    BY <1>0, <1>1, <2>1, OrdersCover
<1>2. CASE me.row # Absent
  <2> DEFINE b == me.row.acct
             A == me.from \ {b}
  <2>1. b \in Accounts
    BY <1>0, <1>2 DEF Rows
  <2>2. PICK p \in Orders(A) : q = <<b>> \o p
    BY <1>2 DEF Touched
  <2>3. IsFiniteSet(A) /\ A \in SUBSET Accounts
    BY <1>0, FS_Subset
  <2>4. p \in Seq(Accounts) /\ \A a \in A : \E k \in DOMAIN p : p[k] = a
    BY <2>2, <2>3, OrdersCover
  <2> HIDE DEF b
  <2>5. q \in Seq(Accounts) /\ 1 \in DOMAIN q /\ q[1] = b
    BY <2>1, <2>2, <2>4
  <2>6. \A k \in DOMAIN p : k + 1 \in DOMAIN q /\ q[k + 1] = p[k]
    BY <2>1, <2>2, <2>4
  <2>7. \A a \in me.from : \E k \in DOMAIN q : q[k] = a
    <3> TAKE a \in me.from
    <3>1. CASE a = b
      BY <2>5, <3>1
    <3>2. CASE a # b
      BY <2>4, <2>6, <3>2
    <3> QED
      BY <3>1, <3>2
  <2> QED
    BY <2>5, <2>7 DEF b
<1> QED
  BY <1>1, <1>2

-----------------------------------------------------------------------------
(* What a step does to an account's balance, whoever takes it: nothing; or *)
(* somebody still has to recompute it; or it is right.                     *)

Untouched(a) ==
  /\ Of(txn, a)' = Of(txn, a) /\ \A i \in Of(txn, a) : txn'[i] = txn[i]
  /\ stated'[a] = stated[a] /\ opening'[a] = opening[a] /\ current'[a] = current[a]
  /\ Owed(a) => Owed(a)'
Answers(a) == Untouched(a) \/ Owed(a)' \/ current'[a] = Balance(a)'
Stale(w) == ~Valid(w) /\ work'[w] # work[w]

\* An account that a step answers for is not lost by the step.
LEMMA AnsweredNotLost ==
  ASSUME NEW a \in Accounts, Answers(a), Lost(a)'
  PROVE  Lost(a)
<1>1. Untouched(a)
  BY DEF Answers, Lost
<1>2. Due(txn, stated, opening[a], a) = Due(txn', stated', opening'[a], a)
  <2>1. Of(txn, a) = Of(txn', a) /\ \A i \in Of(txn, a) : txn[i] = txn'[i]
    BY <1>1 DEF Untouched, Of
  <2>2. stated[a] = stated'[a] /\ opening'[a] = opening[a]
    BY <1>1 DEF Untouched
  <2>3. Due(txn, stated, opening[a], a) = Due(txn', stated', opening[a], a)
    BY <2>1, <2>2, DueDependsOn
  <2> QED
    BY <2>2, <2>3
<1>3. Balance(a)' = Due(txn', stated', opening'[a], a)
  BY BalanceIsDueNext
<1>4. Balance(a)' = Balance(a)
  BY <1>2, <1>3, BalanceIsDue
<1> QED
  BY <1>1, <1>4 DEF Lost, Untouched

\* Who is still owed a recompute after a step of w.
LEMMA OwedAfter ==
  ASSUME work \in [Workers -> Locals], NEW w \in Workers, NEW me, NEW a,
         work' = [work EXCEPT ![w] = me]
  PROVE  /\ (\E j \in DOMAIN me.todo : me.todo[j] = a) => Owed(a)'
         /\ (\A k \in DOMAIN work[w].todo : work[w].todo[k] = a
               => \E j \in DOMAIN me.todo : me.todo[j] = a)
            => (Owed(a) => Owed(a)')
<1>1. work'[w] = me /\ \A x \in Workers : x # w => work'[x] = work[x]
  OBVIOUS
<1> QED
  BY <1>1 DEF Owed

\* A handler that begins owes nothing yet.
LEMMA BeginOwesNothing ==
  ASSUME Inv, NEW w \in Workers, work[w].pc \in {"idle", "edit", "correct"}
  PROVE  work[w].todo = <<>> /\ DOMAIN work[w].todo = {}
<1>1. work[w].todo = <<>>
  BY DEF Inv, Sound
<1> QED
  BY <1>1

\* A step on rows of one account, with that account recomputed later or at once.
LEMMA OneAccount ==
  ASSUME Inv, NEW w \in Workers, NEW me \in Locals, Sound(me), NEW b \in Accounts,
         work' = [work EXCEPT ![w] = me], Tables',
         \/ \E k \in DOMAIN me.todo : me.todo[k] = b
         \/ current'[b] = Balance(b)',
         \A k \in DOMAIN work[w].todo : \E j \in DOMAIN me.todo : me.todo[j] = work[w].todo[k],
         \A i \in Ids : txn'[i] = txn[i] \/ (txn[i].acct \in {b, None} /\ txn'[i].acct \in {b, None}),
         \A a \in Accounts \ {b} :
           stated'[a] = stated[a] /\ opening'[a] = opening[a] /\ current'[a] = current[a]
  PROVE  Inv' /\ \A a \in Accounts : Answers(a)
<1>1. Inv'
  BY StepKeeps
<1>2. ASSUME NEW a \in Accounts PROVE Answers(a)
  <2>1. CASE a = b
    <3>1. (\E k \in DOMAIN me.todo : me.todo[k] = b) => Owed(b)'
      BY OwedAfter DEF Inv
    <3> QED
      BY <2>1, <3>1 DEF Answers
  <2>2. CASE a # b
    <3>1. a # None
      BY NoneAssumption
    <3>2. \A i \in Ids : (txn'[i].acct = a <=> txn[i].acct = a) /\ (txn[i].acct = a => txn'[i] = txn[i])
      BY <2>2, <3>1
    <3>3. Of(txn, a)' = Of(txn, a)
      BY <3>2 DEF Of
    <3>5. \A i \in Of(txn, a) : txn'[i] = txn[i]
      BY <3>2 DEF Of
    <3>4. Owed(a) => Owed(a)'
      <4>1. work \in [Workers -> Locals]
        BY DEF Inv
      <4>2. \A k \in DOMAIN work[w].todo : work[w].todo[k] = a
              => \E j \in DOMAIN me.todo : me.todo[j] = a
        OBVIOUS
      <4> QED
        BY <4>1, <4>2, OwedAfter, Zenon
    <3> QED
      BY <2>2, <3>3, <3>4, <3>5 DEF Untouched, Answers
  <2> QED
    BY <2>1, <2>2
<1> QED
  BY <1>1, <1>2

\* A step that touches no table and forgets no account.
LEMMA NoTable ==
  ASSUME Inv, NEW w \in Workers, NEW me \in Locals, Sound(me), Local(w, me),
         \A k \in DOMAIN work[w].todo : \E j \in DOMAIN me.todo : me.todo[j] = work[w].todo[k]
  PROVE  Inv' /\ \A a \in Accounts : Answers(a)
<1>1. Tables' /\ UNCHANGED <<txn, stated, opening, current>> /\ work' = [work EXCEPT ![w] = me]
  BY DEF Inv, Tables, Local, tables
<1>2. Inv'
  BY <1>1, StepKeeps, Zenon
<1>3. ASSUME NEW a \in Accounts PROVE Answers(a)
  <2>1. Owed(a) => Owed(a)'
    <3>1. work \in [Workers -> Locals]
      BY DEF Inv
    <3>2. \A k \in DOMAIN work[w].todo : work[w].todo[k] = a
            => \E j \in DOMAIN me.todo : me.todo[j] = a
      OBVIOUS
    <3> QED
      BY <1>1, <3>1, <3>2, OwedAfter, Zenon
  <2>2. Of(txn, a)' = Of(txn, a)
    BY <1>1 DEF Of
  <2> QED
    BY <1>1, <2>1, <2>2 DEF Untouched, Answers
<1> QED
  BY <1>2, <1>3

\* A created row has its account recomputed.
LEMMA CreateAnswers ==
  ASSUME Inv, NEW w \in Workers, NEW r \in Rows, CreateTransaction(w, r)
  PROVE  Inv' /\ \A a \in Accounts : Answers(a)
<1> DEFINE b == r.acct
           me == Proceed(<<b>>)
<1>0. b \in Accounts /\ work[w].pc = "idle"
  BY DEF Rows, CreateTransaction, Begin
<1>1. work[w].todo = <<>> /\ DOMAIN work[w].todo = {}
  BY <1>0, BeginOwesNothing
<1>2. me \in Locals /\ Sound(me) /\ me.todo = <<b>>
  <2>1. <<b>> \in Seq(Accounts)
    BY <1>0
  <2> QED
    BY <2>1, ProceedSound
<1>3. Insert(r) /\ UNCHANGED <<up, stated, opening, current>>
  BY DEF CreateTransaction
<1>4. Tables' /\ \A i \in Ids : txn'[i] = txn[i] \/ (txn[i] = Absent /\ txn'[i] = r)
  BY <1>3, InsertKeeps DEF Inv, Tables
<1>5. work' = [work EXCEPT ![w] = me]
  BY DEF CreateTransaction, Then
<1>6. \E k \in DOMAIN me.todo : me.todo[k] = b
  BY <1>2
<1>7. \A i \in Ids : txn'[i] = txn[i] \/ (txn[i].acct \in {b, None} /\ txn'[i].acct \in {b, None})
  BY <1>4 DEF Absent
<1> HIDE DEF me, b
<1> QED
  BY <1>0, <1>1, <1>2, <1>3, <1>4, <1>5, <1>6, <1>7, OneAccount

\* A stated balance has its account recomputed.
LEMMA StateAnswers ==
  ASSUME Inv, NEW w \in Workers, NEW a \in Accounts, NEW d \in Days, NEW v \in Figures,
         StateBalance(w, a, d, v)
  PROVE  Inv' /\ \A b \in Accounts : Answers(b)
<1> DEFINE me == Proceed(<<a>>)
<1>0. work[w].pc = "idle"
  BY DEF StateBalance, Begin
<1>1. work[w].todo = <<>> /\ DOMAIN work[w].todo = {}
  BY <1>0, BeginOwesNothing
<1>2. me \in Locals /\ Sound(me) /\ me.todo = <<a>>
  <2>1. <<a>> \in Seq(Accounts)
    OBVIOUS
  <2> QED
    BY <2>1, ProceedSound
<1>3. /\ stated' \in Statements /\ \A b \in Accounts \ {a} : stated'[b] = stated[b]
      /\ UNCHANGED <<up, txn, nextId, opening, current>>
  BY DEF StateBalance, State, Inv, Tables, Statements
<1>4. Tables'
  BY <1>3 DEF Inv, Tables
<1>5. work' = [work EXCEPT ![w] = me]
  BY DEF StateBalance, Then
<1>6. \E k \in DOMAIN me.todo : me.todo[k] = a
  BY <1>2
<1> HIDE DEF me
<1> QED
  BY <1>1, <1>2, <1>3, <1>4, <1>5, <1>6, OneAccount

\* What an alert states or opens has its account recomputed.
LEMMA AlertFactsAnswers ==
  ASSUME Inv, NEW w \in Workers, AlertFacts(w)
  PROVE  Inv' /\ \A b \in Accounts : Answers(b)
<1> DEFINE r == work[w].row
           a == r.acct
           q == <<a>> \o work[w].todo
           me == Proceed(q)
<1>1. a \in Accounts /\ r.day \in Days /\ r.closing \in Figures /\ work[w].todo \in Seq(Accounts)
  BY DEF AlertFacts, Inv, Sound, Locals
<1> DEFINE p == work[w].todo
<1> HIDE DEF a
<1>2. /\ q \in Seq(Accounts) /\ 1 \in DOMAIN q /\ q[1] = a
      /\ \A k \in DOMAIN p : k + 1 \in DOMAIN q /\ q[k + 1] = p[k]
  <2> HIDE DEF p
  <2>1. p \in Seq(Accounts) /\ q = <<a>> \o p /\ <<a>> \in Seq(Accounts)
    BY <1>1 DEF p
  <2> HIDE DEF q
  <2>2. q \in Seq(Accounts) /\ Len(q) = 1 + Len(p) /\ Len(p) \in Nat
    BY <2>1
  <2>3. q[1] = a
    BY <2>1
  <2>4. \A k \in 1..Len(p) : q[k + 1] = p[k]
    BY <2>1, <2>2
  <2>5. DOMAIN p = 1..Len(p) /\ DOMAIN q = 1..Len(q)
    BY <2>1, <2>2
  <2> QED
    BY <2>2, <2>3, <2>4, <2>5
<1>3. me \in Locals /\ Sound(me) /\ me.todo = q
  BY <1>2, ProceedSound
<1>4. /\ stated' \in Statements /\ \A b \in Accounts \ {a} : stated'[b] = stated[b]
      /\ UNCHANGED <<up, txn, nextId, opening, current>>
  BY <1>1 DEF AlertFacts, State, Inv, Tables, Statements, a
<1>5. Tables'
  BY <1>4 DEF Inv, Tables
<1>6. work' = [work EXCEPT ![w] = me]
  BY DEF AlertFacts, Then, a
<1> HIDE DEF q, me
<1>7. \E k \in DOMAIN me.todo : me.todo[k] = a
  BY <1>2, <1>3
<1>8. \A k \in DOMAIN work[w].todo : \E j \in DOMAIN me.todo : me.todo[j] = work[w].todo[k]
  BY <1>2, <1>3
<1> QED
  BY <1>1, <1>3, <1>4, <1>5, <1>6, <1>7, <1>8, OneAccount

\* An alert without a row of its own may still state a balance.
LEMMA AlertAnswers ==
  ASSUME Inv, NEW w \in Workers, NEW r \in Rows, NEW d \in Days, NEW v \in Figures \cup {None},
         Alert(w, r, d, v)
  PROVE  Inv' /\ \A b \in Accounts : Answers(b)
<1> DEFINE b == r.acct
           row == [r EXCEPT !.day = d, !.closing = v]
           c == IF v # None THEN "facts" ELSE "closing"
           me(todo) == [Off EXCEPT !.pc = c, !.row = row, !.todo = todo]
<1>0. work[w].pc = "idle" /\ b \in Accounts /\ UNCHANGED <<up, stated, opening, current>>
  BY DEF Alert, Begin, Rows
<1>1. work[w].todo = <<>> /\ DOMAIN work[w].todo = {}
  BY <1>0, BeginOwesNothing
<1>2. row \in Rows /\ row.acct = b /\ row.day = d /\ row.closing = v
  BY DEF Rows
<1>3. c \in {"facts", "closing"} /\ (c = "facts" => v \in Figures)
  OBVIOUS
<1> HIDE DEF row, c
<1>4. ASSUME NEW q \in Seq(Accounts), q # <<>> \/ c = "facts"
      PROVE  me(q) \in Locals /\ Sound(me(q)) /\ me(q).todo = q
  <2>1. /\ me(q) \in Locals /\ me(q).todo = q /\ me(q).pc = c /\ me(q).row = row
    BY <1>2, <1>3, Shapes DEF Locals, Recomputing
  <2> HIDE DEF me
  <2> QED
    BY <1>0, <1>2, <1>3, <1>4, <2>1 DEF Sound, Recomputing
<1>5. CASE Insert(r) /\ work' = [work EXCEPT ![w] = me(<<b>>)]
  <2>1. <<b>> \in Seq(Accounts) /\ <<b>> # <<>>
    BY <1>0
  <2>2. me(<<b>>) \in Locals /\ Sound(me(<<b>>)) /\ me(<<b>>).todo = <<b>>
    BY <1>4, <2>1
  <2>3. Tables' /\ \A i \in Ids : txn'[i] = txn[i] \/ (txn[i] = Absent /\ txn'[i] = r)
    BY <1>0, <1>5, InsertKeeps DEF Inv, Tables
  <2> DEFINE p == me(<<b>>)
  <2>4. \E k \in DOMAIN p.todo : p.todo[k] = b
    BY <2>2
  <2>5. \A i \in Ids : txn'[i] = txn[i] \/ (txn[i].acct \in {b, None} /\ txn'[i].acct \in {b, None})
    BY <2>3 DEF Absent
  <2> HIDE DEF me, b
  <2> QED
    BY <1>0, <1>1, <1>5, <2>2, <2>3, <2>4, <2>5, OneAccount
<1>6. ASSUME UNCHANGED <<txn, nextId>>, NEW p \in Locals, Sound(p),
             work' = [work EXCEPT ![w] = p]
      PROVE  Inv' /\ \A a \in Accounts : Answers(a)
  <2>1. Local(w, p)
    BY <1>0, <1>6 DEF Local, tables
  <2> QED
    BY <1>1, <1>6, <2>1, NoTable
<1>7. CASE /\ work' = [work EXCEPT ![w] = IF v # None THEN me(<<>>) ELSE Off]
           /\ UNCHANGED <<txn, nextId>>
  <2>1. CASE v # None
    <3>1. c = "facts" /\ <<>> \in Seq(Accounts)
      BY <2>1 DEF c
    <3>2. me(<<>>) \in Locals /\ Sound(me(<<>>))
      BY <1>4, <3>1
    <3> QED
      BY <1>6, <1>7, <2>1, <3>2
  <2>2. CASE v = None
    BY <1>6, <1>7, <2>2, Shapes
  <2> QED
    BY <2>1, <2>2
<1> QED
  BY <1>5, <1>7 DEF Alert, row, c

\* A statement's rows, with the recompute in the same transaction.
LEMMA ImportAnswers ==
  ASSUME Inv, NEW w \in Workers, NEW r \in Rows, ImportStatement(w, r)
  PROVE  Inv' /\ \A b \in Accounts : Answers(b)
<1> DEFINE b == r.acct
           me == work[w]
           o == Opening(txn', b, opening[b])
<1>0. /\ work[w].pc = "idle" /\ b \in Accounts /\ UNCHANGED <<up, stated, work>>
      /\ Insert(r) /\ RecomputeAtOnce(txn', stated, b) /\ r.closing # None
      /\ stated \in Statements /\ opening \in [Accounts -> Int] /\ current \in [Accounts -> Int]
  BY DEF ImportStatement, Begin, Rows, Inv, Tables
<1>1. me.todo = <<>> /\ DOMAIN me.todo = {}
  BY <1>0, BeginOwesNothing
<1>2. /\ txn' \in Table /\ nextId' \in 1..MaxTxn + 1
      /\ \A i \in Ids : nextId' <= i => txn'[i] = Absent
      /\ \A i \in Ids : txn'[i] = IF i = nextId THEN r ELSE txn[i]
      /\ nextId \in Ids /\ txn[nextId] = Absent
  BY <1>0, InsertKeeps DEF Inv
<1>3. /\ opening' \in [Accounts -> Int] /\ current' \in [Accounts -> Int]
      /\ opening'[b] = o
      /\ current'[b] = (IF AnchorOf(txn', stated, b).by = None THEN opening[b]
                        ELSE AnchorOf(txn', stated, b).balance)
                         + Total(txn', After(txn', b, AnchorOf(txn', stated, b)))
      /\ \A a \in Accounts : a # b => opening'[a] = opening[a] /\ current'[a] = current[a]
  BY <1>0, <1>2, AtOnceKeeps
<1>4. current'[b] = Balance(b)'
  <2>1. Balance(b)' = Due(txn', stated', opening'[b], b)
    BY BalanceIsDueNext
  <2>2. opening[b] \in Int
    BY <1>0
  <2>3. Due(txn', stated, o, b) = current'[b]
    BY <1>0, <1>2, <1>3, <2>2, RecomputeIsExact
  <2> QED
    BY <1>0, <1>3, <2>1, <2>3
<1>5. Tables'
  BY <1>0, <1>2, <1>3 DEF Inv, Tables
<1>6. me \in Locals /\ Sound(me) /\ work' = [work EXCEPT ![w] = me]
  BY <1>0 DEF Inv
<1>7. \A i \in Ids : txn'[i] = txn[i] \/ (txn[i].acct \in {b, None} /\ txn'[i].acct \in {b, None})
  BY <1>2 DEF Absent
<1>8. \A a \in Accounts \ {b} :
        stated'[a] = stated[a] /\ opening'[a] = opening[a] /\ current'[a] = current[a]
  BY <1>0, <1>3
<1> HIDE DEF b
<1> QED
  BY <1>0, <1>1, <1>4, <1>5, <1>6, <1>7, <1>8, OneAccount

\* Requests that begin with a look at the tables.
LEMMA LookAnswers ==
  ASSUME Inv, NEW w \in Workers,
         \/ \E r \in Rows, i \in Ids : Update(w, i, r)
         \/ \E S \in SUBSET Ids : Delete(w, S)
         \/ \E a \in Accounts, v \in Figures : ReadAccount(w, a, v)
  PROVE  Inv' /\ \A b \in Accounts : Answers(b)
<1>1. ASSUME NEW p \in Locals, Sound(p), work[w].pc = "idle", Local(w, p)
      PROVE  Inv' /\ \A b \in Accounts : Answers(b)
  BY <1>1, BeginOwesNothing, NoTable
<1>2. ASSUME NEW S \in SUBSET Ids, NEW r \in Rows \cup {Absent}, NEW op, LookUp(w, op, S, r)
      PROVE  Inv' /\ \A b \in Accounts : Answers(b)
  <2> DEFINE A == InAccounts(S)
             p == [Off EXCEPT !.pc = "edit", !.ids = S, !.row = r, !.from = A]
  <2>1. A \in SUBSET Accounts
    <3>1. txn \in Table
      BY DEF Inv, Tables
    <3> QED
      BY <3>1 DEF InAccounts, Table, Rows, Absent
  <2>2. IsFiniteSet(A)
    <3> DEFINE f == [i \in S |-> txn[i].acct]
    <3>1. f \in Surjection(S, {txn[i].acct : i \in S})
      BY DEF Surjection
    <3>2. IsFiniteSet({txn[i].acct : i \in S})
      BY <3>1, IdsFinite, FS_Surjection
    <3> QED
      BY <3>2, FS_Subset DEF InAccounts
  <2>3. work[w].pc = "idle" /\ Local(w, p)
    BY <1>2 DEF LookUp, Begin
  <2> HIDE DEF A
  <2>4. p \in Locals /\ p.pc = "edit" /\ p.todo = <<>> /\ p.row = r /\ p.from = A
    <3>1. r \in Forms
      BY Shapes
    <3>2. Off.todo = <<>>
      BY DEF Off
    <3> QED
      BY <2>1, <3>1, <3>2, Shapes DEF Locals, Recomputing
  <2>5. Sound(p)
    BY <2>2, <2>4 DEF Sound, Recomputing
  <2> QED
    BY <1>1, <2>3, <2>4, <2>5
<1>3. ASSUME NEW a \in Accounts, NEW v \in Figures, ReadAccount(w, a, v)
      PROVE  Inv' /\ \A b \in Accounts : Answers(b)
  <2> DEFINE row == [Absent EXCEPT !.acct = a, !.amt = v]
             p == [Off EXCEPT !.pc = "correct", !.value = opening[a], !.row = row]
  <2>1. row \in Forms /\ row.acct = a
    BY Shapes, DataAssumption DEF Forms
  <2>2. opening[a] \in Int
    BY DEF Inv, Tables
  <2>3. work[w].pc = "idle" /\ Local(w, p)
    BY <1>3 DEF ReadAccount, Begin
  <2> HIDE DEF row
  <2>4. p \in Locals /\ p.pc = "correct" /\ p.todo = <<>> /\ p.row = row
    <3>1. Off.todo = <<>>
      BY DEF Off
    <3> QED
      BY <2>1, <2>2, <3>1, Shapes DEF Locals, Recomputing
  <2>5. Sound(p)
    BY <2>1, <2>4 DEF Sound, Recomputing
  <2> QED
    BY <1>1, <2>3, <2>4, <2>5
<1> QED
  BY <1>2, <1>3 DEF Update, Delete

\* An account that is only touched loses nothing.
LEMMA TouchAnswers ==
  ASSUME Inv, NEW w \in Workers, NEW a \in Accounts, Touch(w, a)
  PROVE  Inv' /\ \A b \in Accounts : Answers(b)
<1> DEFINE me == Proceed(<<a>>)
<1>1. work[w].pc = "idle" /\ Local(w, me)
  BY DEF Touch, Begin, Then, Local
<1>2. me \in Locals /\ Sound(me)
  <2>1. <<a>> \in Seq(Accounts)
    OBVIOUS
  <2> QED
    BY <2>1, ProceedSound
<1> QED
  BY <1>1, <1>2, BeginOwesNothing, NoTable

\* The form's opening balance: it is recomputed if the form says another.
LEMMA CorrectAnswers ==
  ASSUME Inv, NEW w \in Workers, Correct(w)
  PROVE  Inv' /\ (Stale(w) \/ \A b \in Accounts : Answers(b))
<1> DEFINE me == work[w]
           a == me.row.acct
           n == me.row.amt
           p == IF n # me.value THEN [Proceed(<<a>>) EXCEPT !.corrected = TRUE] ELSE Off
<1>0. /\ me.pc = "correct" /\ me \in Locals /\ a \in Accounts /\ n \in Int
      /\ UNCHANGED <<up, txn, nextId, stated, current>>
  BY DEF Correct, Inv, Sound, Locals, Forms
<1>1. me.todo = <<>> /\ DOMAIN me.todo = {}
  BY <1>0, BeginOwesNothing
<1>2. work' = [work EXCEPT ![w] = p] /\ opening' = [opening EXCEPT ![a] = n]
  BY DEF Correct
<1>3. p \in Locals /\ Sound(p) /\ p.pc \in {"idle", "closing"} /\ (n # me.value => p.todo = <<a>>)
  <2>1. <<a>> \in Seq(Accounts)
    BY <1>0
  <2> DEFINE q == Proceed(<<a>>)
  <2>2. q \in Locals /\ Sound(q) /\ q.todo = <<a>> /\ q.pc \in {"idle", "closing"}
    BY <2>1, ProceedSound
  <2> HIDE DEF q
  <2> DEFINE c == [q EXCEPT !.corrected = TRUE]
  <2>3. /\ c \in Locals /\ c.todo = q.todo /\ c.pc = q.pc /\ c.row = q.row /\ c.from = q.from
    BY <2>2 DEF Locals
  <2>4. Sound(c)
    BY <2>2, <2>3 DEF Sound
  <2>5. p = IF n # me.value THEN c ELSE Off
    BY DEF q
  <2>6. Off.pc = "idle"
    BY DEF Off
  <2> HIDE DEF c, p
  <2> QED
    BY <2>2, <2>3, <2>4, <2>5, <2>6, Shapes
<1> HIDE DEF p
<1>4. Tables'
  BY <1>0, <1>2 DEF Inv, Tables
<1>5. /\ opening \in [Accounts -> Int]
      /\ \A b \in Accounts \ {a} :
           stated'[b] = stated[b] /\ opening'[b] = opening[b] /\ current'[b] = current[b]
  BY <1>0, <1>2 DEF Inv, Tables
<1>6. Inv'
  BY <1>2, <1>3, <1>4, StepKeeps
<1>7. CASE n # me.value
  <2>1. \E k \in DOMAIN p.todo : p.todo[k] = a
    BY <1>3, <1>7
  <2> HIDE DEF a
  <2> QED
    BY <1>0, <1>1, <1>2, <1>3, <1>4, <1>5, <2>1, OneAccount
<1>8. CASE n = me.value /\ opening[a] = me.value
  <2>1. opening' = opening
    BY <1>0, <1>2, <1>5, <1>8
  <2>2. Local(w, p)
    BY <1>0, <1>2, <2>1 DEF Local, tables
  <2> QED
    BY <1>1, <1>3, <2>2, NoTable
<1>9. CASE opening[a] # me.value
  <2>1. ~Valid(w)
    BY <1>0, <1>9 DEF Valid
  <2>2. work'[w] # work[w]
    BY <1>0, <1>2, <1>3 DEF Inv
  <2> QED
    BY <1>6, <2>1, <2>2 DEF Stale
<1> QED
  BY <1>6, <1>7, <1>8, <1>9

\* The UPDATE or DELETE: every account it takes rows from or puts rows into is
\* recomputed, unless the rows have been moved since they were looked up.
LEMMA EditAnswers ==
  ASSUME Inv, NEW w \in Workers, Edit(w)
  PROVE  Inv' /\ (Stale(w) \/ \A b \in Accounts : Answers(b))
<1> DEFINE me == work[w]
<1>0. /\ me.pc = "edit" /\ me \in Locals /\ me.ids \in SUBSET Ids
      /\ me.row \in Rows \cup {Absent} /\ txn \in Table /\ work \in [Workers -> Locals]
      /\ UNCHANGED <<up, nextId, stated, opening, current>>
  BY DEF Edit, Inv, Tables, Sound, Locals
<1>1. DOMAIN me.todo = {}
  BY <1>0, BeginOwesNothing
<1>2. PICK q \in Touched(me) : work' = [work EXCEPT ![w] = Proceed(q)]
  BY DEF Edit, Then
<1>3. /\ q \in Seq(Accounts) /\ \A a \in me.from : \E k \in DOMAIN q : q[k] = a
      /\ me.row # Absent => \E k \in DOMAIN q : q[k] = me.row.acct
  BY <1>0, <1>2, TouchedCover
<1>4. Proceed(q) \in Locals /\ Sound(Proceed(q)) /\ Proceed(q).todo = q
      /\ Proceed(q).pc \in {"idle", "closing"}
  BY <1>3, ProceedSound
<1>5. \A i \in Ids : txn'[i] = IF i \in me.ids THEN Edited(me, i) ELSE txn[i]
  BY DEF Edit
<1>6. \A i \in Ids : /\ Edited(me, i) \in Rows \cup {Absent}
                     /\ txn[i] = Absent => Edited(me, i) = Absent
                     /\ Edited(me, i) = Absent \/ (me.row # Absent /\ Edited(me, i).acct = me.row.acct)
  <2> TAKE i \in Ids
  <2>1. CASE me.row = Absent \/ txn[i] = Absent
    BY <2>1 DEF Edited
  <2>2. CASE me.row # Absent /\ txn[i] # Absent
    <3>1. me.row \in Rows /\ txn[i] \in Rows
      BY <1>0, <2>2 DEF Table
    <3> DEFINE r == me.row
    <3>2. Edited(me, i) = [r EXCEPT !.closing = txn[i].closing]
      BY <2>2 DEF Edited
    <3> HIDE DEF r
    <3>3. r \in Rows
      BY <3>1 DEF r
    <3>4. Edited(me, i) \in Rows /\ Edited(me, i).acct = r.acct
      BY <3>1, <3>2, <3>3 DEF Rows
    <3> QED
      BY <2>2, <3>4 DEF r
  <2> QED
    BY <2>1, <2>2
<1>7. Tables'
  <2>1. txn' = [i \in Ids |-> IF i \in me.ids THEN Edited(me, i) ELSE txn[i]]
    BY DEF Edit
  <2>2. txn' \in Table
    BY <1>0, <1>6, <2>1 DEF Table
  <2>3. \A i \in Ids : nextId' <= i => txn'[i] = Absent
    BY <1>0, <1>5, <1>6 DEF Inv, Tables
  <2> QED
    BY <1>0, <2>2, <2>3 DEF Inv, Tables
<1>8. Inv'
  BY <1>2, <1>4, <1>7, StepKeeps
<1>9. CASE Valid(w)
  <2>1. InAccounts(me.ids) \subseteq me.from
    BY <1>0, <1>9 DEF Valid
  <2>2. ASSUME NEW a \in Accounts PROVE Answers(a)
    <3>1. CASE \E k \in DOMAIN q : q[k] = a
      <4> DEFINE n == Proceed(q)
      <4>1. work' = [work EXCEPT ![w] = n] /\ n.todo = q
        BY <1>2, <1>4
      <4> HIDE DEF n
      <4>2. Owed(a)'
        BY <1>0, <3>1, <4>1, OwedAfter
      <4> QED
        BY <4>2 DEF Answers
    <3>2. CASE ~\E k \in DOMAIN q : q[k] = a
      <4>1. a \notin me.from /\ (me.row # Absent => me.row.acct # a) /\ a # None
        BY <1>3, <3>2, NoneAssumption
      <4>2. \A i \in me.ids : txn[i].acct # a
        BY <2>1, <4>1 DEF InAccounts
      <4>3. \A i \in me.ids : txn'[i].acct # a
        BY <1>0, <1>5, <1>6, <4>1 DEF Absent
      <4>4. \A i \in Ids : (txn'[i].acct = a <=> txn[i].acct = a) /\ (txn[i].acct = a => txn'[i] = txn[i])
        BY <1>5, <4>2, <4>3
      <4>5. Of(txn, a)' = Of(txn, a)
        BY <4>4 DEF Of
      <4>6. \A i \in Of(txn, a) : txn'[i] = txn[i]
        BY <4>4 DEF Of
      <4>7. Owed(a) => Owed(a)'
        BY <1>0, <1>1, <1>2, OwedAfter, Zenon
      <4> QED
        BY <1>0, <4>5, <4>6, <4>7 DEF Untouched, Answers
    <3> QED
      BY <3>1, <3>2
  <2> QED
    BY <1>8, <2>2
<1>10. CASE ~Valid(w)
  <2>1. work'[w] # work[w]
    BY <1>0, <1>2, <1>4
  <2> QED
    BY <1>8, <1>10, <2>1 DEF Stale
<1> QED
  BY <1>9, <1>10

\* A handler that has read nothing anew since writes what the tables imply.
LEMMA WriteIsExact ==
  ASSUME Inv, NEW w \in Workers, Write(w), Valid(w), NEW a \in Accounts, a = Account(w)
  PROVE  current'[a] = Balance(a)'
<1> DEFINE me == work[w]
           o == opening[a]
           f == AnchorOf(txn, stated, a)
<1>0. /\ me.pc = "write" /\ me \in Locals /\ me.todo # <<>>
      /\ txn \in Table /\ stated \in Statements
      /\ opening \in [Accounts -> Int] /\ current \in [Accounts -> Int]
  BY DEF Write, Inv, Tables, Sound, Locals, Recomputing
<1>1. /\ current' = [current EXCEPT ![a] = me.value]
      /\ opening' = [opening EXCEPT ![a] = Opening(txn, a, opening[a])]
      /\ txn' = txn /\ stated' = stated
  BY DEF Write
<1>2. /\ me.fact = f
      /\ me.value = Total(txn, After(txn, a, me.fact))
                      + (IF me.fact.by = None THEN opening[a] ELSE me.fact.balance)
  BY <1>0 DEF Valid, AnchorOf
<1>3. o \in Int /\ Opening(txn, a, o) \in Int
  BY <1>0, OpeningType
<1>4. Due(txn, stated, Opening(txn, a, o), a)
        = (IF f.by = None THEN o ELSE f.balance) + Total(txn, After(txn, a, f))
  BY <1>0, <1>3, RecomputeIsExact
<1>5. Total(txn, After(txn, a, f)) \in Int
  <2>1. After(txn, a, f) \in SUBSET Ids
    BY NoneAssumption DEF After, Of
  <2> QED
    BY <1>0, <2>1, TotalType
<1>6. f \in Evidence
  BY <1>0, EvidenceType DEF AnchorOf, Anchor
<1>7. Due(txn, stated, Opening(txn, a, o), a) = me.value
  BY <1>2, <1>3, <1>4, <1>5, <1>6 DEF Evidence
<1>8. opening'[a] = Opening(txn, a, o) /\ current'[a] = me.value
  BY <1>0, <1>1
<1>9. Balance(a)' = Due(txn', stated', opening'[a], a)
  BY BalanceIsDueNext
<1> QED
  BY <1>1, <1>7, <1>8, <1>9

\* The recompute: a read changes no table and forgets no account; the write
\* leaves its account right, unless another handler has overtaken the reads.
LEMMA RecomputeAnswers ==
  ASSUME Inv, NEW w \in Workers, Recompute(w)
  PROVE  Inv' /\ (Stale(w) \/ \A b \in Accounts : Answers(b))
<1> DEFINE me == work[w]
<1>0. /\ work \in [Workers -> Locals] /\ me.todo \in Seq(Accounts) /\ me.todo # <<>>
  BY DEF Inv, Sound, Locals, Recompute, ReadClosing, ReadStated, ReadOpening, Sum, Write, Recomputing
<1>1. Inv'
  BY RecomputeKeeps
<1>2. ASSUME NEW p, p.todo = me.todo, Local(w, p) PROVE \A b \in Accounts : Answers(b)
  <2> TAKE b \in Accounts
  <2>1. Of(txn, b)' = Of(txn, b)
    BY <1>2 DEF Of, Local, tables
  <2>2. Owed(b) => Owed(b)'
    <3>1. work' = [work EXCEPT ![w] = p]
      BY <1>2 DEF Local
    <3>2. \A k \in DOMAIN work[w].todo : work[w].todo[k] = b => \E j \in DOMAIN p.todo : p.todo[j] = b
      BY <1>2
    <3> QED
      BY <1>0, <3>1, <3>2, OwedAfter, Zenon
  <2> QED
    BY <1>2, <2>1, <2>2 DEF Answers, Untouched, Local, tables
<1>3. CASE ReadClosing(w)
  <2>1. PICK p : p.todo = me.todo /\ Local(w, p)
    BY <1>0, <1>3 DEF ReadClosing, Locals
  <2> QED
    BY <1>1, <1>2, <2>1
<1>4. CASE ReadStated(w)
  <2>1. PICK p : p.todo = me.todo /\ Local(w, p)
    BY <1>0, <1>4 DEF ReadStated, Locals
  <2> QED
    BY <1>1, <1>2, <2>1
<1>5. CASE ReadOpening(w)
  <2>1. PICK p : p.todo = me.todo /\ Local(w, p)
    BY <1>0, <1>5 DEF ReadOpening, Locals
  <2> QED
    BY <1>1, <1>2, <2>1
<1>6. CASE Sum(w)
  <2>1. PICK p : p.todo = me.todo /\ Local(w, p)
    BY <1>0, <1>6 DEF Sum, Locals
  <2> QED
    BY <1>1, <1>2, <2>1
<1>7. CASE Write(w)
  <2> DEFINE p == Proceed(Tail(me.todo))
  <2>1. work' = [work EXCEPT ![w] = p] /\ me.pc = "write"
    BY <1>7 DEF Write
  <2>2. p.todo = Tail(me.todo) /\ p.pc \in {"idle", "closing"}
    BY <1>0, TodoParts, ProceedSound
  <2> HIDE DEF p
  <2>3. CASE Valid(w)
    <3>1. ASSUME NEW b \in Accounts, b = Account(w) PROVE Answers(b)
      BY <1>7, <2>3, <3>1, WriteIsExact DEF Answers
    <3>2. ASSUME NEW b \in Accounts, b # Account(w) PROVE Answers(b)
      <4>1. stated'[b] = stated[b] /\ opening'[b] = opening[b] /\ current'[b] = current[b] /\ txn' = txn
        BY <1>7, <3>2 DEF Write, Inv, Tables
      <4>2. Of(txn, b)' = Of(txn, b)
        BY <4>1 DEF Of
      <4>3. \A k \in DOMAIN me.todo : me.todo[k] = b => \E j \in DOMAIN p.todo : p.todo[j] = b
        <5> TAKE k \in DOMAIN me.todo
        <5> HAVE me.todo[k] = b
        <5>1. k # 1
          BY <1>0, <3>2, TodoParts DEF Account
        <5>2. k - 1 \in DOMAIN Tail(me.todo) /\ Tail(me.todo)[k - 1] = b
          BY <1>0, <5>1, TodoParts
        <5> QED
          BY <2>2, <5>2
      <4>4. Owed(b) => Owed(b)'
        BY <1>0, <2>1, <4>3, OwedAfter, Zenon
      <4> QED
        BY <4>1, <4>2, <4>4 DEF Answers, Untouched
    <3> QED
      BY <1>1, <3>1, <3>2
  <2>4. CASE ~Valid(w)
    <3>1. work'[w] # me
      BY <1>0, <2>1, <2>2
    <3> QED
      BY <1>1, <2>4, <3>1 DEF Stale
  <2> QED
    BY <2>3, <2>4
<1> QED
  BY <1>3, <1>4, <1>5, <1>6, <1>7 DEF Recompute

-----------------------------------------------------------------------------
(* Every step.                                                             *)

\* A step keeps the invariant and answers for every balance it touches, but for
\* a crash and a step on an overtaken read.
LEMMA NextAnswers ==
  ASSUME Inv, [Next]_vars
  PROVE  /\ Inv'
         /\ \/ ~up'
            \/ \E w \in Workers : Stale(w)
            \/ \A a \in Accounts : Answers(a)
<1>1. CASE \E w \in Workers : Request(w) \/ Step(w) \/ \E a \in Accounts : Touch(w, a)
  <2>1. PICK w \in Workers : Request(w) \/ Step(w) \/ \E a \in Accounts : Touch(w, a)
    BY <1>1
  <2>2. CASE Request(w)
    BY <2>2, CreateAnswers, ImportAnswers, AlertAnswers, LookAnswers, StateAnswers DEF Request
  <2>3. CASE Step(w)
    BY <2>3, RecomputeAnswers, AlertFactsAnswers, EditAnswers, CorrectAnswers DEF Step
  <2>4. CASE \E a \in Accounts : Touch(w, a)
    BY <2>4, TouchAnswers
  <2> QED
    BY <2>1, <2>2, <2>3, <2>4
<1>2. CASE Crash
  <2>1. up' = FALSE /\ UNCHANGED tables
    BY <1>2 DEF Crash
  <2>2. Tables'
    BY <2>1 DEF Inv, Tables, tables
  <2>3. work' = [w \in Workers |-> Off]
    BY <1>2 DEF Crash
  <2> HIDE DEF Off
  <2>4. work' \in [Workers -> Locals] /\ \A w \in Workers : Sound(work'[w])
    BY <2>3, Shapes
  <2> QED
    BY <2>1, <2>2, <2>4 DEF Inv
<1>3. ASSUME up' \in BOOLEAN, UNCHANGED tables, UNCHANGED work
      PROVE  Inv' /\ \A a \in Accounts : Answers(a)
  <2>1. Inv'
    BY <1>3 DEF Inv, Tables, tables
  <2>2. ASSUME NEW a \in Accounts PROVE Answers(a)
    <3>1. Of(txn, a)' = Of(txn, a)
      BY <1>3 DEF Of, tables
    <3>2. Owed(a) => Owed(a)'
      BY <1>3 DEF Owed
    <3> QED
      BY <1>3, <3>1, <3>2 DEF Answers, Untouched, tables
  <2> QED
    BY <2>1, <2>2
<1>4. CASE Restart
  BY <1>3, <1>4 DEF Restart
<1>5. CASE UNCHANGED vars
  BY <1>3, <1>5 DEF vars, tables, Inv, Tables
<1> QED
  BY <1>1, <1>2, <1>4, <1>5 DEF Next

\* No step takes a recompute away from "write" but its own write.
LEMMA OnlyWriteWrites ==
  ASSUME Inv, [Next]_vars, NEW w \in Workers, work[w].pc = "write", work'[w] # work[w], up'
  PROVE  Write(w)
<1>0. work \in [Workers -> Locals]
  BY DEF Inv
<1>1. ASSUME NEW x \in Workers, NEW me, work' = [work EXCEPT ![x] = me] PROVE x = w
  BY <1>0, <1>1
<1>2. ASSUME NEW x \in Workers, Request(x) PROVE FALSE
  <2>1. work[x].pc = "idle"
    BY <1>2 DEF Request, CreateTransaction, ImportStatement, Alert, Update, Delete, LookUp,
      StateBalance, ReadAccount, Begin
  <2>2. work' = work \/ \E me : work' = [work EXCEPT ![x] = me]
    BY <1>2 DEF Request, CreateTransaction, ImportStatement, Alert, Update, Delete, LookUp,
      StateBalance, ReadAccount, Then, Local
  <2> QED
    BY <1>1, <2>1, <2>2
<1>3. ASSUME NEW x \in Workers, NEW a, Touch(x, a) PROVE FALSE
  BY <1>1, <1>3 DEF Touch, Begin, Then
<1>4. ASSUME NEW x \in Workers, Step(x) PROVE Write(w)
  <2>1. \E me : work' = [work EXCEPT ![x] = me]
    BY <1>4 DEF Step, Recompute, ReadClosing, ReadStated, ReadOpening, Sum, Write, Local,
      AlertFacts, Edit, Correct, Then
  <2>2. x = w
    BY <1>1, <2>1
  <2> QED
    BY <1>4, <2>2 DEF Step, Recompute, ReadClosing, ReadStated, ReadOpening, Sum,
      AlertFacts, Edit, Correct
<1>5. ~Crash /\ ~Restart /\ ~UNCHANGED vars
  BY DEF Crash, Restart, vars
<1> QED
  BY <1>2, <1>3, <1>4, <1>5 DEF Next

-----------------------------------------------------------------------------
(* The theorems.                                                           *)

\* The invariant holds in every reachable state.
LEMMA InvHolds == Spec => []Inv
<1>1. Inv /\ [Next]_vars => Inv'
  BY NextAnswers
<1> QED
  BY <1>1, InitInv, PTL DEF Spec

\* Amounts stay numbers, every row belongs to an account, and a handler that
\* recomputes has an account to recompute.
THEOREM TypeCorrect == Spec => []TypeOK
<1>1. Inv => TypeOK
  <2> SUFFICES ASSUME Inv PROVE TypeOK
    OBVIOUS
  <2>1. ASSUME NEW w \in Workers
        PROVE  LET me == work[w] IN
               /\ me.pc \in {"idle", "closing", "stated", "opening", "sum", "write", "facts", "edit", "correct"}
               /\ me.corrected \in BOOLEAN
               /\ \A k \in DOMAIN me.todo : me.todo[k] \in Accounts
               /\ me.pc \in {"closing", "stated", "opening", "sum", "write"} => me.todo # <<>>
               /\ me.pc \in {"facts", "correct"} => me.row.acct \in Accounts
               /\ me.ids \subseteq Ids /\ me.from \subseteq Accounts
               /\ me.value \in Int
    BY DEF Inv, Sound, Locals, Recomputing
  <2> QED
    BY <2>1 DEF TypeOK, Inv, Tables, Table, Statements
<1> QED
  BY <1>1, InvHolds, PTL

\* However many handlers interleave: a recompute that none of them has overtaken
\* writes the balance the tables imply.
THEOREM RecomputesAreExact == Spec => ExactUnlessOvertaken
<1> DEFINE A == \A w \in Workers, a \in Accounts :
       work[w].pc = "write" /\ a = Account(w) /\ Valid(w) /\ work'[w] # work[w] /\ up'
         => current'[a] = Balance(a)'
<1>1. Inv /\ [Next]_vars => [A]_vars
  <2> SUFFICES ASSUME Inv, [Next]_vars, NEW w \in Workers, NEW a \in Accounts,
                      work[w].pc = "write", a = Account(w), Valid(w), work'[w] # work[w], up'
               PROVE  current'[a] = Balance(a)'
    OBVIOUS
  <2>1. Write(w)
    BY OnlyWriteWrites
  <2> QED
    BY <2>1, WriteIsExact
<1> QED
  BY <1>1, InvHolds, PTL DEF Spec, ExactUnlessOvertaken

\* No handler forgets an account it has changed: what a balance lost, a crash or
\* an overtaken read has lost.
THEOREM BalancesLostOnlyByRace == Spec => LostOnlyByRace
<1> DEFINE A == \A a \in Accounts : Lost(a)' /\ ~Lost(a) =>
       ~up' \/ \E w \in Workers : ~Valid(w) /\ work'[w] # work[w]
<1>1. Inv /\ [Next]_vars => [A]_vars
  <2> SUFFICES ASSUME Inv, [Next]_vars, NEW a \in Accounts, Lost(a)', ~Lost(a)
               PROVE  ~up' \/ \E w \in Workers : Stale(w)
    BY DEF Stale
  <2>1. ~Answers(a)
    BY AnsweredNotLost
  <2> QED
    BY <2>1, NextAnswers
<1> QED
  BY <1>1, InvHolds, PTL DEF Spec, LostOnlyByRace
=============================================================================

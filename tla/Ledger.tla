-------------------------------- MODULE Ledger --------------------------------
(***************************************************************************)
(* The balance of a finance account and everything that moves it:          *)
(* transactions entered, edited, moved, deleted or imported, alerts and    *)
(* balances from mail, balances and opening balances stated by the user.   *)
(* Each handler changes the tables and then calls                          *)
(* ledger.RecomputeAccountBalance, which reads its evidence in three       *)
(* statements and writes the balance in a fourth.  Every statement is      *)
(* atomic (one SQLite connection); handlers of several requests and the    *)
(* ingest of several mailboxes interleave between statements.  A statement *)
(* import does everything in one transaction.                              *)
(*                                                                         *)
(* A transaction is its account, its day, the signed amount and the        *)
(* closing balance printed against it, if any.                             *)
(***************************************************************************)
EXTENDS FiniteSetsExt, Sequences

CONSTANTS Accounts, Workers,
          None,
          Days,       \* dates, as numbers
          Amounts,    \* deposit_amt - withdrawal_amt
          Figures,    \* balances a bank or the user states
          MaxTxn,     \* bound: transactions ever recorded
          Origins     \* which handlers are in play

Ids == 1..MaxTxn
Handlers == {"create", "alert", "statement", "update", "delete", "state", "correct", "touch"}

ASSUME DataAssumption ==
  /\ Days \subseteq Nat \ {0} /\ Amounts \subseteq Int /\ Figures \subseteq Int /\ MaxTxn \in Nat
  /\ IsFiniteSet(Days) /\ Origins \subseteq Handlers
ASSUME NoneAssumption == None \notin Accounts \cup {"txn", "stated"}

VARIABLES
  up,        \* the process is running
  txn,       \* txn[i]: transaction i, or Absent
  nextId,    \* ids are AUTOINCREMENT
  stated,    \* stated[a]: balance_snapshots, at most one a day
  opening,   \* finance_accounts.opening_balance
  current,   \* finance_accounts.current_balance
  work       \* work[w]: locals of a handler

vars == <<up, txn, nextId, stated, opening, current, work>>
tables == <<txn, nextId, stated, opening, current>>

Absent == [acct |-> None, day |-> 0, amt |-> 0, closing |-> None]
Rows == [acct : Accounts, day : Days, amt : Amounts, closing : Figures \cup {None}]

\* Evidence for a balance: a transaction's closing balance or a snapshot.
NoFact == [by |-> None, day |-> 0, id |-> 0, balance |-> 0]

\* todo: accounts whose balance is to be recomputed, the first being under way.
\* corrected: the recompute follows a correction of the opening balance.
\* ids: transactions to edit, row: what they become, from: accounts they were in.
Off == [pc |-> "idle", corrected |-> FALSE, todo |-> <<>>, ids |-> {}, row |-> Absent, from |-> {},
        fact |-> NoFact, value |-> 0]

Init ==
  /\ up = TRUE
  /\ txn = [i \in Ids |-> Absent] /\ nextId = 1
  /\ stated = [a \in Accounts |-> [d \in Days |-> None]]
  /\ opening = [a \in Accounts |-> 0] /\ current = opening
  /\ work = [w \in Workers |-> Off]

-----------------------------------------------------------------------------
(* RecomputeAccountBalance, over given tables.                             *)

Of(T, a) == {i \in Ids : T[i].acct = a}
Closed(T, a) == {i \in Of(T, a) : T[i].closing # None}
Total(T, S) == MapThenSumSet(LAMBDA i : T[i].amt, S)

\* Of the ids in S, by date and then id: the last, and the first.
Before(T, i, j) == T[i].day < T[j].day \/ (T[i].day = T[j].day /\ i < j)
Latest(T, S) == CHOOSE i \in S : \A j \in S \ {i} : Before(T, j, i)
Earliest(T, S) == CHOOSE i \in S : \A j \in S \ {i} : Before(T, i, j)

\* latestAnchor's first statement.
ClosingFact(T, a) ==
  IF Closed(T, a) = {} THEN NoFact
  ELSE LET i == Latest(T, Closed(T, a))
       IN [by |-> "txn", day |-> T[i].day, id |-> i, balance |-> T[i].closing]

\* Mutation: ORDER BY as_of without DESC.
StatedFactOldest(S, a) ==
  LET days == {d \in Days : S[a][d] # None} IN
  IF days = {} THEN NoFact
  ELSE LET d == CHOOSE d \in days : \A e \in days : e >= d
       IN [by |-> "stated", day |-> d, id |-> 0, balance |-> S[a][d]]

\* latestAnchor's second statement.
StatedFact(S, a) ==
  LET days == {d \in Days : S[a][d] # None} IN
  IF days = {} THEN NoFact
  ELSE LET d == CHOOSE d \in days : \A e \in days : e <= d
       IN [by |-> "stated", day |-> d, id |-> 0, balance |-> S[a][d]]

\* Mutation: a tie goes to the transaction.
AnchorTieToTxn(t, s) ==
  IF s.by = None THEN t ELSE IF t.by = None THEN s ELSE IF s.day > t.day THEN s ELSE t

\* latestAnchor: a tie goes to the snapshot.
Anchor(t, s) ==
  IF s.by = None THEN t ELSE IF t.by = None THEN s ELSE IF s.day >= t.day THEN s ELSE t

\* deltaAfter: the transactions it sums.
After(T, a, f) ==
  CASE f.by = None -> Of(T, a)
    [] f.by = "txn" -> {i \in Of(T, a) : T[i].day > f.day \/ (T[i].day = f.day /\ i > f.id)}
    [] OTHER -> {i \in Of(T, a) : T[i].day > f.day}

\* The opening balance that the earliest closing balance implies.
Opening(T, a, old) ==
  IF Closed(T, a) = {} THEN old
  ELSE LET i == Earliest(T, Closed(T, a)) IN T[i].closing - T[i].amt

\* All of it at once, on tables nobody else touches meanwhile.
RecomputeAtOnce(T, S, a) ==
  LET f == Anchor(ClosingFact(T, a), StatedFact(S, a))
      base == IF f.by = None THEN opening[a] ELSE f.balance
  IN /\ current' = [current EXCEPT ![a] = base + Total(T, After(T, a, f))]
     /\ opening' = [opening EXCEPT ![a] = Opening(T, a, @)]

-----------------------------------------------------------------------------
(* The statements of RecomputeAccountBalance, one step each.               *)

Local(w, me) ==
  /\ work' = [work EXCEPT ![w] = me]
  /\ UNCHANGED <<up, tables>>

Account(w) == Head(work[w].todo)

\* What a handler goes on with: the next account to recompute, or its answer.
Proceed(todo) ==
  IF todo = <<>> THEN Off ELSE [Off EXCEPT !.pc = "closing", !.todo = todo]

ReadClosing(w) ==
  /\ work[w].pc = "closing"
  /\ Local(w, [work[w] EXCEPT !.pc = "stated", !.fact = ClosingFact(txn, Account(w))])

ReadStated(w) ==
  LET f == Anchor(work[w].fact, StatedFact(stated, Account(w))) IN
  /\ work[w].pc = "stated"
  /\ Local(w, [work[w] EXCEPT !.pc = IF f.by = None THEN "opening" ELSE "sum",
                              !.fact = f, !.value = f.balance])

ReadOpening(w) ==
  /\ work[w].pc = "opening"
  /\ Local(w, [work[w] EXCEPT !.pc = "sum", !.value = opening[Account(w)]])

Sum(w) ==
  LET a == Account(w) IN
  /\ work[w].pc = "sum"
  /\ Local(w, [work[w] EXCEPT !.pc = "write", !.value = @ + Total(txn, After(txn, a, work[w].fact))])

Write(w) ==
  LET a == Account(w) IN
  /\ work[w].pc = "write"
  /\ current' = [current EXCEPT ![a] = work[w].value]
  /\ opening' = [opening EXCEPT ![a] = Opening(txn, a, @)]
  /\ work' = [work EXCEPT ![w] = Proceed(Tail(work[w].todo))]
  /\ UNCHANGED <<up, txn, nextId, stated>>

Recompute(w) == ReadClosing(w) \/ ReadStated(w) \/ ReadOpening(w) \/ Sum(w) \/ Write(w)

-----------------------------------------------------------------------------
(* The handlers.                                                           *)

Begin(w, op) == up /\ op \in Origins /\ work[w].pc = "idle"

\* The handler goes on to recompute.
Then(w, todo) == work' = [work EXCEPT ![w] = Proceed(todo)]

Insert(r) ==
  /\ nextId \in Ids
  /\ txn' = [txn EXCEPT ![nextId] = r]
  /\ nextId' = nextId + 1

State(a, d, v) == stated' = [stated EXCEPT ![a][d] = v]

\* handleCreateTransaction.
CreateTransaction(w, r) ==
  /\ Begin(w, "create")
  /\ r.closing = None
  /\ Insert(r)
  /\ Then(w, <<r.acct>>)
  /\ UNCHANGED <<up, stated, opening, current>>

\* persistTransaction: INSERT OR IGNORE of an alert that may state a balance v of
\* day d; a duplicate, which an edit may have changed since, is not inserted.
Alert(w, r, d, v) ==
  LET me(todo) == [Off EXCEPT !.pc = IF v # None THEN "facts" ELSE "closing",
                              !.row = [r EXCEPT !.day = d, !.closing = v], !.todo = todo]
  IN /\ Begin(w, "alert")
     /\ \/ /\ Insert(r)
           /\ work' = [work EXCEPT ![w] = me(<<r.acct>>)]
        \/ /\ Of(txn, r.acct) # {}
           /\ work' = [work EXCEPT ![w] = IF v # None THEN me(<<>>) ELSE Off]
           /\ UNCHANGED <<txn, nextId>>
     /\ UNCHANGED <<up, stated, opening, current>>

\* Mutation: RecordBalanceSnapshot leaves the recompute to its caller.
AlertFactsOnly(w) ==
  LET r == work[w].row IN
  /\ work[w].pc = "facts"
  /\ State(r.acct, r.day, r.closing)
  /\ Then(w, work[w].todo)
  /\ UNCHANGED <<up, txn, nextId, opening, current>>

\* recordFacts.  RecordBalanceSnapshot recomputes, and persistTransaction does so
\* again for a new transaction.
AlertFacts(w) ==
  LET r == work[w].row IN
  /\ work[w].pc = "facts"
  /\ State(r.acct, r.day, r.closing)
  /\ Then(w, <<r.acct>> \o work[w].todo)
  /\ UNCHANGED <<up, txn, nextId, opening, current>>

\* handleSetAccountBalance; a balance update by mail.
StateBalance(w, a, d, v) ==
  /\ Begin(w, "state")
  /\ State(a, d, v)
  /\ Then(w, <<a>>)
  /\ UNCHANGED <<up, txn, nextId, opening, current>>

\* handleImportHDFCCommit: insert and recompute in one transaction.  A longer
\* statement leaves the tables as one import per line does.
ImportStatement(w, r) ==
  /\ Begin(w, "statement")
  /\ r.closing # None
  /\ Insert(r)
  /\ RecomputeAtOnce(txn', stated, r.acct)
  /\ UNCHANGED <<up, stated, work>>

InAccounts(S) == {txn[i].acct : i \in S} \ {None}

\* handleUpdateTransaction, handleDeleteTransaction and the bulk deletion first
\* look up the accounts the transactions are in.  r is Absent for a deletion.
LookUp(w, op, S, r) ==
  /\ Begin(w, op)
  /\ InAccounts(S) # {}
  /\ Local(w, [Off EXCEPT !.pc = "edit", !.ids = S, !.row = r, !.from = InAccounts(S)])

Update(w, i, r) == r.closing = None /\ LookUp(w, "update", {i}, r)
Delete(w, S) == LookUp(w, "delete", S, Absent)

\* The UPDATE or DELETE.  An edit leaves the closing balance as it is.
Edited(me, i) ==
  IF me.row = Absent \/ txn[i] = Absent THEN Absent
  ELSE [me.row EXCEPT !.closing = txn[i].closing]

\* The orders in which a Go map may be ranged over.
Orders(A) == {q \in [1..Cardinality(A) -> A] : \A a \in A : \E k \in DOMAIN q : q[k] = a}

\* Mutation: an update recomputes only the account the transaction is in now.
TouchedNow(me) ==
  IF me.row = Absent THEN Orders(me.from) ELSE {<<me.row.acct>>}

\* Mutation: a deletion recomputes the account in the emptied request.
TouchedRow(me) == {<<me.row.acct>> \o q : q \in Orders(me.from \ {me.row.acct})}

\* An update recomputes the new account and, if it is another, the old one; a
\* deletion all of them, in the order of a Go map.
Touched(me) ==
  IF me.row = Absent THEN Orders(me.from)
  ELSE {<<me.row.acct>> \o q : q \in Orders(me.from \ {me.row.acct})}

Edit(w) ==
  LET me == work[w] IN
  /\ me.pc = "edit"
  /\ txn' = [i \in Ids |-> IF i \in me.ids THEN Edited(me, i) ELSE txn[i]]
  /\ \E q \in Touched(me) : Then(w, q)
  /\ UNCHANGED <<up, nextId, stated, opening, current>>

\* handleUpdateAccount: it reads the account, writes the opening balance of the
\* form, and recomputes if that is not the one it has read.
ReadAccount(w, a, v) ==
  /\ Begin(w, "correct")
  /\ Local(w, [Off EXCEPT !.pc = "correct", !.value = opening[a],
                          !.row = [Absent EXCEPT !.acct = a, !.amt = v]])

Correct(w) ==
  LET me == work[w]
      a == me.row.acct
  IN /\ me.pc = "correct"
     /\ opening' = [opening EXCEPT ![a] = me.row.amt]
     /\ work' = [work EXCEPT ![w] =
          IF me.row.amt # me.value THEN [Proceed(<<a>>) EXCEPT !.corrected = TRUE] ELSE Off]
     /\ UNCHANGED <<up, txn, nextId, stated, current>>

\* handleApplyClassification and handleUnlinkTransfer: nothing a balance depends
\* on changes, and it is recomputed all the same.
Touch(w, a) ==
  /\ Begin(w, "touch")
  /\ Of(txn, a) # {}
  /\ Then(w, <<a>>)
  /\ UNCHANGED <<up, tables>>

Crash ==
  /\ up /\ \E w \in Workers : work[w].pc # "idle"
  /\ up' = FALSE
  /\ work' = [w \in Workers |-> Off]
  /\ UNCHANGED tables

Restart ==
  /\ ~up /\ up' = TRUE
  /\ UNCHANGED <<tables, work>>

-----------------------------------------------------------------------------
Step(w) == Recompute(w) \/ AlertFacts(w) \/ Edit(w) \/ Correct(w)

Request(w) ==
  \/ \E r \in Rows : CreateTransaction(w, r) \/ ImportStatement(w, r)
  \/ \E r \in Rows, d \in Days, v \in Figures \cup {None} : Alert(w, r, d, v)
  \/ \E r \in Rows, i \in Ids : Update(w, i, r)
  \/ \E S \in SUBSET Ids : Delete(w, S)
  \/ \E a \in Accounts, d \in Days, v \in Figures : StateBalance(w, a, d, v)
  \/ \E a \in Accounts, v \in Figures : ReadAccount(w, a, v)

Next ==
  \/ \E w \in Workers : Request(w) \/ Step(w) \/ \E a \in Accounts : Touch(w, a)
  \/ Crash \/ Restart

Spec == Init /\ [][Next]_vars

\* Every handler goes on, and the process is started again.
FairSpec == Spec /\ WF_vars(Restart) /\ \A w \in Workers : WF_vars(Step(w))

-----------------------------------------------------------------------------
(* What a balance should be, independently of how it is computed.          *)

\* Moments: a transaction on its day, a snapshot after all of its day's.
Later(m, n) == m[1] > n[1] \/ (m[1] = n[1] /\ m[2] > n[2])
EndOfDay == MaxTxn + 1
Facts(a) ==
  {<<<<txn[i].day, i>>, txn[i].closing>> : i \in Closed(txn, a)}
  \cup {<<<<d, EndOfDay>>, stated[a][d]>> : d \in {e \in Days : stated[a][e] # None}}

\* The latest known figure and every movement after it; without any figure, the
\* opening balance and every movement.
Balance(a) ==
  IF Facts(a) = {} THEN opening[a] + Total(txn, Of(txn, a))
  ELSE LET f == CHOOSE f \in Facts(a) : \A g \in Facts(a) \ {f} : Later(f[1], g[1])
       IN f[2] + Total(txn, {i \in Of(txn, a) : Later(<<txn[i].day, i>>, f[1])})

-----------------------------------------------------------------------------
(* Properties.                                                             *)

\* Every handler works on an account there is.
TypeOK ==
  /\ up \in BOOLEAN
  /\ txn \in [Ids -> Rows \cup {Absent}]
  /\ nextId \in 1..MaxTxn + 1
  /\ stated \in [Accounts -> [Days -> Figures \cup {None}]]
  /\ opening \in [Accounts -> Int] /\ current \in [Accounts -> Int]
  /\ \A w \in Workers : LET me == work[w] IN
       /\ me.pc \in {"idle", "closing", "stated", "opening", "sum", "write", "facts", "edit", "correct"}
       /\ me.corrected \in BOOLEAN
       /\ \A k \in DOMAIN me.todo : me.todo[k] \in Accounts
       /\ me.pc \in {"closing", "stated", "opening", "sum", "write"} => me.todo # <<>>
       /\ me.pc \in {"facts", "correct"} => me.row.acct \in Accounts
       /\ me.ids \subseteq Ids /\ me.from \subseteq Accounts
       /\ me.value \in Int

\* What a handler has read is still so.
Valid(w) ==
  LET me == work[w]
      a == Account(w)
  IN /\ me.pc = "write" =>
          /\ me.fact = Anchor(ClosingFact(txn, a), StatedFact(stated, a))
          /\ me.value = Total(txn, After(txn, a, me.fact))
                          + (IF me.fact.by = None THEN opening[a] ELSE me.fact.balance)
     /\ me.pc = "edit" => InAccounts(me.ids) \subseteq me.from
     /\ me.pc = "correct" => opening[me.row.acct] = me.value

\* RecomputeAccountBalance, if no other handler has overtaken its reads, writes
\* the balance that follows from the tables: the latest known figure and every
\* movement after it.
ExactUnlessOvertaken ==
  [][\A w \in Workers, a \in Accounts :
       work[w].pc = "write" /\ a = Account(w) /\ Valid(w) /\ work'[w] # work[w] /\ up'
         => current'[a] = Balance(a)']_vars

\* A balance that does not follow from the tables, and nobody about to set it.
Owed(a) == \E w \in Workers : \E k \in DOMAIN work[w].todo : work[w].todo[k] = a
Lost(a) == current[a] # Balance(a) /\ ~Owed(a)

\* No handler forgets an account it has changed: only a crash, or a step on a
\* read that another handler has overtaken, leaves a wrong balance behind.
LostOnlyByRace ==
  [][\A a \in Accounts : Lost(a)' /\ ~Lost(a) =>
       ~up' \/ \E w \in Workers : ~Valid(w) /\ work'[w] # work[w]]_vars

\* ai.go: every mutation path leaves balances in a known-good state.  Whatever
\* was lost before, once the tables are left alone and something has an account
\* recomputed, its balance is right and stays so.
Calm == Restart \/ \E w \in Workers : Step(w) \/ \E a \in Accounts : Touch(w, a)
BalanceHeals ==
  \A a \in Accounts :
    <>[][Calm]_vars /\ []<><<\E w \in Workers : Touch(w, a)>>_vars => <>[](current[a] = Balance(a))

\* accounts.go: a corrected opening balance wins over imported data.  The
\* recompute that follows the correction leaves it as it is.
CorrectionWins ==
  [][\A w \in Workers : work[w].pc = "write" /\ work[w].corrected /\ work'[w] # work[w]
       => opening' = opening]_vars
=============================================================================

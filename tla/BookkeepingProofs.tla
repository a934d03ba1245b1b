------------------------- MODULE BookkeepingProofs -------------------------
(***************************************************************************)
(* Proofs about Bookkeeping for any rows, bills, handlers, goroutines of   *)
(* the pass and answers of the model: references are real, links have two  *)
(* ends, a pass only fills, what is settled stays so, and the dashboard    *)
(* counts every outflow once.                                              *)
(***************************************************************************)
EXTENDS Bookkeeping, SumFacts

Columns == {"pay", "type", "kind", "cat", "merch", "link", "read"}
Consistent(type, kind) ==
  type \in Types /\ IF type = "transfer" THEN kind \in Kinds ELSE kind = ""
IsReading(r) ==
  /\ DOMAIN r = {"cat", "nature", "merch", "applied", "kind", "review"}
  /\ Consistent(r.nature, r.kind)
IsRow(row) ==
  /\ row = [c \in Columns |-> row[c]] /\ IsPay(row.pay) /\ Consistent(row.type, row.kind)
  /\ row.read = None \/ IsReading(row.read)

\* Ids are given out in order, and what points at a row points at one there is.
Store ==
  /\ scene \in Scenes
  /\ next \in 1..Len(scene.rows) + scene.made + 1
  /\ DOMAIN txn = Ids
  /\ \A i \in Ids : IF There(i)
                    THEN /\ IsRow(txn[i]) /\ i < next
                         /\ txn[i].link = 0 \/ (There(txn[i].link) /\ txn[i].link # i)
                    ELSE txn[i] = NoRow
  /\ DOMAIN sugg = Pairs
  /\ \A p \in Pairs : sugg[p] # "none" => There(p[1]) /\ There(p[2])

\* Once the database is open a statement has one bill.
Issued ==
  /\ up \in BOOLEAN
  /\ DOMAIN bill = BillIds /\ \A b \in BillIds : IsBill(bill[b])
  /\ up => \A a, b \in BillIds : SameStatement(bill, a, b) => a = b

\* What a handler remembers can be written.
Legs == {"leg1", "leg2", "confirmed", "look1", "look2", "clear1", "clear2"}
Summable(T) ==
  \A i \in Ids : T[i].pay # None => T[i].pay.amt \in Int /\ Consistent(T[i].type, T[i].kind)
Fits(me) ==
  /\ DOMAIN me = {"pc", "row", "other", "todo", "pay", "form", "cat", "saw", "mark", "sum"}
  /\ me.pc = "edit" => IsPay(me.pay) /\ DOMAIN me.form = {"type", "kind", "cat", "merch"}
                         /\ Consistent(me.form.type, me.form.kind)
  /\ me.pc \in Legs => me.row \in Ids /\ me.other \in Ids /\ me.row # me.other
  /\ me.pc \in {"clear1", "clear2"} => me.saw \in {"income", "expense"}
  /\ me.pc = "apply" => IsReading(me.saw)
  /\ me.pc \in {"apply", "applied"} => me.row \in Ids
  /\ me.pc = "bill" => me.form \in scene.mails
  /\ me.pc = "moved" => me.sum = Expenses(me.saw) /\ Summable(me.saw)
Locals == DOMAIN work = Workers /\ \A w \in Workers : Fits(work[w])

\* The groups of a pass, claimed or not, have no row in common, and their rows are
\* still to be read.
Reading == {"ask", "fill", "store"}
Asking(me) ==
  /\ DOMAIN me = {"pc", "todo", "read"} /\ me.pc \in Reading \cup {"rest", "claim"}
  /\ me.pc \in Reading <=> me.todo # {}
  /\ me.pc \in {"fill", "store"} => IsReading(me.read)
  /\ me.todo \subseteq DOMAIN pass.loaded /\ me.todo \cap UNION pass.left = {}
  /\ \A i \in me.todo : txn[i].read = None
  /\ me.pc # "rest" => pass.on
Passes ==
  /\ DOMAIN pass = {"on", "loaded", "left"} /\ DOMAIN pass.loaded \subseteq Ids
  /\ pass.on \in BOOLEAN
  /\ \A i \in DOMAIN pass.loaded : IsRow(pass.loaded[i])
  /\ pass.left \subseteq SUBSET DOMAIN pass.loaded /\ {} \notin pass.left
  /\ \A g, k \in pass.left : g # k => g \cap k = {}
  /\ \A i \in UNION pass.left : txn[i].read = None
  /\ DOMAIN ask = Passers /\ \A p \in Passers : Asking(ask[p])
  /\ \A p, q \in Passers : p # q => ask[p].todo \cap ask[q].todo = {}

Inv == Store /\ Issued /\ Locals /\ Passes

-----------------------------------------------------------------------------
(* Rows.                                                                   *)

\* Ids count from one; 0 is none.
LEMMA IdsAreNat == Ids \subseteq Nat \ {0} /\ BillIds \subseteq Nat \ {0} /\ IsFiniteSet(Ids) /\ IsFiniteSet(BillIds)
<1>1. MaxRows \in Nat /\ MaxBills \in Nat
  BY BookkeepingAssumption
<1>2. IsFiniteSet(Ids) /\ IsFiniteSet(BillIds)
  BY <1>1, FS_Interval DEF Ids, BillIds
<1> QED
  BY <1>1, <1>2 DEF Ids, BillIds

\* A scene has room for the rows it makes.
LEMMA Room ==
  ASSUME scene \in Scenes
  PROVE  /\ Len(scene.rows) \in Nat /\ Len(scene.bills) \in Nat /\ scene.made \in Nat /\ scene.issued \in Nat
         /\ \A i \in Nat \ {0} : i <= Len(scene.rows) + scene.made => i \in Ids
         /\ \A i \in Nat \ {0} : i <= Len(scene.bills) + scene.issued => i \in BillIds
  BY BookkeepingAssumption DEF Ids, BillIds

\* No row is a row.
LEMMA NoRowShape ==
  /\ DOMAIN NoRow = Columns /\ NoRow.pay = None /\ NoRow.link = 0 /\ NoRow.read = None
  /\ [NoRow EXCEPT !.link = 0] = NoRow
<1>1. DOMAIN NoRow = Columns /\ NoRow.pay = None /\ NoRow.link = 0 /\ NoRow.read = None
  BY DEF NoRow, Columns
<1>2. [NoRow EXCEPT !.link = 0] = NoRow
  <2> DEFINE R == [pay : {None}, type : {""}, kind : {""}, cat : {None}, merch : {""}, link : {0}, read : {None}]
  <2>1. ASSUME NEW row \in R PROVE row = NoRow
    BY DEF NoRow
  <2>2. [NoRow EXCEPT !.link = 0] \in R
    BY DEF NoRow
  <2> HIDE DEF R
  <2> QED
    BY <2>1, <2>2
<1> QED
  BY <1>1, <1>2

\* The columns the rewriting of a row leaves as they should be.
Rewrites ==
  /\ DOMAIN txn' = Ids /\ UNCHANGED <<scene, next, sugg>>
  /\ \A i \in Ids : IF There(i) THEN IsRow(txn'[i]) /\ txn'[i].link = txn[i].link
                                ELSE txn'[i] = NoRow
StaysUnread == \A i \in Ids : txn[i].read = None => txn'[i].read = None

\* What there is does not change by rewriting.
LEMMA RewrittenThere ==
  ASSUME Rewrites, NEW i \in Ids
  PROVE  /\ There(i)' <=> There(i)
         /\ Store => txn'[i].link = txn[i].link
<1>1. CASE There(i)
  BY <1>1 DEF Rewrites, There, IsRow, IsPay, Ids
<1>2. CASE ~There(i)
  BY <1>2, NoRowShape DEF Rewrites, There, Ids, Store
<1> QED
  BY <1>1, <1>2

\* So references stay real.
LEMMA RewrittenStore ==
  ASSUME Store, Rewrites
  PROVE  Store'
<1>1. \A i \in Ids : There(i)' <=> There(i)
  BY RewrittenThere
<1>2. \A i : There(i)' <=> There(i)
  BY <1>1 DEF There, Ids
<1>3. ASSUME NEW i \in Ids
      PROVE  (IF There(i) THEN /\ IsRow(txn[i]) /\ i < next
                               /\ txn[i].link = 0 \/ (There(txn[i].link) /\ txn[i].link # i)
              ELSE txn[i] = NoRow)'
  <2>1. IF There(i) THEN /\ IsRow(txn[i]) /\ i < next
                         /\ txn[i].link = 0 \/ (There(txn[i].link) /\ txn[i].link # i)
        ELSE txn[i] = NoRow
    BY DEF Store
  <2>2. IF There(i) THEN IsRow(txn'[i]) /\ txn'[i].link = txn[i].link ELSE txn'[i] = NoRow
    BY DEF Rewrites
  <2>3. There(i)' <=> There(i)
    BY <1>2
  <2>4. CASE There(i)
    <3>1. PICK l : l = txn[i].link /\ l = txn'[i].link
      BY <2>2, <2>4
    <3>2. There(l)' <=> There(l)
      BY <1>2
    <3> QED
      BY <2>1, <2>2, <2>3, <2>4, <3>1, <3>2 DEF Rewrites
  <2>5. CASE ~There(i)
    BY <2>2, <2>3, <2>5
  <2> QED
    BY <2>4, <2>5
<1>4. (\A p \in Pairs : sugg[p] # "none" => There(p[1]) /\ There(p[2]))'
  BY <1>2 DEF Store, Rewrites
<1> QED
  BY <1>3, <1>4 DEF Store, Rewrites

\* Rows of another type, those among them that are there.
LEMMA RetypeRows ==
  ASSUME Store, NEW ids, NEW type, NEW kind, Consistent(type, kind)
  PROVE  LET R == Retype(txn, ids, type, kind) IN
         /\ DOMAIN R = Ids
         /\ \A i \in Ids : IF There(i) THEN IsRow(R[i]) /\ R[i].link = txn[i].link /\ R[i].read = txn[i].read
                                       ELSE R[i] = NoRow
<1> DEFINE R == Retype(txn, ids, type, kind)
<1>1. DOMAIN R = Ids
  BY DEF Retype
<1>2. ASSUME NEW i \in Ids
      PROVE  IF There(i) THEN IsRow(R[i]) /\ R[i].link = txn[i].link /\ R[i].read = txn[i].read
                         ELSE R[i] = NoRow
  <2>1. R[i] = IF i \in ids /\ txn[i].pay # None THEN [txn[i] EXCEPT !.type = type, !.kind = kind] ELSE txn[i]
    BY DEF Retype
  <2>2. There(i) <=> txn[i].pay # None
    BY DEF There, Ids
  <2>3. IF There(i) THEN IsRow(txn[i]) ELSE txn[i] = NoRow
    BY DEF Store
  <2>4. CASE There(i) /\ i \in ids
    <3>1. R[i] = [txn[i] EXCEPT !.type = type, !.kind = kind]
      BY <2>1, <2>2, <2>4
    <3> DEFINE row == txn[i]
               new == [row EXCEPT !.type = type, !.kind = kind]
    <3>2. IsRow(row) /\ R[i] = new
      BY <2>3, <2>4, <3>1
    <3> HIDE DEF R, row
    <3>3. IsRow(new) /\ new.link = row.link /\ new.read = row.read
      BY <3>2 DEF IsRow, Columns
    <3> HIDE DEF new
    <3> QED
      BY <2>4, <3>2, <3>3 DEF row
  <2>5. CASE ~(There(i) /\ i \in ids)
    BY <2>1, <2>2, <2>3, <2>5
  <2> QED
    BY <2>4, <2>5
<1> QED
  BY <1>1, <1>2

\* It is enough that a step rewrites rows that are there.
LEMMA RewritesSome ==
  ASSUME Store, DOMAIN txn' = Ids, UNCHANGED <<scene, next, sugg>>,
         \A i \in Ids : \/ txn'[i] = txn[i]
                        \/ There(i) /\ IsRow(txn'[i]) /\ txn'[i].link = txn[i].link
  PROVE  Rewrites
<1>1. ASSUME NEW i \in Ids
      PROVE  IF There(i) THEN IsRow(txn'[i]) /\ txn'[i].link = txn[i].link ELSE txn'[i] = NoRow
  BY <1>1 DEF Store
<1> QED
  BY <1>1 DEF Rewrites

\* Types that rows are given by a whole statement.
LEMMA TypesFit ==
  /\ \A kind \in Kinds : Consistent("transfer", kind)
  /\ Consistent("income", "") /\ Consistent("expense", "")
  /\ \A p : IsPay(p) => Plain(p) \in {"income", "expense"}
  BY DEF Consistent, Types, Plain, IsPay

\* MarkBroker and BulkMarkTransfer.
LEMMA RetypeRewrites ==
  ASSUME Store, NEW ids, NEW kind \in Kinds, txn' = Retype(txn, ids, "transfer", kind),
         UNCHANGED <<scene, next, sugg>>
  PROVE  Rewrites /\ StaysUnread
<1> DEFINE R == Retype(txn, ids, "transfer", kind)
<1>1. /\ DOMAIN R = Ids
      /\ \A i \in Ids : IF There(i) THEN IsRow(R[i]) /\ R[i].link = txn[i].link /\ R[i].read = txn[i].read
                                    ELSE R[i] = NoRow
  BY RetypeRows, TypesFit
<1>2. txn' = R
  OBVIOUS
<1> HIDE DEF R
<1>3. Rewrites
  BY <1>1, <1>2 DEF Rewrites
<1>4. StaysUnread
  BY <1>1, <1>2, NoRowShape DEF StaysUnread
<1> QED
  BY <1>3, <1>4

\* EditWrite puts the form into a row, and leaves its link and its reading.
LEMMA EditRewrites ==
  ASSUME Store, Locals, NEW w \in Workers, EditWrite(w)
  PROVE  Rewrites /\ StaysUnread
<1> DEFINE me == work[w]
<1>1. IsPay(me.pay) /\ Consistent(me.form.type, me.form.kind)
  BY DEF EditWrite, Locals, Fits
<1>2. DOMAIN txn' = Ids /\ UNCHANGED <<scene, next, sugg>>
  BY DEF EditWrite, Keep
<1>3. ASSUME NEW i \in Ids
      PROVE  /\ txn'[i] = txn[i] \/ (There(i) /\ IsRow(txn'[i]) /\ txn'[i].link = txn[i].link)
             /\ txn'[i].read = txn[i].read
  <2>1. txn'[i] = IF i \in me.todo /\ There(i) THEN Fill(txn[i], me.pay, me.form) ELSE txn[i]
    BY DEF EditWrite
  <2>2. CASE i \in me.todo /\ There(i)
    <3> DEFINE row == txn[i]
               form == me.form
               pay == me.pay
               new == Fill(row, pay, form)
    <3>1. IsRow(row) /\ txn'[i] = new
      BY <2>1, <2>2 DEF Store
    <3>2. IsPay(pay) /\ Consistent(form.type, form.kind)
      BY <1>1
    <3> HIDE DEF row, form, pay
    <3>3. IsRow(new) /\ new.link = row.link /\ new.read = row.read
      BY <3>1, <3>2 DEF IsRow, Columns, Fill
    <3> HIDE DEF new
    <3> QED
      BY <2>2, <3>1, <3>3 DEF row
  <2> QED
    BY <2>1, <2>2
<1> QED
  BY <1>2, <1>3, RewritesSome DEF StaysUnread

\* Spread and BulkCategorize give rows another category.
LEMMA RecatRewrites ==
  ASSUME Store, NEW S, NEW cat, UNCHANGED <<scene, next, sugg>>,
         txn' = [i \in Ids |-> IF There(i) /\ i \in S THEN [txn[i] EXCEPT !.cat = cat] ELSE txn[i]]
  PROVE  Rewrites /\ StaysUnread
<1>1. DOMAIN txn' = Ids
  OBVIOUS
<1>2. ASSUME NEW i \in Ids
      PROVE  /\ txn'[i] = txn[i] \/ (There(i) /\ IsRow(txn'[i]) /\ txn'[i].link = txn[i].link)
             /\ txn'[i].read = txn[i].read
  <2>1. txn'[i] = IF There(i) /\ i \in S THEN [txn[i] EXCEPT !.cat = cat] ELSE txn[i]
    OBVIOUS
  <2>2. CASE i \in S /\ There(i)
    <3> DEFINE row == txn[i]
               new == [row EXCEPT !.cat = cat]
    <3>1. IsRow(row) /\ txn'[i] = new
      BY <2>1, <2>2 DEF Store
    <3> HIDE DEF row
    <3>2. IsRow(new) /\ new.link = row.link /\ new.read = row.read
      BY <3>1 DEF IsRow, Columns
    <3> HIDE DEF new
    <3> QED
      BY <2>2, <3>1, <3>2 DEF row
  <2> QED
    BY <2>1, <2>2
<1> QED
  BY <1>1, <1>2, RewritesSome DEF StaysUnread

\* The two actions are of that form.
LEMMA CategoryRewrites ==
  ASSUME Store, NEW w \in Workers,
         Spread(w) \/ \E ids \in SUBSET Rows, cat \in scene.cats : BulkCategorize(w, ids, cat)
  PROVE  Rewrites /\ StaysUnread
<1>1. CASE Spread(w)
  <2> DEFINE me == work[w]
             named == {txn[i].pay.who : i \in me.todo \cap Rows} \ {None}
             S == {i \in Ids : i \notin me.todo /\ txn[i].pay.who \in named}
  <2>1. txn' = [i \in Ids |-> IF There(i) /\ i \notin me.todo /\ txn[i].pay.who \in named
                              THEN [txn[i] EXCEPT !.cat = me.cat] ELSE txn[i]]
    BY <1>1 DEF Spread
  <2>2. UNCHANGED <<scene, next, sugg>>
    BY <1>1 DEF Spread, Keep
  <2> HIDE DEF named
  <2>3. txn' = [i \in Ids |-> IF There(i) /\ i \in S THEN [txn[i] EXCEPT !.cat = me.cat] ELSE txn[i]]
    BY <2>1
  <2> QED
    BY <2>2, <2>3, RecatRewrites
<1>2. CASE \E ids \in SUBSET Rows, cat \in scene.cats : BulkCategorize(w, ids, cat)
  <2>1. PICK ids \in SUBSET Rows, cat \in scene.cats : BulkCategorize(w, ids, cat)
    BY <1>2
  <2>2. UNCHANGED <<scene, next, sugg>>
    BY <2>1 DEF BulkCategorize, Keep
  <2>3. txn' = [i \in Ids |-> IF There(i) /\ i \in ids THEN [txn[i] EXCEPT !.cat = cat] ELSE txn[i]]
    BY <2>1 DEF BulkCategorize
  <2> QED
    BY <2>2, <2>3, RecatRewrites
<1> QED
  BY <1>1, <1>2

\* ApplyWrite takes the type of a reading, which goes with its kind.
LEMMA ApplyRewrites ==
  ASSUME Store, Locals, NEW w \in Workers, ApplyWrite(w)
  PROVE  Rewrites /\ StaysUnread
<1> DEFINE me == work[w]
           i == me.row
           c == me.saw
           R == Retype(txn, {i}, c.nature, c.kind)
           cat == IF c.nature = "transfer" THEN None ELSE IF c.cat # None THEN c.cat ELSE R[i].cat
<1>1. UNCHANGED <<scene, next, sugg>> /\ Consistent(c.nature, c.kind)
  BY DEF ApplyWrite, Keep, Locals, Fits, IsReading
<1>2. CASE There(i)
  <2>1. /\ DOMAIN R = Ids
        /\ \A j \in Ids : IF There(j) THEN IsRow(R[j]) /\ R[j].link = txn[j].link /\ R[j].read = txn[j].read
                                      ELSE R[j] = NoRow
    BY <1>1, RetypeRows
  <2>2. txn' = [R EXCEPT ![i].cat = cat]
    BY <1>2 DEF ApplyWrite
  <2> HIDE DEF R, c, i, cat
  <2>3. i \in Ids
    BY <1>2 DEF There
  <2> DEFINE row == R[i]
             new == [row EXCEPT !.cat = cat]
  <2>4. IsRow(row) /\ row.link = txn[i].link /\ row.read = txn[i].read
    BY <1>2, <2>1, <2>3
  <2>5. DOMAIN txn' = Ids /\ txn'[i] = new /\ \A j \in Ids \ {i} : txn'[j] = R[j]
    BY <2>1, <2>2, <2>3
  <2> HIDE DEF row
  <2>6. IsRow(new) /\ new.link = row.link /\ new.read = row.read
    BY <2>4 DEF IsRow, Columns
  <2> HIDE DEF new
  <2>7. ASSUME NEW j \in Ids
        PROVE  IF There(j) THEN IsRow(txn'[j]) /\ txn'[j].link = txn[j].link /\ txn'[j].read = txn[j].read
                           ELSE txn'[j] = NoRow
    BY <1>2, <2>1, <2>4, <2>5, <2>6
  <2>8. Rewrites
    BY <1>1, <2>5, <2>7 DEF Rewrites
  <2> QED
    BY <2>7, <2>8, NoRowShape DEF StaysUnread
<1>3. CASE ~There(i)
  <2>1. txn' = txn
    BY <1>3 DEF ApplyWrite
  <2> QED
    BY <1>1, <2>1, RewritesSome DEF StaysUnread, Store
<1> QED
  BY <1>2, <1>3

\* Settling a reading leaves it one.
LEMMA SettleRewrites ==
  ASSUME Store, NEW i \in Ids, txn' = Settle(txn, i), UNCHANGED <<scene, next, sugg>>
  PROVE  Rewrites /\ StaysUnread
<1>1. CASE txn[i].read = None
  <2>1. txn' = txn
    BY <1>1 DEF Settle
  <2> QED
    BY <2>1, RewritesSome DEF StaysUnread, Store
<1>2. CASE txn[i].read # None
  <2> DEFINE row == txn[i]
             read == row.read
             settled == [read EXCEPT !.applied = TRUE, !.review = FALSE]
             new == [row EXCEPT !.read = settled]
  <2>1. txn' = [txn EXCEPT ![i] = new]
    BY <1>2 DEF Settle
  <2>2. There(i) /\ IsRow(row) /\ IsReading(read)
    BY <1>2, NoRowShape DEF Store, IsRow
  <2> HIDE DEF row
  <2> HIDE DEF read
  <2>3. IsReading(settled)
    BY <2>2 DEF IsReading
  <2> HIDE DEF settled
  <2>4. IsRow(new) /\ new.link = row.link
    BY <2>2, <2>3 DEF IsRow, Columns
  <2> HIDE DEF new
  <2>5. /\ DOMAIN txn' = Ids /\ txn'[i] = new /\ \A j \in Ids \ {i} : txn'[j] = txn[j]
    BY <2>1 DEF Store
  <2>6. Rewrites
    BY <2>2, <2>4, <2>5, RewritesSome DEF row
  <2> QED
    BY <1>2, <2>5, <2>6 DEF StaysUnread
<1> QED
  BY <1>1, <1>2

\* A step that leaves the rows and the suggestions alone.
LEMMA SameStore == Store /\ UNCHANGED <<scene, txn, next, sugg>> => Store'
  BY DEF Store, There, Ids

\* A new row is put where there was none, and points nowhere.
LEMMA InsertStore ==
  ASSUME Store, NEW row, IsRow(row), row.link = 0, row.read = None, Insert(row)
  PROVE  /\ Store' /\ StaysUnread /\ txn[next] = NoRow
         /\ \A i \in Ids : txn'[i].link = txn[i].link
<1>1. next \in Ids /\ next <= Len(scene.rows) + scene.made /\ next \in Nat
  BY Room DEF Store, Insert
<1>2. ~There(next) /\ txn[next] = NoRow
  BY <1>1 DEF Store
<1>3. /\ DOMAIN txn' = Ids /\ txn'[next] = row /\ \A i \in Ids \ {next} : txn'[i] = txn[i]
      /\ next' = next + 1 /\ UNCHANGED <<scene, sugg>>
  BY <1>1 DEF Store, Insert
<1>4. \A i \in Ids : There(i)' <=> (There(i) \/ i = next)
  BY <1>1, <1>2, <1>3 DEF There, Ids, IsRow, IsPay
<1>5. \A i : There(i)' <=> (There(i) \/ i = next)
  BY <1>1, <1>4 DEF There, Ids
<1>6. ASSUME NEW i \in Ids
      PROVE  (IF There(i) THEN /\ IsRow(txn[i]) /\ i < next
                               /\ txn[i].link = 0 \/ (There(txn[i].link) /\ txn[i].link # i)
              ELSE txn[i] = NoRow)'
  <2>1. CASE i = next
    BY <1>1, <1>3, <1>4, <2>1
  <2>2. CASE i # next
    <3>1. txn'[i] = txn[i]
      BY <1>3, <2>2
    <3>2. IF There(i) THEN /\ IsRow(txn[i]) /\ i < next
                           /\ txn[i].link = 0 \/ (There(txn[i].link) /\ txn[i].link # i)
          ELSE txn[i] = NoRow
      BY DEF Store
    <3>3. There(txn[i].link) => There(txn[i].link)'
      BY <1>5, <3>1
    <3>4. i < next => i < next'
      BY <1>1, <1>3, IdsAreNat
    <3> QED
      BY <1>4, <2>2, <3>1, <3>2, <3>3, <3>4
  <2> QED
    BY <2>1, <2>2
<1>7. (\A p \in Pairs : sugg[p] # "none" => There(p[1]) /\ There(p[2]))'
  BY <1>3, <1>5 DEF Store
<1>8. next' \in 1..Len(scene.rows) + scene.made + 1
  BY <1>1, <1>3, Room DEF Store
<1>9. Store'
  BY <1>3, <1>6, <1>7, <1>8 DEF Store
<1>10. StaysUnread /\ \A i \in Ids : txn'[i].link = txn[i].link
  BY <1>2, <1>3, NoRowShape DEF StaysUnread
<1> QED
  BY <1>2, <1>9, <1>10

\* The rows that the user or a mail enters.
LEMMA EnterStore ==
  ASSUME Store, NEW w \in Workers, NEW p \in scene.pays,
         IngestMail(w, p) \/ \E form \in Forms : CreateTransaction(w, p, form)
  PROVE  Store' /\ StaysUnread /\ txn[next] = NoRow /\ \A i \in Ids : txn'[i].link = txn[i].link
<1>1. IsPay(p)
  BY InputAssumption DEF Store
<1>2. CASE IngestMail(w, p)
  <2> DEFINE cat == Inherited(p.who)
             type == Plain(p)
             row == [[NoRow EXCEPT !.pay = p, !.type = type] EXCEPT !.cat = cat]
  <2>1. Insert(row)
    BY <1>2 DEF IngestMail, Row
  <2>2. type \in {"income", "expense"}
    BY <1>1, TypesFit
  <2> HIDE DEF cat, type
  <2>3. IsRow(row) /\ row.link = 0 /\ row.read = None
    BY <1>1, <2>2 DEF IsRow, NoRow, Columns, Consistent, Types
  <2> HIDE DEF row
  <2> QED
    BY <2>1, <2>3, InsertStore
<1>3. CASE \E form \in Forms : CreateTransaction(w, p, form)
  <2>1. PICK form \in Forms : CreateTransaction(w, p, form)
    BY <1>3
  <2> DEFINE kind == IF form.type # "transfer" THEN "" ELSE IF form.kind \in Kinds THEN form.kind ELSE "self"
             f == [form EXCEPT !.kind = kind]
             row == Fill(NoRow, p, f)
  <2>2. Insert(row)
    <3>1. Normal(form) = f
      BY InputAssumption DEF Normal
    <3> HIDE DEF f
    <3> QED
      BY <2>1, <3>1 DEF CreateTransaction
  <2>3. DOMAIN form = {"type", "kind", "cat", "merch"} /\ Consistent(form.type, kind)
    BY InputAssumption DEF Consistent, Kinds
  <2> HIDE DEF kind
  <2>4. Consistent(f.type, f.kind)
    BY <2>3
  <2> HIDE DEF f
  <2>5. IsRow(row) /\ row.link = 0 /\ row.read = None
    BY <1>1, <2>4 DEF IsRow, NoRow, Columns, Fill
  <2> HIDE DEF row
  <2> QED
    BY <2>2, <2>5, InsertStore
<1> QED
  BY <1>2, <1>3

\* What is deleted is pointed at no more.
LEMMA DeleteStore ==
  ASSUME Store, NEW w \in Workers, NEW ids \in SUBSET Rows, DeleteTransactions(w, ids)
  PROVE  /\ Store' /\ StaysUnread
         /\ \A i \in Ids : txn'[i].link = IF i \in ids \/ txn[i].link \in ids THEN 0 ELSE txn[i].link
<1>1. UNCHANGED <<scene, next>> /\ DOMAIN txn' = Ids /\ DOMAIN sugg' = Pairs
  BY DEF DeleteTransactions
<1>2. ASSUME NEW i \in Ids
      PROVE  /\ i \in ids => txn'[i] = NoRow
             /\ i \notin ids /\ ~There(i) => txn'[i] = NoRow
             /\ i \notin ids /\ There(i) =>
                  /\ IsRow(txn'[i]) /\ txn'[i].read = txn[i].read
                  /\ txn'[i].link = IF txn[i].link \in ids THEN 0 ELSE txn[i].link
  <2> DEFINE row == txn[i]
             link == IF row.link \in ids THEN 0 ELSE row.link
             new == [row EXCEPT !.link = link]
  <2>1. txn'[i] = IF i \in ids THEN NoRow ELSE new
    BY DEF DeleteTransactions
  <2>2. IF There(i) THEN IsRow(row) ELSE row = NoRow
    BY DEF Store
  <2>3. ~There(i) => link = 0
    BY <2>2, NoRowShape
  <2> HIDE DEF row
  <2>4. ~There(i) => new = NoRow
    <3> HIDE DEF link
    <3> SUFFICES ASSUME ~There(i) PROVE new = NoRow
      OBVIOUS
    <3>1. row = NoRow /\ link = 0
      BY <2>2, <2>3
    <3>2. new = [NoRow EXCEPT !.link = 0]
      BY <3>1
    <3> QED
      BY <3>2, NoRowShape
  <2>5. There(i) => IsRow(new) /\ new.read = row.read /\ new.link = link
    <3> HIDE DEF link
    <3> QED
      BY <2>2 DEF IsRow, Columns
  <2> HIDE DEF new
  <2> QED
    BY <2>1, <2>4, <2>5 DEF row
<1>3. \A i \in Ids : There(i)' <=> (There(i) /\ i \notin ids)
  BY <1>2, NoRowShape DEF There, Ids, IsRow, IsPay
<1>4. \A i : There(i)' <=> (There(i) /\ i \notin ids)
  BY <1>3 DEF There, Ids
<1>5. ASSUME NEW i \in Ids
      PROVE  (IF There(i) THEN /\ IsRow(txn[i]) /\ i < next
                               /\ txn[i].link = 0 \/ (There(txn[i].link) /\ txn[i].link # i)
              ELSE txn[i] = NoRow)'
  <2>1. IF There(i) THEN /\ IsRow(txn[i]) /\ i < next
                         /\ txn[i].link = 0 \/ (There(txn[i].link) /\ txn[i].link # i)
        ELSE txn[i] = NoRow
    BY DEF Store
  <2>2. CASE There(i) /\ i \notin ids
    <3>1. PICK l : l = txn'[i].link
      OBVIOUS
    <3>2. There(l)' <=> (There(l) /\ l \notin ids)
      BY <1>4
    <3>3. l = IF txn[i].link \in ids THEN 0 ELSE txn[i].link
      BY <1>2, <2>2, <3>1
    <3> QED
      BY <1>1, <1>2, <1>3, <2>1, <2>2, <3>1, <3>2, <3>3
  <2>3. CASE ~(There(i) /\ i \notin ids)
    BY <1>2, <1>3, <2>3
  <2> QED
    BY <2>2, <2>3
<1>6. (\A p \in Pairs : sugg[p] # "none" => There(p[1]) /\ There(p[2]))'
  <2>1. \A p \in Pairs : sugg'[p] = IF p[1] \in ids \/ p[2] \in ids THEN "none" ELSE sugg[p]
    BY DEF DeleteTransactions
  <2> QED
    BY <1>4, <2>1 DEF Store
<1>7. Store'
  BY <1>1, <1>5, <1>6 DEF Store
<1>8. StaysUnread
  BY <1>2, NoRowShape DEF StaysUnread, Store
<1>9. ASSUME NEW i \in Ids
      PROVE  txn'[i].link = IF i \in ids \/ txn[i].link \in ids THEN 0 ELSE txn[i].link
  <2>1. ~There(i) => txn[i].link = 0
    BY NoRowShape DEF Store
  <2> QED
    BY <1>2, <2>1, NoRowShape
<1> QED
  BY <1>7, <1>8, <1>9

-----------------------------------------------------------------------------
(* Links.                                                                  *)

\* A step that gives one row, if it is there, another type and another link.
LEMMA RelinkStore ==
  ASSUME Store, NEW i \in Ids, NEW type, NEW kind, Consistent(type, kind), NEW l,
         There(i) => l = 0 \/ (There(l) /\ l # i), ~There(i) => l = 0,
         txn' = [Retype(txn, {i}, type, kind) EXCEPT ![i].link = l],
         UNCHANGED <<scene, next, sugg>>
  PROVE  /\ Store' /\ StaysUnread
         /\ txn'[i].link = l /\ \A j \in Ids \ {i} : txn'[j].link = txn[j].link
<1> DEFINE R == Retype(txn, {i}, type, kind)
<1>1. /\ DOMAIN R = Ids
      /\ \A j \in Ids : IF There(j) THEN IsRow(R[j]) /\ R[j].link = txn[j].link /\ R[j].read = txn[j].read
                                    ELSE R[j] = NoRow
  BY RetypeRows
<1>2. txn' = [R EXCEPT ![i].link = l]
  OBVIOUS
<1> HIDE DEF R
<1> DEFINE row == R[i]
           new == [row EXCEPT !.link = l]
<1>3. DOMAIN txn' = Ids /\ txn'[i] = new /\ \A j \in Ids \ {i} : txn'[j] = R[j]
  BY <1>1, <1>2
<1>4. There(i) => IsRow(row) /\ row.read = txn[i].read
  BY <1>1
<1>5. ~There(i) => row = NoRow
  BY <1>1
<1> HIDE DEF row
<1>6. There(i) => IsRow(new) /\ new.read = txn[i].read /\ new.link = l
  BY <1>4 DEF IsRow, Columns
<1>7. ~There(i) => new = NoRow
  <2> SUFFICES ASSUME ~There(i) PROVE new = NoRow
    OBVIOUS
  <2>1. new = [NoRow EXCEPT !.link = 0]
    BY <1>5
  <2> QED
    BY <2>1, NoRowShape
<1> HIDE DEF new
<1>8. \A j \in Ids : IF There(j) THEN IsRow(txn'[j]) /\ txn'[j].read = txn[j].read ELSE txn'[j] = NoRow
  BY <1>1, <1>3, <1>6, <1>7
<1>9. \A j \in Ids : ~There(j) => txn[j] = NoRow /\ txn'[j] = NoRow
  BY <1>8 DEF Store
<1>10. txn'[i].link = l /\ \A j \in Ids \ {i} : txn'[j].link = txn[j].link
  <2>1. ASSUME NEW j \in Ids \ {i} PROVE txn'[j].link = txn[j].link
    BY <1>1, <1>3, <1>9
  <2> QED
    BY <1>3, <1>6, <1>7, <2>1, NoRowShape
<1>11. \A j : There(j)' <=> There(j)
  BY <1>8, NoRowShape DEF There, Ids, IsRow, IsPay
<1>12. ASSUME NEW j \in Ids
       PROVE  (IF There(j) THEN /\ IsRow(txn[j]) /\ j < next
                                /\ txn[j].link = 0 \/ (There(txn[j].link) /\ txn[j].link # j)
               ELSE txn[j] = NoRow)'
  <2>1. IF There(j) THEN /\ IsRow(txn[j]) /\ j < next
                         /\ txn[j].link = 0 \/ (There(txn[j].link) /\ txn[j].link # j)
        ELSE txn[j] = NoRow
    BY DEF Store
  <2>2. CASE There(j)
    <3>1. PICK k : k = txn'[j].link
      OBVIOUS
    <3>2. There(k)' <=> There(k)
      BY <1>11
    <3>3. k = IF j = i THEN l ELSE txn[j].link
      BY <1>10, <3>1
    <3>4. k = 0 \/ (There(k) /\ k # j)
      BY <2>1, <2>2, <3>3
    <3>5. There(j)'
      BY <1>11, <2>2
    <3>6. IsRow(txn'[j]) /\ j < next'
      BY <1>8, <2>1, <2>2
    <3> QED
      BY <3>1, <3>2, <3>4, <3>5, <3>6
  <2>3. CASE ~There(j)
    BY <1>8, <1>11, <2>3
  <2> QED
    BY <2>2, <2>3
<1>13. (\A p \in Pairs : sugg[p] # "none" => There(p[1]) /\ There(p[2]))'
  BY <1>11 DEF Store
<1>14. Store'
  BY <1>3, <1>12, <1>13 DEF Store
<1>15. StaysUnread
  BY <1>8, <1>9, NoRowShape DEF StaysUnread
<1> QED
  BY <1>10, <1>14, <1>15

\* A leg is linked only to a row there is.
LEMMA LinkStore ==
  ASSUME Store, Locals, NEW w \in Workers, LinkLeg(w)
  PROVE  LET i == work[w].row
             j == work[w].other
             fails == There(i) /\ ~There(j)
         IN /\ Store' /\ StaysUnread
            /\ fails => txn' = txn
            /\ ~fails => /\ txn'[i].link = (IF There(i) THEN j ELSE 0)
                         /\ \A k \in Ids \ {i} : txn'[k].link = txn[k].link
<1> DEFINE i == work[w].row
           j == work[w].other
           fails == There(i) /\ ~There(j)
           l == IF There(i) THEN j ELSE 0
<1>1. work[w].pc \in Legs
  BY DEF LinkLeg, Legs
<1>2. i \in Ids /\ j \in Ids /\ i # j
  BY <1>1 DEF Locals, Fits
<1>3. UNCHANGED <<scene, next, sugg>> /\ Consistent("transfer", "self")
  BY TypesFit DEF LinkLeg, Keep, Kinds
<1>4. txn' = IF fails THEN txn ELSE [Retype(txn, {i}, "transfer", "self") EXCEPT ![i].link = l]
  BY DEF LinkLeg
<1>5. ~fails => (There(i) => There(l) /\ l # i) /\ (~There(i) => l = 0)
  BY <1>2
<1> HIDE DEF i, j, l, fails
<1>6. fails => Store' /\ StaysUnread
  BY <1>3, <1>4, SameStore DEF StaysUnread
<1>7. ~fails => /\ Store' /\ StaysUnread
                /\ txn'[i].link = l /\ \A k \in Ids \ {i} : txn'[k].link = txn[k].link
  <2> SUFFICES ASSUME ~fails
               PROVE  /\ Store' /\ StaysUnread
                      /\ txn'[i].link = l /\ \A k \in Ids \ {i} : txn'[k].link = txn[k].link
    OBVIOUS
  <2>1. txn' = [Retype(txn, {i}, "transfer", "self") EXCEPT ![i].link = l]
    BY <1>4
  <2>2. (There(i) => l = 0 \/ (There(l) /\ l # i)) /\ (~There(i) => l = 0)
    BY <1>5
  <2> QED
    BY <1>2, <1>3, <2>1, <2>2, RelinkStore, SMTT(60)
<1> QED
  BY <1>4, <1>6, <1>7 DEF i, j, l, fails

\* A leg that is cleared points nowhere.
LEMMA ClearStore ==
  ASSUME Store, Locals, NEW w \in Workers, UnlinkClear(w)
  PROVE  LET i == work[w].row
         IN /\ Store' /\ StaysUnread
            /\ txn'[i].link = 0 /\ \A k \in Ids \ {i} : txn'[k].link = txn[k].link
<1> DEFINE i == work[w].row
           saw == work[w].saw
<1>1. work[w].pc \in Legs /\ work[w].pc \in {"clear1", "clear2"}
  BY DEF UnlinkClear, Legs
<1>2. i \in Ids /\ Consistent(saw, "")
  BY <1>1, TypesFit DEF Locals, Fits
<1>3. UNCHANGED <<scene, next, sugg>>
  BY DEF UnlinkClear, Keep
<1>4. txn' = [Retype(txn, {i}, saw, "") EXCEPT ![i].link = 0]
  BY DEF UnlinkClear
<1> HIDE DEF i, saw
<1>5. /\ Store' /\ StaysUnread
      /\ txn'[i].link = 0 /\ \A k \in Ids \ {i} : txn'[k].link = txn[k].link
  BY <1>2, <1>3, <1>4, RelinkStore
<1> QED
  BY <1>5 DEF i

\* Suggestions are made, dismissed and confirmed of pairs whose rows are there.
LEMMA SuggestStore ==
  ASSUME Store, NEW w \in Workers,
         Suggest(w) \/ MarkConfirmed(w) \/ \E p \in Pairs : Dismiss(w, p)
  PROVE  Store' /\ UNCHANGED txn
<1>1. UNCHANGED <<scene, txn, next>> /\ DOMAIN sugg' = Pairs
  BY DEF Suggest, MarkConfirmed, Dismiss, Store
<1>2. ASSUME NEW p \in Pairs, sugg'[p] # "none" PROVE There(p[1]) /\ There(p[2])
  <2>1. sugg[p] # "none" => There(p[1]) /\ There(p[2])
    BY DEF Store
  <2>2. CASE Suggest(w)
    <3>1. PICK q \in work[w].todo :
            \/ {q[1], q[2]} \subseteq Rows /\ sugg' = [sugg EXCEPT ![q] = IF @ = "none" THEN "pending" ELSE @]
            \/ UNCHANGED sugg
      BY <2>2 DEF Suggest
    <3>2. CASE UNCHANGED sugg
      BY <1>2, <2>1, <3>2
    <3>3. CASE /\ {q[1], q[2]} \subseteq Rows
               /\ sugg' = [sugg EXCEPT ![q] = IF @ = "none" THEN "pending" ELSE @]
      <4>1. CASE p = q
        BY <3>3, <4>1 DEF Rows
      <4>2. CASE p # q
        BY <1>2, <2>1, <3>3, <4>2 DEF Store
      <4> QED
        BY <4>1, <4>2
    <3> QED
      BY <3>1, <3>2, <3>3
  <2>3. CASE MarkConfirmed(w)
    BY <1>2, <2>1, <2>3 DEF MarkConfirmed, Store
  <2>4. CASE \E q \in Pairs : Dismiss(w, q)
    BY <1>2, <2>1, <2>4 DEF Dismiss, Store
  <2> QED
    BY <2>2, <2>3, <2>4
<1>3. \A i : There(i)' <=> There(i)
  BY <1>1 DEF There, Ids
<1> QED
  BY <1>1, <1>2, <1>3 DEF Store

-----------------------------------------------------------------------------
(* The pass.                                                               *)

\* Of rows that were loaded there is a newest.
LEMMA NewestIn ==
  ASSUME Passes, NEW S \in SUBSET DOMAIN pass.loaded, S # {}
  PROVE  Newest(S) \in S
<1> DEFINE day(i) == pass.loaded[i].pay.day
           After(i, j) == day(i) > day(j) \/ (day(i) = day(j) /\ i > j)
           R == {e \in S \X S : After(e[1], e[2])}
<1>1. \A i \in S : i \in Nat /\ day(i) \in Nat /\ i \in Ids
  BY IdsAreNat DEF Passes, IsRow, IsPay
<1>2. IsFiniteSet(S)
  BY <1>1, IdsAreNat, FS_Subset
<1>3. \A i, j \in S : <<i, j>> \in R <=> After(i, j)
  OBVIOUS
<1>4. /\ \A i \in S : ~After(i, i)
      /\ \A i, j, k \in S : After(i, j) /\ After(j, k) => After(i, k)
      /\ \A i, j \in S : i # j => After(i, j) \/ After(j, i)
  <2> HIDE DEF day
  <2> QED
    BY <1>1
<1>5. StrictOrder(R, S)
  <2> HIDE DEF R, After
  <2> QED
    BY <1>3, <1>4 DEF StrictOrder
<1>6. \E i \in S : \A j \in S \ {i} : <<i, j>> \in R
  <2> HIDE DEF R
  <2> QED
    BY <1>2, <1>5, FirstInOrder
<1>7. \E i \in S : \A j \in S \ {i} : After(i, j)
  BY <1>3, <1>6
<1> QED
  BY <1>7, Zenon DEF Newest

\* The row a goroutine writes next is one of its group.
LEMMA CurrentInGroup ==
  ASSUME Passes, NEW p \in Passers, ask[p].pc \in Reading
  PROVE  /\ Newest(ask[p].todo) \in ask[p].todo /\ Newest(ask[p].todo) \in Ids
         /\ Newest(ask[p].todo) \in DOMAIN pass.loaded
<1>1. ask[p].todo \in SUBSET DOMAIN pass.loaded /\ ask[p].todo # {}
  BY DEF Passes, Asking
<1> QED
  BY <1>1, NewestIn DEF Passes

\* FillEmpty writes a category and a merchant, over nothing.
LEMMA FillEffect ==
  ASSUME Store, Passes, NEW p \in Passers, FillEmpty(p)
  PROVE  /\ Rewrites /\ StaysUnread
         /\ \A j \in Ids : txn'[j] # txn[j] =>
              \E cat, merch : /\ txn'[j] = [txn[j] EXCEPT !.cat = cat, !.merch = merch]
                              /\ txn[j].cat # None => cat = txn[j].cat
                              /\ txn[j].merch # "" => merch = txn[j].merch
<1> DEFINE me == ask[p]
           i == Newest(me.todo)
           cat == IF txn[i].cat = None THEN me.read.cat ELSE txn[i].cat
           merch == IF pass.loaded[i].merch = "" /\ txn[i].merch = "" THEN me.read.merch ELSE txn[i].merch
           row == txn[i]
           new == [row EXCEPT !.cat = cat, !.merch = merch]
<1>1. i \in Ids /\ UNCHANGED <<scene, next, sugg>>
  BY CurrentInGroup DEF FillEmpty, AskStep, Reading
<1>2. CASE There(i)
  <2>1. IsRow(row) /\ DOMAIN txn = Ids
    BY <1>1, <1>2 DEF Store
  <2>2. txn' = [txn EXCEPT ![i].cat = IF @ = None THEN me.read.cat ELSE @,
                           ![i].merch = IF pass.loaded[i].merch = "" /\ @ = "" THEN me.read.merch ELSE @]
    BY <1>2 DEF FillEmpty
  <2> HIDE DEF i
  <2>3. DOMAIN txn' = Ids /\ txn'[i] = new /\ \A j \in Ids \ {i} : txn'[j] = txn[j]
    BY <1>1, <2>1, <2>2 DEF IsRow, Columns
  <2>4. (row.cat # None => cat = row.cat) /\ (row.merch # "" => merch = row.merch)
    OBVIOUS
  <2> HIDE DEF row, cat, merch
  <2>5. IsRow(new) /\ new.link = row.link /\ new.read = row.read
    BY <2>1 DEF IsRow, Columns
  <2>6. Rewrites /\ StaysUnread
    <3> HIDE DEF new
    <3>1. \A j \in Ids : \/ txn'[j] = txn[j]
                         \/ There(j) /\ IsRow(txn'[j]) /\ txn'[j].link = txn[j].link
      BY <1>1, <1>2, <2>3, <2>5 DEF row
    <3> QED
      BY <1>1, <2>3, <2>5, <3>1, RewritesSome DEF StaysUnread, row
  <2>7. ASSUME NEW j \in Ids, txn'[j] # txn[j]
        PROVE  \E c, m : /\ txn'[j] = [txn[j] EXCEPT !.cat = c, !.merch = m]
                         /\ txn[j].cat # None => c = txn[j].cat
                         /\ txn[j].merch # "" => m = txn[j].merch
    <3>1. j = i
      BY <2>3, <2>7
    <3>2. /\ txn'[j] = [txn[j] EXCEPT !.cat = cat, !.merch = merch]
          /\ txn[j].cat # None => cat = txn[j].cat
          /\ txn[j].merch # "" => merch = txn[j].merch
      BY <2>3, <2>4, <3>1 DEF row
    <3> WITNESS cat, merch
    <3> QED
      BY <3>2
  <2> QED
    BY <2>6, <2>7
<1>3. CASE ~There(i)
  <2>1. txn' = txn
    BY <1>3 DEF FillEmpty
  <2> QED
    BY <1>1, <2>1, RewritesSome DEF StaysUnread, Store
<1> QED
  BY <1>2, <1>3

\* StoreReading gives one row its reading.
LEMMA StoredEffect ==
  ASSUME Store, Passes, NEW p \in Passers, StoreReading(p)
  PROVE  LET i == Newest(ask[p].todo)
             applied == ask[p].read.nature = pass.loaded[i].type /\ ~ask[p].read.review
         IN /\ Rewrites /\ i \in Ids /\ i \in ask[p].todo
            /\ \A j \in Ids \ {i} : txn'[j] = txn[j]
            /\ There(i) => txn'[i] = [txn[i] EXCEPT !.read = [ask[p].read EXCEPT !.applied = applied]]
            /\ ~There(i) => txn'[i] = txn[i]
<1> DEFINE i == Newest(ask[p].todo)
           applied == ask[p].read.nature = pass.loaded[i].type /\ ~ask[p].read.review
           read == [ask[p].read EXCEPT !.applied = applied]
           row == txn[i]
           new == [row EXCEPT !.read = read]
<1>1. ask[p].pc = "store" /\ Stored(p, i, applied)
  BY DEF StoreReading
<1>2. i \in Ids /\ i \in ask[p].todo /\ IsReading(ask[p].read)
  BY <1>1, CurrentInGroup DEF Reading, Passes, Asking
<1>3. UNCHANGED <<scene, next, sugg>> /\ txn' = IF ~There(i) THEN txn ELSE [txn EXCEPT ![i].read = read]
  BY <1>1 DEF Stored, AskStep
<1> HIDE DEF i, applied
<1>4. IsReading(read)
  BY <1>2 DEF IsReading
<1> HIDE DEF read
<1>5. CASE There(i)
  <2>1. IsRow(row) /\ DOMAIN txn = Ids
    BY <1>2, <1>5 DEF Store
  <2>2. DOMAIN txn' = Ids /\ txn'[i] = new /\ \A j \in Ids \ {i} : txn'[j] = txn[j]
    BY <1>2, <1>3, <1>5, <2>1
  <2> HIDE DEF row
  <2>3. IsRow(new) /\ new.link = row.link
    BY <1>4, <2>1 DEF IsRow, Columns
  <2>4. Rewrites
    <3> HIDE DEF new
    <3>1. \A j \in Ids : \/ txn'[j] = txn[j]
                         \/ There(j) /\ IsRow(txn'[j]) /\ txn'[j].link = txn[j].link
      BY <1>5, <2>2, <2>3 DEF row
    <3> QED
      BY <1>3, <2>2, <3>1, RewritesSome
  <2>5. txn'[i] = [txn[i] EXCEPT !.read = read]
    BY <2>2 DEF row
  <2> HIDE DEF new
  <2> QED
    BY <1>2, <1>5, <2>2, <2>4, <2>5 DEF i, applied, read
<1>6. CASE ~There(i)
  <2>1. txn' = txn
    BY <1>3, <1>6
  <2>2. Rewrites
    BY <1>3, <2>1, RewritesSome DEF Store
  <2> QED
    BY <1>2, <1>6, <2>1, <2>2 DEF i
<1> QED
  BY <1>5, <1>6

-----------------------------------------------------------------------------
(* References stay real, whoever takes a step.                             *)

\* What a handler's step may do to rows: it gives no row a reading it did not have,
\* and only three of them change links.
SameLinks == \A i \in Ids : txn'[i].link = txn[i].link
Deletes(w) == \E ids \in SUBSET Rows : DeleteTransactions(w, ids)
Handled(w) ==
  /\ Store' /\ StaysUnread /\ UNCHANGED scene
  /\ SameLinks \/ Deletes(w) \/ LinkLeg(w) \/ UnlinkClear(w)

\* Rewriting is harmless.
LEMMA RewritesHandled ==
  ASSUME Store, Rewrites, StaysUnread, NEW w
  PROVE  Handled(w)
<1>1. SameLinks
  BY RewrittenThere DEF SameLinks
<1> QED
  BY <1>1, RewrittenStore DEF Handled, Rewrites

\* So is leaving the rows alone.
LEMMA QuietHandled ==
  ASSUME Store, UNCHANGED <<scene, txn>>, Store', NEW w
  PROVE  Handled(w)
  BY DEF Handled, StaysUnread, SameLinks

\* What the user, a mail or the ingest asks for.
LEMMA RequestHandled ==
  ASSUME Inv, NEW w \in Workers, Request(w)
  PROVE  Handled(w)
<1>0. Store /\ Locals
  BY DEF Inv
<1>1. CASE \E p \in scene.pays : IngestMail(w, p) \/ \E form \in Forms : CreateTransaction(w, p, form)
  <2>1. PICK p \in scene.pays : IngestMail(w, p) \/ \E form \in Forms : CreateTransaction(w, p, form)
    BY <1>1
  <2>2. UNCHANGED scene
    BY <2>1 DEF IngestMail, CreateTransaction, Insert
  <2> QED
    BY <1>0, <2>1, <2>2, EnterStore DEF Handled, SameLinks
<1>2. CASE \E i \in Rows : DismissReading(w, i)
  <2>1. PICK i \in Rows : DismissReading(w, i)
    BY <1>2
  <2>2. i \in Ids /\ txn' = Settle(txn, i) /\ UNCHANGED <<scene, next, sugg>>
    BY <2>1 DEF Rows, DismissReading, Keep
  <2> QED
    BY <1>0, <2>2, SettleRewrites, RewritesHandled
<1>3. CASE \E ids \in SUBSET Rows : \E cat \in scene.cats : BulkCategorize(w, ids, cat)
  BY <1>0, <1>3, CategoryRewrites, RewritesHandled
<1>4. CASE \E ids \in SUBSET Rows : \E kind \in Marks : BulkMarkTransfer(w, ids, kind)
  <2>1. PICK ids \in SUBSET Rows, kind \in Marks : BulkMarkTransfer(w, ids, kind)
    BY <1>4
  <2>2. kind \in Kinds /\ txn' = Retype(txn, ids, "transfer", kind) /\ UNCHANGED <<scene, next, sugg>>
    BY <2>1, BookkeepingAssumption DEF BulkMarkTransfer, Keep
  <2> QED
    BY <1>0, <2>2, RetypeRewrites, RewritesHandled
<1>5. CASE \E ids \in SUBSET Rows : DeleteTransactions(w, ids)
  <2>1. PICK ids \in SUBSET Rows : DeleteTransactions(w, ids)
    BY <1>5
  <2>2. UNCHANGED scene
    BY <2>1 DEF DeleteTransactions
  <2> QED
    BY <1>0, <2>1, <2>2, DeleteStore DEF Handled, Deletes
<1>6. CASE \E p \in Pairs : Dismiss(w, p)
  <2>1. Store' /\ UNCHANGED txn
    BY <1>0, <1>6, SuggestStore
  <2>2. UNCHANGED scene
    BY <1>6 DEF Dismiss
  <2> QED
    BY <1>0, <2>1, <2>2, QuietHandled
<1>7. CASE \/ \E i \in Rows : \/ \E form \in Forms : \E p \in scene.pays \cup {txn[i].pay} : UpdateTransaction(w, i, p, form)
                              \/ UnlinkTransfer(w, i) \/ ApplyReading(w, i)
           \/ \E p \in Pairs : Confirm(w, p)
           \/ \E i, j \in Ids : LinkTransfer(w, i, j)
           \/ \E m \in scene.mails : BillMail(w, m)
           \/ \E b \in BillIds, paid \in BOOLEAN : SetBillStatus(w, b, paid)
           \/ Scan(w) \/ StartPass(w) \/ DashboardExpenses(w)
  <2>1. UNCHANGED <<scene, txn, next, sugg>>
    BY <1>7 DEF UpdateTransaction, UnlinkTransfer, ApplyReading, Confirm, LinkTransfer, BillMail, SetBillStatus,
                Scan, StartPass, DashboardExpenses, Local, tables
  <2> QED
    BY <1>0, <2>1, SameStore, QuietHandled
<1> QED
  BY <1>1, <1>2, <1>3, <1>4, <1>5, <1>6, <1>7 DEF Request

\* What a handler does next.
LEMMA StepHandled ==
  ASSUME Inv, NEW w \in Workers, Step(w)
  PROVE  Handled(w)
<1>0. Store /\ Locals
  BY DEF Inv
<1>1. CASE MarkBroker(w)
  <2>1. txn' = Retype(txn, {work[w].row}, "transfer", "investment") /\ UNCHANGED <<scene, next, sugg>>
    BY <1>1 DEF MarkBroker, Keep
  <2>2. "investment" \in Kinds
    BY DEF Kinds
  <2> QED
    BY <1>0, <2>1, <2>2, RetypeRewrites, RewritesHandled
<1>2. CASE EditWrite(w)
  BY <1>0, <1>2, EditRewrites, RewritesHandled
<1>3. CASE Spread(w)
  BY <1>0, <1>3, CategoryRewrites, RewritesHandled
<1>4. CASE Suggest(w) \/ MarkConfirmed(w)
  <2>1. Store' /\ UNCHANGED txn
    BY <1>0, <1>4, SuggestStore
  <2>2. UNCHANGED scene
    BY <1>4 DEF Suggest, MarkConfirmed
  <2> QED
    BY <1>0, <2>1, <2>2, QuietHandled
<1>5. CASE LinkLeg(w)
  <2>1. Store' /\ StaysUnread
    BY <1>0, <1>5, LinkStore
  <2> QED
    BY <1>5, <2>1 DEF Handled, LinkLeg, Keep
<1>6. CASE UnlinkClear(w)
  <2>1. Store' /\ StaysUnread
    BY <1>0, <1>6, ClearStore
  <2> QED
    BY <1>6, <2>1 DEF Handled, UnlinkClear, Keep
<1>7. CASE ApplyWrite(w)
  BY <1>0, <1>7, ApplyRewrites, RewritesHandled
<1>8. CASE ApplyMark(w)
  <2>1. work[w].row \in Ids /\ txn' = Settle(txn, work[w].row) /\ UNCHANGED <<scene, next, sugg>>
    BY <1>0, <1>8 DEF ApplyMark, Keep, Locals, Fits
  <2> QED
    BY <1>0, <2>1, SettleRewrites, RewritesHandled
<1>9. CASE UpsertBill(w) \/ DashboardTransfers(w) \/ Arrived(w) \/ OfferBills(w) \/ Respond(w) \/ UnlinkLook(w)
  <2>1. UNCHANGED <<scene, txn, next, sugg>>
    BY <1>9 DEF UpsertBill, DashboardTransfers, Arrived, OfferBills, Respond, UnlinkLook, Local, tables
  <2> QED
    BY <1>0, <2>1, SameStore, QuietHandled
<1> QED
  BY <1>1, <1>2, <1>3, <1>4, <1>5, <1>6, <1>7, <1>8, <1>9 DEF Step

\* What the pass does: it leaves links alone.
LEMMA PassHandled ==
  ASSUME Inv, NEW p \in Passers, PassStep(p)
  PROVE  Store' /\ UNCHANGED <<scene, up, sugg, bill, work>> /\ SameLinks
<1>0. Store /\ Passes
  BY DEF Inv
<1>1. UNCHANGED <<scene, up, next, sugg, bill, work>>
  BY DEF PassStep, Claim, NothingLeft, Ask, AskFails, FillEmpty, StoreReading, Stored, AskStep
<1>2. CASE Claim(p) \/ NothingLeft(p) \/ Ask(p) \/ AskFails(p)
  <2>1. UNCHANGED txn
    BY <1>2 DEF Claim, NothingLeft, Ask, AskFails
  <2> QED
    BY <1>0, <1>1, <2>1, SameStore DEF SameLinks
<1>3. CASE FillEmpty(p) \/ StoreReading(p)
  <2>1. Rewrites
    BY <1>0, <1>3, FillEffect, StoredEffect
  <2>2. SameLinks
    BY <1>0, <2>1, RewrittenThere DEF SameLinks
  <2> QED
    BY <1>0, <1>1, <2>1, <2>2, RewrittenStore
<1> QED
  BY <1>2, <1>3 DEF PassStep

-----------------------------------------------------------------------------
(* The invariant: where it begins, and what handlers remember.             *)

\* A payment that comes in is a row.
LEMMA RowShape ==
  ASSUME NEW p, IsPay(p)
  PROVE  IsRow(Row(p)) /\ Row(p).link = 0
<1> DEFINE type == Plain(p)
           row == [NoRow EXCEPT !.pay = p, !.type = type]
<1>1. type \in {"income", "expense"}
  BY TypesFit
<1> HIDE DEF type
<1>2. IsRow(row) /\ row.link = 0
  BY <1>1 DEF IsRow, NoRow, Columns, Consistent, Types
<1> QED
  BY <1>2 DEF Row, type

\* The rows there are at first.
LEMMA InitStore == Init => Store
<1> SUFFICES ASSUME Init PROVE Store
  OBVIOUS
<1> DEFINE n == Len(scene.rows)
<1>1. scene \in Scenes /\ n \in Nat /\ scene.made \in Nat /\ next = n + 1
  BY Room DEF Init
<1>2. \A i \in 1..n : i \in Ids
  BY <1>1, Room
<1>3. \A i \in Ids : txn[i] = IF i <= n THEN Row(scene.rows[i]) ELSE NoRow
  BY DEF Init
<1>4. ASSUME NEW i \in Ids, i <= n PROVE IsRow(txn[i]) /\ txn[i].link = 0
  <2>1. i \in 1..Len(scene.rows)
    BY <1>1, <1>4, IdsAreNat
  <2>2. IsPay(scene.rows[i])
    BY <1>1, <2>1, InputAssumption
  <2> QED
    BY <1>3, <1>4, <2>2, RowShape
<1> HIDE DEF n
<1>5. ASSUME NEW i \in Ids
      PROVE  IF There(i) THEN IsRow(txn[i]) /\ i < next /\ txn[i].link = 0 ELSE txn[i] = NoRow
  <2>1. CASE i <= n
    BY <1>1, <1>4, <2>1, IdsAreNat DEF There, IsRow, IsPay
  <2>2. CASE ~(i <= n)
    BY <1>3, <2>2, NoRowShape DEF There
  <2> QED
    BY <2>1, <2>2
<1>6. next \in 1..Len(scene.rows) + scene.made + 1
  BY <1>1 DEF n
<1>7. DOMAIN txn = Ids /\ DOMAIN sugg = Pairs /\ \A p \in Pairs : sugg[p] = "none"
  BY DEF Init
<1> QED
  BY <1>1, <1>5, <1>6, <1>7 DEF Store

\* No bill is a bill.
LEMMA NoBillShape == IsBill(NoBill) /\ ~NoBill.id
  BY DEF IsBill, NoBill

\* The database is not open at first, and nobody does anything.
LEMMA InitInv == Init => Inv
<1> SUFFICES ASSUME Init PROVE Inv
  OBVIOUS
<1>1. Store
  BY InitStore
<1>2. Issued
  <2>1. scene \in Scenes /\ Len(scene.bills) \in Nat
    BY Room DEF Init
  <2>2. ASSUME NEW b \in BillIds PROVE IsBill(bill[b])
    <3>1. bill[b] = IF b <= Len(scene.bills) THEN scene.bills[b] ELSE NoBill
      BY DEF Init
    <3>2. b <= Len(scene.bills) => IsBill(scene.bills[b])
      BY <2>1, InputAssumption, IdsAreNat
    <3> QED
      BY <3>1, <3>2, NoBillShape
  <2> QED
    BY <2>2 DEF Issued, Init
<1>3. Locals
  BY DEF Init, Locals, Fits, Off, Legs
<1>4. Passes
  BY DEF Init, Passes, Asking, NoPass, Idle, Reading
<1> QED
  BY <1>1, <1>2, <1>3, <1>4 DEF Inv

\* Nothing a handler remembers changes but what its own step changes.
LEMMA SetLocals ==
  ASSUME Locals, NEW w \in Workers, NEW me, Set(w, me), Fits(me), UNCHANGED scene
  PROVE  Locals'
<1>1. DOMAIN work' = Workers /\ \A v \in Workers : work'[v] = me \/ work'[v] = work[v]
  BY DEF Set, Locals
<1>2. Fits(me)'
  BY DEF Fits
<1>3. ASSUME NEW v \in Workers, work'[v] = work[v] PROVE Fits(work[v])'
  BY <1>3 DEF Locals, Fits
<1>4. ASSUME NEW v \in Workers, work'[v] = me PROVE Fits(work[v])'
  BY <1>2, <1>4 DEF Fits
<1> QED
  BY <1>1, <1>3, <1>4 DEF Locals

LEMMA SameLocals == Locals /\ UNCHANGED <<scene, work>> => Locals'
  BY DEF Locals, Fits

\* A handler at rest, or one that only carries what it found.
LEMMA PlainFits ==
  /\ Fits(Off)
  /\ \A me, pc : Fits(me) /\ pc \in {"confirmed", "arrived", "answer", "suggest", "offer"} /\ (pc = "confirmed" => me.pc \in Legs)
       => Fits([me EXCEPT !.pc = pc])
<1>1. Fits(Off)
  BY DEF Fits, Off, Legs
<1>2. ASSUME NEW me, NEW pc, Fits(me), pc \in {"confirmed", "arrived", "answer", "suggest", "offer"},
             pc = "confirmed" => me.pc \in Legs
      PROVE  Fits([me EXCEPT !.pc = pc])
  <2> DEFINE new == [me EXCEPT !.pc = pc]
  <2>1. /\ DOMAIN new = DOMAIN me /\ new.pc = pc /\ new.row = me.row /\ new.other = me.other
    BY <1>2 DEF Fits
  <2> HIDE DEF new
  <2> QED
    BY <1>2, <2>1 DEF Fits, Legs
<1> QED
  BY <1>1, <1>2

\* What a request leaves to be done.
LEMMA RequestLocals ==
  ASSUME Inv, NEW w \in Workers, Request(w)
  PROVE  Locals'
<1>0. Store /\ Locals
  BY DEF Inv
<1>1. CASE \E p \in scene.pays : IngestMail(w, p) \/ \E form \in Forms : CreateTransaction(w, p, form)
  <2>1. UNCHANGED scene /\ (UNCHANGED work \/ Set(w, [Off EXCEPT !.pc = "broker", !.row = next]))
    BY <1>1 DEF IngestMail, CreateTransaction, Insert
  <2>2. Fits([Off EXCEPT !.pc = "broker", !.row = next])
    BY DEF Fits, Off, Legs
  <2> QED
    BY <1>0, <2>1, <2>2, SetLocals, SameLocals
<1>2. CASE \E i \in Rows, form \in Forms : \E p \in scene.pays \cup {txn[i].pay} : UpdateTransaction(w, i, p, form)
  <2>0. PICK i \in Rows, form \in Forms : \E p \in scene.pays \cup {txn[i].pay} : UpdateTransaction(w, i, p, form)
    BY <1>2
  <2>1. PICK p \in scene.pays \cup {txn[i].pay} : UpdateTransaction(w, i, p, form)
    BY <2>0
  <2> DEFINE kind == IF form.type # "transfer" THEN "" ELSE IF form.kind \in Kinds THEN form.kind ELSE "self"
             f == [form EXCEPT !.kind = kind]
             me == [Off EXCEPT !.pc = "edit", !.pay = p, !.form = f, !.saw = txn[i].cat, !.todo = {i}]
  <2>2. Normal(form) = f
    BY InputAssumption DEF Normal
  <2>3. DOMAIN form = {"type", "kind", "cat", "merch"} /\ Consistent(form.type, kind)
    BY InputAssumption DEF Consistent, Kinds
  <2> HIDE DEF kind
  <2>4. DOMAIN f = {"type", "kind", "cat", "merch"} /\ Consistent(f.type, f.kind)
    BY <2>3
  <2>5. UNCHANGED scene /\ Set(w, me)
    <3> HIDE DEF f
    <3> QED
      BY <2>1, <2>2 DEF UpdateTransaction, Local
  <2> HIDE DEF f
  <2>6. IsPay(p)
    BY <1>0, <2>1, InputAssumption DEF Store, Rows, IsRow
  <2>7. Fits(me)
    BY <2>4, <2>6 DEF Fits, Off, Legs
  <2> HIDE DEF me
  <2> QED
    BY <1>0, <2>5, <2>7, SetLocals
<1>3. CASE \E i \in Rows : UnlinkTransfer(w, i)
  <2>1. PICK i \in Rows : UnlinkTransfer(w, i)
    BY <1>3
  <2> DEFINE j == txn[i].link
             me == [Off EXCEPT !.pc = "look1", !.row = i, !.other = j]
  <2>2. i \in Ids /\ j \in Ids /\ i # j
    BY <1>0, <2>1 DEF UnlinkTransfer, Store, Rows, There
  <2>3. UNCHANGED scene /\ Set(w, me)
    BY <2>1 DEF UnlinkTransfer, Local
  <2> HIDE DEF j
  <2>4. Fits(me)
    BY <2>2 DEF Fits, Off, Legs
  <2> HIDE DEF me
  <2> QED
    BY <1>0, <2>3, <2>4, SetLocals
<1>4. CASE \E i \in Rows : ApplyReading(w, i)
  <2>1. PICK i \in Rows : ApplyReading(w, i)
    BY <1>4
  <2> DEFINE read == txn[i].read
             me == [Off EXCEPT !.pc = "apply", !.row = i, !.saw = read]
  <2>2. i \in Ids /\ IsReading(read)
    BY <1>0, <2>1 DEF ApplyReading, Store, Rows, There, IsRow
  <2>3. UNCHANGED scene /\ Set(w, me)
    BY <2>1 DEF ApplyReading, Local
  <2> HIDE DEF read
  <2>4. Fits(me)
    BY <2>2 DEF Fits, Off, Legs
  <2> HIDE DEF me
  <2> QED
    BY <1>0, <2>3, <2>4, SetLocals
<1>5. CASE \E ids \in SUBSET Rows : \E cat \in scene.cats : BulkCategorize(w, ids, cat)
  <2>1. PICK ids \in SUBSET Rows, cat \in scene.cats : BulkCategorize(w, ids, cat)
    BY <1>5
  <2> DEFINE me == [Off EXCEPT !.pc = "spread", !.todo = ids, !.cat = cat]
  <2>2. UNCHANGED scene /\ Set(w, me)
    BY <2>1 DEF BulkCategorize, Keep
  <2>3. Fits(me)
    BY DEF Fits, Off, Legs
  <2> HIDE DEF me
  <2> QED
    BY <1>0, <2>2, <2>3, SetLocals
<1>6. CASE \E p \in Pairs : Confirm(w, p)
  <2>1. PICK p \in Pairs : Confirm(w, p)
    BY <1>6
  <2> DEFINE i == p[1]
             j == p[2]
             me == [Off EXCEPT !.pc = "leg1", !.row = i, !.other = j, !.mark = TRUE]
  <2>2. i \in Ids /\ j \in Ids /\ i # j
    <3>1. p[1] \in Ids /\ p[2] \in Ids /\ p[1] < p[2]
      BY <2>1 DEF Pairs
    <3>2. p[1] \in Nat /\ p[2] \in Nat
      BY <3>1, IdsAreNat
    <3> QED
      BY <3>1, <3>2
  <2>3. UNCHANGED scene /\ Set(w, me)
    BY <2>1 DEF Confirm, Local
  <2> HIDE DEF i, j
  <2>4. Fits(me)
    BY <2>2 DEF Fits, Off, Legs
  <2> HIDE DEF me
  <2> QED
    BY <1>0, <2>3, <2>4, SetLocals
<1>7. CASE \E i, j \in Ids : LinkTransfer(w, i, j)
  <2>1. PICK i \in Ids, j \in Ids : LinkTransfer(w, i, j)
    BY <1>7
  <2> DEFINE me == [Off EXCEPT !.pc = "leg1", !.row = i, !.other = j]
  <2>2. UNCHANGED scene /\ Set(w, me) /\ i # j
    BY <2>1 DEF LinkTransfer, Local
  <2>3. Fits(me)
    BY <2>2 DEF Fits, Off, Legs
  <2> HIDE DEF me
  <2> QED
    BY <1>0, <2>2, <2>3, SetLocals
<1>8. CASE \E m \in scene.mails : BillMail(w, m)
  <2>1. PICK m \in scene.mails : BillMail(w, m)
    BY <1>8
  <2> DEFINE me == [Off EXCEPT !.pc = "bill", !.form = m]
  <2>2. UNCHANGED scene /\ Set(w, me)
    BY <2>1 DEF BillMail, Local
  <2>3. Fits(me)
    BY DEF Fits, Off, Legs
  <2> HIDE DEF me
  <2> QED
    BY <1>0, <2>2, <2>3, SetLocals
<1>9. CASE DashboardExpenses(w)
  <2> DEFINE sum == Expenses(txn)
             saw == txn
             me == [Off EXCEPT !.pc = "moved", !.sum = sum, !.saw = saw]
  <2>1. UNCHANGED scene /\ Set(w, me)
    BY <1>9 DEF DashboardExpenses, Local
  <2>2. sum = Expenses(saw) /\ Summable(saw)
    BY <1>0 DEF Inv, Store, There, IsRow, IsPay, Summable
  <2> HIDE DEF sum, saw
  <2>3. Fits(me)
    BY <2>2 DEF Fits, Off, Legs
  <2> HIDE DEF me
  <2> QED
    BY <1>0, <2>1, <2>3, SetLocals
<1>10. CASE Scan(w)
  <2>1. PICK found : UNCHANGED scene /\ Set(w, [Off EXCEPT !.pc = "suggest", !.todo = found])
    BY <1>10 DEF Scan, Local
  <2>2. Fits([Off EXCEPT !.pc = "suggest", !.todo = found])
    BY DEF Fits, Off, Legs
  <2> QED
    BY <1>0, <2>1, <2>2, SetLocals
<1>11. CASE \/ \E i \in Rows : DismissReading(w, i)
            \/ \E ids \in SUBSET Rows : DeleteTransactions(w, ids) \/ \E kind \in Marks : BulkMarkTransfer(w, ids, kind)
            \/ \E p \in Pairs : Dismiss(w, p)
            \/ \E b \in BillIds, paid \in BOOLEAN : SetBillStatus(w, b, paid)
            \/ StartPass(w)
  <2>1. UNCHANGED <<scene, work>>
    BY <1>11 DEF DismissReading, DeleteTransactions, BulkMarkTransfer, Dismiss, SetBillStatus, StartPass, Keep
  <2> QED
    BY <1>0, <2>1, SameLocals
<1> QED
  BY <1>1, <1>2, <1>3, <1>4, <1>5, <1>6, <1>7, <1>8, <1>9, <1>10, <1>11 DEF Request

\* What a step leaves to be done.
LEMMA StepLocals ==
  ASSUME Inv, NEW w \in Workers, Step(w)
  PROVE  Locals'
<1> DEFINE me == work[w]
<1>0. Store /\ Locals /\ Fits(me)
  BY DEF Inv, Locals
<1>1. CASE MarkBroker(w) \/ Spread(w) \/ ApplyMark(w) \/ UpsertBill(w) \/ Respond(w)
  <2>1. UNCHANGED scene /\ Set(w, Off)
    BY <1>1 DEF MarkBroker, Spread, ApplyMark, UpsertBill, Respond, Keep, Local
  <2> QED
    BY <1>0, <2>1, SetLocals, PlainFits
<1>2. CASE EditWrite(w)
  <2> DEFINE new == [Off EXCEPT !.pc = "spread", !.todo = me.todo, !.cat = me.form.cat]
  <2>1. UNCHANGED scene /\ (Set(w, Off) \/ Set(w, new))
    BY <1>2 DEF EditWrite, Keep
  <2>2. Fits(new)
    BY DEF Fits, Off, Legs
  <2> HIDE DEF new
  <2> QED
    BY <1>0, <2>1, <2>2, SetLocals, PlainFits
<1>3. CASE Suggest(w)
  <2>1. PICK todo : UNCHANGED scene /\ (Set(w, Off) \/ Set(w, [me EXCEPT !.todo = todo]))
    BY <1>3 DEF Suggest
  <2> DEFINE new == [me EXCEPT !.todo = todo]
  <2>2. me.pc = "suggest"
    BY <1>3 DEF Suggest
  <2> HIDE DEF me
  <2>3. DOMAIN new = DOMAIN me /\ new.pc = "suggest"
    BY <1>0, <2>2 DEF Fits
  <2>4. Fits(new)
    <3> HIDE DEF new
    <3> QED
      BY <1>0, <2>3 DEF Fits, Legs
  <2>5. Set(w, Off) \/ Set(w, new)
    BY <2>1
  <2> HIDE DEF new
  <2> QED
    BY <1>0, <2>1, <2>4, <2>5, SetLocals, PlainFits
<1>4. CASE LinkLeg(w)
  <2> DEFINE i == me.row
             j == me.other
             pc == IF me.mark THEN "confirmed" ELSE "arrived"
             second == [me EXCEPT !.pc = "leg2", !.row = j, !.other = i]
             last == [me EXCEPT !.pc = pc]
  <2>1. UNCHANGED scene /\ (Set(w, Off) \/ Set(w, second) \/ Set(w, last)) /\ me.pc \in {"leg1", "leg2"}
    BY <1>4 DEF LinkLeg, Keep
  <2>2. me.row \in Ids /\ me.other \in Ids /\ me.row # me.other /\ me.pc \in Legs
    BY <1>0, <2>1 DEF Fits, Legs
  <2>3. Fits(last)
    BY <1>0, <2>2, PlainFits
  <2>4. Fits(second)
    <3>1. i \in Ids /\ j \in Ids /\ i # j
      BY <2>2
    <3> HIDE DEF i, j
    <3>2. DOMAIN second = DOMAIN me /\ second.pc = "leg2" /\ second.row = j /\ second.other = i
      BY <1>0 DEF Fits
    <3> HIDE DEF second
    <3> QED
      BY <1>0, <3>1, <3>2 DEF Fits, Legs
  <2> HIDE DEF second, last
  <2> QED
    BY <1>0, <2>1, <2>3, <2>4, SetLocals, PlainFits
<1>5. CASE MarkConfirmed(w) \/ DashboardTransfers(w) \/ Arrived(w) \/ OfferBills(w)
  <2>1. CASE MarkConfirmed(w)
    <3>1. UNCHANGED scene /\ Set(w, [me EXCEPT !.pc = "arrived"])
      BY <2>1 DEF MarkConfirmed
    <3> QED
      BY <1>0, <3>1, SetLocals, PlainFits
  <2>2. CASE DashboardTransfers(w)
    <3> DEFINE sum == me.sum + Moved(txn, Kinds \cup {""})
               new == [me EXCEPT !.pc = "answer", !.sum = sum]
    <3>1. UNCHANGED scene /\ Set(w, new)
      BY <2>2 DEF DashboardTransfers, Local
    <3> HIDE DEF sum
    <3>2. DOMAIN new = DOMAIN me /\ new.pc = "answer"
      BY <1>0 DEF Fits
    <3> HIDE DEF new
    <3>3. Fits(new)
      BY <1>0, <3>2 DEF Fits, Legs
    <3> QED
      BY <1>0, <3>1, <3>3, SetLocals
  <2>3. CASE Arrived(w)
    <3>1. PICK pay : UNCHANGED scene /\ (Set(w, Off) \/ Set(w, [Off EXCEPT !.pc = "offer", !.pay = pay]))
      BY <2>3 DEF Arrived, Local
    <3>2. Fits([Off EXCEPT !.pc = "offer", !.pay = pay])
      BY DEF Fits, Off, Legs
    <3> QED
      BY <1>0, <3>1, <3>2, SetLocals, PlainFits
  <2>4. CASE OfferBills(w)
    <3> DEFINE todo == Offered(me.pay)
               new == [me EXCEPT !.pc = "answer", !.todo = todo]
    <3>1. UNCHANGED scene /\ (Set(w, Off) \/ Set(w, new))
      BY <2>4 DEF OfferBills, Local
    <3> HIDE DEF todo
    <3>2. DOMAIN new = DOMAIN me /\ new.pc = "answer"
      BY <1>0 DEF Fits
    <3> HIDE DEF new
    <3>3. Fits(new)
      BY <1>0, <3>2 DEF Fits, Legs
    <3> QED
      BY <1>0, <3>1, <3>3, SetLocals, PlainFits
  <2> QED
    BY <1>5, <2>1, <2>2, <2>3, <2>4
<1>6. CASE UnlinkLook(w)
  <2> DEFINE saw == IF There(me.row) THEN Plain(txn[me.row].pay) ELSE "expense"
             pc == IF me.pc = "look1" THEN "clear1" ELSE "clear2"
             new == [me EXCEPT !.pc = pc, !.saw = saw]
  <2>1. UNCHANGED scene /\ Set(w, new) /\ me.pc \in {"look1", "look2"}
    BY <1>6 DEF UnlinkLook, Local
  <2>2. me.row \in Ids /\ me.other \in Ids /\ me.row # me.other
    BY <1>0, <2>1 DEF Fits, Legs
  <2>3. saw \in {"income", "expense"}
    BY <1>0, <2>2, TypesFit DEF Store, IsRow
  <2>4. pc \in {"clear1", "clear2"}
    OBVIOUS
  <2> HIDE DEF saw, pc
  <2>5. DOMAIN new = DOMAIN me /\ new.pc = pc /\ new.saw = saw /\ new.row = me.row /\ new.other = me.other
    BY <1>0 DEF Fits
  <2> HIDE DEF new
  <2>6. Fits(new)
    BY <1>0, <2>2, <2>3, <2>4, <2>5 DEF Fits, Legs
  <2> QED
    BY <1>0, <2>1, <2>6, SetLocals
<1>7. CASE UnlinkClear(w)
  <2> DEFINE i == me.row
             j == me.other
             new == [me EXCEPT !.pc = "look2", !.row = j, !.other = i]
  <2>1. UNCHANGED scene /\ (Set(w, Off) \/ Set(w, new)) /\ me.pc \in {"clear1", "clear2"}
    BY <1>7 DEF UnlinkClear, Keep
  <2>2. i \in Ids /\ j \in Ids /\ i # j
    BY <1>0, <2>1 DEF Fits, Legs
  <2> HIDE DEF i, j
  <2>3. DOMAIN new = DOMAIN me /\ new.pc = "look2" /\ new.row = j /\ new.other = i
    BY <1>0 DEF Fits
  <2> HIDE DEF new
  <2>4. Fits(new)
    BY <1>0, <2>2, <2>3 DEF Fits, Legs
  <2> QED
    BY <1>0, <2>1, <2>4, SetLocals, PlainFits
<1>8. CASE ApplyWrite(w)
  <2> DEFINE new == [me EXCEPT !.pc = "applied"]
  <2>1. UNCHANGED scene /\ (Set(w, Off) \/ Set(w, new)) /\ me.pc = "apply"
    BY <1>8 DEF ApplyWrite, Keep
  <2>2. DOMAIN new = DOMAIN me /\ new.pc = "applied" /\ new.row = me.row
    BY <1>0 DEF Fits
  <2> HIDE DEF new
  <2>3. Fits(new)
    BY <1>0, <2>1, <2>2 DEF Fits, Legs
  <2> QED
    BY <1>0, <2>1, <2>3, SetLocals, PlainFits
<1> QED
  BY <1>1, <1>2, <1>3, <1>4, <1>5, <1>6, <1>7, <1>8 DEF Step

-----------------------------------------------------------------------------
(* Bills.                                                                  *)

\* Merging leaves of each bill what identifies it, or nothing, and of the bills of a
\* statement only the first.
LEMMA MergedKeeps ==
  ASSUME Issued, NEW b \in BillIds
  PROVE  LET copies == {c \in BillIds : SameStatement(bill, b, c)} IN
         \/ Merged(bill)[b] = NoBill
         \/ /\ IsBill(Merged(bill)[b]) /\ Merged(bill)[b].id = bill[b].id /\ Merged(bill)[b].of = bill[b].of
            /\ copies = {} \/ Min(copies) = b
<1> DEFINE copies == {c \in BillIds : SameStatement(bill, b, c)}
<1>1. PICK due, acct :
        Merged(bill)[b] = IF copies = {} THEN bill[b]
                          ELSE IF Min(copies) # b THEN NoBill
                          ELSE [bill[b] EXCEPT !.due = due, !.acct = acct]
  <2> DEFINE From(f(_)) == LET had == {c \in copies : f(bill[c]) # None}
                           IN IF had = {} THEN None ELSE f(bill[Min(had)])
  <2>1. Merged(bill)[b] = IF copies = {} THEN bill[b]
                          ELSE IF Min(copies) # b THEN NoBill
                          ELSE [bill[b] EXCEPT !.due = First(@, From(LAMBDA c : c.due)),
                                               !.acct = First(@, From(LAMBDA c : c.acct))]
    BY Zenon DEF Merged
  <2> DEFINE due == First(bill[b].due, From(LAMBDA c : c.due))
             acct == First(bill[b].acct, From(LAMBDA c : c.acct))
  <2>2. DOMAIN bill[b] = {"id", "of", "acct", "due", "paid"}
    BY DEF Issued, IsBill
  <2> HIDE DEF From, copies
  <2> QED
    BY <2>1, <2>2
<1> DEFINE row == bill[b]
           new == [row EXCEPT !.due = due, !.acct = acct]
<1>2. IsBill(row) /\ Merged(bill)[b] = IF copies = {} THEN row ELSE IF Min(copies) # b THEN NoBill ELSE new
  BY <1>1 DEF Issued
<1> HIDE DEF row, copies
<1>3. IsBill(new) /\ new.id = row.id /\ new.of = row.of
  BY <1>2 DEF IsBill
<1> HIDE DEF new
<1> QED
  BY <1>2, <1>3 DEF row, copies

\* So opening the database leaves one bill of a statement.
LEMMA OpenIssued ==
  ASSUME Issued, Open
  PROVE  Issued'
<1> DEFINE copies(b) == {c \in BillIds : SameStatement(bill, b, c)}
<1>1. up' = TRUE /\ bill' = Merged(bill) /\ DOMAIN bill' = BillIds
  BY DEF Open, Merged
<1>2. \A b \in BillIds : \/ bill'[b] = NoBill
                         \/ /\ IsBill(bill'[b]) /\ bill'[b].id = bill[b].id /\ bill'[b].of = bill[b].of
                            /\ copies(b) = {} \/ Min(copies(b)) = b
  BY <1>1, MergedKeeps
<1>3. \A b \in BillIds : IsBill(bill'[b])
  BY <1>2, NoBillShape
<1>4. ASSUME NEW a \in BillIds, NEW b \in BillIds, SameStatement(bill', a, b)
      PROVE  a = b
  <2>1. bill'[a].id /\ bill'[b].id /\ bill'[a].of = bill'[b].of /\ bill'[a].of # None
    BY <1>4 DEF SameStatement
  <2>2. bill'[a] # NoBill /\ bill'[b] # NoBill
    BY <2>1 DEF NoBill
  <2>3. bill[a].id /\ bill[b].id /\ bill[a].of = bill[b].of /\ bill[a].of # None
    BY <1>2, <2>1, <2>2
  <2>4. copies(a) = copies(b) /\ a \in copies(a)
    BY <2>3 DEF SameStatement
  <2>5. Min(copies(a)) = a /\ Min(copies(b)) = b
    BY <1>2, <2>2, <2>4
  <2> QED
    BY <2>4, <2>5
<1> QED
  BY <1>1, <1>3, <1>4 DEF Issued

\* A bill with other figures is the bill of the same statement.
LEMMA SameIssued ==
  ASSUME Issued, up' \in BOOLEAN, up' => up, DOMAIN bill' = BillIds,
         \A b \in BillIds : /\ DOMAIN bill'[b] = DOMAIN bill[b]
                            /\ bill'[b].id = bill[b].id /\ bill'[b].of = bill[b].of
  PROVE  Issued'
<1>1. \A b \in BillIds : IsBill(bill'[b])
  BY DEF Issued, IsBill
<1>2. \A a, b \in BillIds : SameStatement(bill', a, b) => SameStatement(bill, a, b)
  BY DEF SameStatement
<1> QED
  BY <1>1, <1>2 DEF Issued

\* A set of bills that is not empty has a first.
LEMMA FirstBill ==
  ASSUME NEW S \in SUBSET BillIds, S # {}
  PROVE  Min(S) \in S
<1>1. S \in SUBSET Nat
  BY IdsAreNat
<1>2. \E x \in S : \A y \in S : x <= y
  BY <1>1, LeastElement
<1> QED
  BY <1>2 DEF Min

\* A statement by mail goes to its bill, or to a new one; it pays and unpays none, and
\* takes no figure away.
LEMMA UpsertIssued ==
  ASSUME Inv, NEW w \in Workers, UpsertBill(w)
  PROVE  /\ Issued' /\ UNCHANGED up
         /\ \A b \in BillIds : bill[b].id => /\ bill'[b].paid = bill[b].paid
                                             /\ bill[b].due # None => bill'[b].due # None
<1> DEFINE m == work[w].form
           known == {b \in BillIds : bill[b].id /\ bill[b].of = m.of /\ m.of # None}
           free == {b \in BillIds : ~bill[b].id /\ b > Len(scene.bills) /\ b <= Len(scene.bills) + scene.issued}
<1>1. UNCHANGED up /\ Issued /\ Locals /\ scene \in Scenes
  BY DEF UpsertBill, Inv, Store
<1>2. \/ \E b \in known : bill' = [bill EXCEPT ![b].due = First(m.due, @), ![b].acct = First(m.acct, @)]
      \/ known = {} /\ free # {} /\ bill' = [bill EXCEPT ![Min(free)] = m]
  BY DEF UpsertBill
<1>3. ASSUME NEW k \in known, bill' = [bill EXCEPT ![k].due = First(m.due, @), ![k].acct = First(m.acct, @)]
      PROVE  /\ Issued'
             /\ \A b \in BillIds : bill[b].id => /\ bill'[b].paid = bill[b].paid
                                                 /\ bill[b].due # None => bill'[b].due # None
  <2> DEFINE row == bill[k]
             due == First(m.due, row.due)
             acct == First(m.acct, row.acct)
             new == [row EXCEPT !.due = due, !.acct = acct]
  <2>1. k \in BillIds /\ IsBill(row) /\ DOMAIN bill = BillIds
    BY <1>1 DEF Issued
  <2>2. DOMAIN bill' = BillIds /\ bill'[k] = new /\ \A b \in BillIds \ {k} : bill'[b] = bill[b]
    BY <1>3, <2>1 DEF IsBill
  <2>3. row.due # None => due # None
    BY DEF First
  <2> HIDE DEF due, acct, row
  <2>4. /\ DOMAIN new = DOMAIN row /\ new.id = row.id /\ new.of = row.of
        /\ new.paid = row.paid /\ new.due = due
    BY <2>1 DEF IsBill
  <2> HIDE DEF new
  <2>5. \A b \in BillIds : /\ DOMAIN bill'[b] = DOMAIN bill[b]
                           /\ bill'[b].id = bill[b].id /\ bill'[b].of = bill[b].of
                           /\ bill'[b].paid = bill[b].paid
                           /\ bill[b].due # None => bill'[b].due # None
    BY <2>2, <2>3, <2>4 DEF row
  <2>6. up' \in BOOLEAN /\ (up' => up)
    BY <1>1 DEF Issued
  <2> QED
    BY <1>1, <2>2, <2>5, <2>6, SameIssued
<1>4. ASSUME known = {}, free # {}, bill' = [bill EXCEPT ![Min(free)] = m]
      PROVE  /\ Issued'
             /\ \A b \in BillIds : bill[b].id => /\ bill'[b].paid = bill[b].paid
                                                 /\ bill[b].due # None => bill'[b].due # None
  <2>1. PICK n \in free : n = Min(free)
    BY <1>4, FirstBill
  <2>2. n \in BillIds /\ ~bill[n].id
    OBVIOUS
  <2>3. DOMAIN bill' = BillIds /\ bill'[n] = m /\ \A b \in BillIds \ {n} : bill'[b] = bill[b]
    BY <1>1, <1>4, <2>1, <2>2 DEF Issued
  <2>4. IsBill(m)
    <3>1. m \in scene.mails
      BY <1>1 DEF UpsertBill, Locals, Fits
    <3> QED
      BY <1>1, <3>1, InputAssumption
  <2>5. ASSUME NEW a \in BillIds, NEW b \in BillIds, up, SameStatement(bill', a, b)
        PROVE  a = b
    <3>1. \A c \in BillIds \ {n} : bill[c].id => bill[c].of # m.of \/ m.of = None
      BY <1>4
    <3>2. CASE a # n /\ b # n
      BY <1>1, <2>3, <2>5, <3>2 DEF Issued, SameStatement
    <3>3. CASE a = n /\ b # n
      BY <2>3, <2>5, <3>1, <3>3 DEF SameStatement
    <3>4. CASE a # n /\ b = n
      BY <2>3, <2>5, <3>1, <3>4 DEF SameStatement
    <3> QED
      BY <3>2, <3>3, <3>4
  <2>6. Issued'
    BY <1>1, <2>3, <2>4, <2>5 DEF Issued
  <2> QED
    BY <2>2, <2>3, <2>6
<1> QED
  BY <1>1, <1>2, <1>3, <1>4

-----------------------------------------------------------------------------
(* The groups of a pass.                                                   *)

\* A step that leaves the pass alone and gives no row a reading.
LEMMA QuietPasses ==
  ASSUME Passes, StaysUnread, UNCHANGED <<pass, ask>>
  PROVE  Passes'
<1>1. ASSUME NEW i \in Ids, txn[i].read = None PROVE txn'[i].read = None
  BY <1>1 DEF StaysUnread
<1>2. ASSUME NEW p \in Passers PROVE Asking(ask[p])'
  <2>1. Asking(ask[p]) /\ ask[p].todo \subseteq Ids
    BY DEF Passes, Asking
  <2> QED
    BY <1>1, <2>1 DEF Asking
<1>3. \A i \in UNION pass.left : txn'[i].read = None
  BY <1>1 DEF Passes
<1> QED
  BY <1>2, <1>3 DEF Passes

\* A pass begins with groups that have no row in common: they have different keys.
LEMMA StartPasses ==
  ASSUME Store, NEW w, StartPass(w)
  PROVE  Passes'
<1> DEFINE same(i) == {j \in Unread : Key(j, txn[j]) = Key(i, txn[i])}
           claim == [Idle EXCEPT !.pc = "claim"]
<1>1. /\ pass' = [on |-> TRUE, loaded |-> [i \in Unread |-> txn[i]], left |-> Groups(Unread)]
      /\ ask' = [p \in Passers |-> claim] /\ UNCHANGED txn
  BY DEF StartPass, tables
<1>2. Unread \subseteq Ids /\ \A i \in Unread : IsRow(txn[i]) /\ txn[i].read = None
  BY DEF Unread, Rows, There, Store
<1>3. claim.pc = "claim" /\ claim.todo = {} /\ DOMAIN claim = {"pc", "todo", "read"}
  BY DEF Idle
<1> HIDE DEF claim
<1>4. \A g \in Groups(Unread) : \E i \in Unread : g = same(i)
  BY DEF Groups
<1>5. \A i \in Unread : same(i) \subseteq Unread /\ i \in same(i)
  OBVIOUS
<1>6. ASSUME NEW i \in Unread, NEW j \in Unread, NEW x \in same(i) \cap same(j)
      PROVE  same(i) = same(j)
  <2>1. Key(x, txn[x]) = Key(i, txn[i]) /\ Key(x, txn[x]) = Key(j, txn[j])
    OBVIOUS
  <2> QED
    BY <2>1
<1> HIDE DEF same
<1>7. \A g, k \in Groups(Unread) : g # k => g \cap k = {}
  BY <1>4, <1>6
<1>8. \A g \in Groups(Unread) : g \subseteq Unread /\ g # {}
  BY <1>4, <1>5
<1>9. ASSUME NEW p \in Passers PROVE Asking(ask[p])'
  BY <1>1, <1>3 DEF Asking, Reading
<1> QED
  BY <1>1, <1>2, <1>3, <1>7, <1>8, <1>9 DEF Passes

\* A goroutine goes on with rows of its group, or with rows that it takes out of those
\* left, and the others with theirs.
LEMMA GoOn ==
  ASSUME Passes, NEW p \in Passers, NEW me, ask' = [ask EXCEPT ![p] = me],
         DOMAIN pass' = DOMAIN pass, pass'.on = pass.on, pass'.loaded = pass.loaded,
         pass'.left \subseteq pass.left,
         DOMAIN me = {"pc", "todo", "read"}, me.pc \in Reading \cup {"rest", "claim"},
         me.pc \in Reading <=> me.todo # {}, me.pc \in {"fill", "store"} => IsReading(me.read),
         me.pc # "rest" => pass.on, me.todo \subseteq ask[p].todo \cup UNION pass.left,
         me.todo \cap UNION pass'.left = {}, \A i \in me.todo : txn'[i].read = None,
         \A i \in Ids \ ask[p].todo : txn[i].read = None => txn'[i].read = None
  PROVE  Passes'
<1>1. /\ DOMAIN ask' = Passers /\ ask'[p] = me /\ \A q \in Passers \ {p} : ask'[q] = ask[q]
  BY DEF Passes
<1>2. /\ ask[p].todo \subseteq DOMAIN pass.loaded /\ UNION pass.left \subseteq DOMAIN pass.loaded
      /\ DOMAIN pass.loaded \subseteq Ids /\ UNION pass'.left \subseteq UNION pass.left
  BY DEF Passes, Asking
<1>3. Asking(ask[p])'
  BY <1>1, <1>2 DEF Asking
<1>4. ASSUME NEW q \in Passers \ {p} PROVE Asking(ask[q])'
  <2>1. Asking(ask[q]) /\ ask[q].todo \cap ask[p].todo = {}
    BY DEF Passes
  <2>2. \A i \in ask[q].todo : txn'[i].read = None
    BY <1>2, <2>1 DEF Asking
  <2>3. ask[q].todo \cap UNION pass'.left = {}
    BY <1>2, <2>1 DEF Asking
  <2> QED
    BY <1>1, <2>1, <2>2, <2>3 DEF Asking
<1>5. \A q \in Passers \ {p} : ask[q].todo \cap me.todo = {}
  BY DEF Passes, Asking
<1>6. \A q, r \in Passers : q # r => ask'[q].todo \cap ask'[r].todo = {}
  BY <1>1, <1>5 DEF Passes
<1>7. \A i \in UNION pass'.left : txn'[i].read = None
  <2> TAKE i \in UNION pass'.left
  <2>1. i \in UNION pass.left /\ i \in Ids /\ txn[i].read = None
    BY <1>2 DEF Passes
  <2>2. i \notin ask[p].todo
    BY <2>1 DEF Passes, Asking
  <2> QED
    BY <2>1, <2>2
<1>8. /\ pass'.left \subseteq SUBSET DOMAIN pass'.loaded /\ {} \notin pass'.left
      /\ \A g, k \in pass'.left : g # k => g \cap k = {}
  BY DEF Passes
<1> QED
  BY <1>1, <1>3, <1>4, <1>6, <1>7, <1>8 DEF Passes

\* The cursor moves past the group that is claimed.
LEMMA ClaimPasses ==
  ASSUME Passes, NEW p \in Passers, Claim(p)
  PROVE  Passes'
<1> DEFINE group == CHOOSE g \in pass.left : Newest(UNION pass.left) \in g
           me == [Idle EXCEPT !.pc = "ask", !.todo = group]
<1>1. /\ ask[p].pc = "claim" /\ pass.left # {} /\ pass' = [pass EXCEPT !.left = @ \ {group}]
      /\ ask' = [ask EXCEPT ![p] = me] /\ UNCHANGED txn
  <2>1. ask[p].pc = "claim" /\ pass.left # {} /\ UNCHANGED txn
    BY DEF Claim
  <2>2. pass' = [pass EXCEPT !.left = @ \ {group}]
    BY Zenon DEF Claim
  <2>3. ask' = [ask EXCEPT ![p] = me]
    BY Zenon DEF Claim, AskStep
  <2> QED
    BY <2>1, <2>2, <2>3, Zenon
<1> HIDE DEF group, me
<1>2. UNION pass.left \in SUBSET DOMAIN pass.loaded /\ UNION pass.left # {}
  <2>1. pass.left # {} /\ pass.left \subseteq SUBSET DOMAIN pass.loaded /\ {} \notin pass.left
    BY <1>1 DEF Passes
  <2>2. PICK g \in pass.left : g # {}
    BY <2>1
  <2>3. PICK i \in g : TRUE
    BY <2>2
  <2> QED
    BY <2>1, <2>3
<1>3. Newest(UNION pass.left) \in UNION pass.left
  BY <1>2, NewestIn
<1>4. group \in pass.left
  BY <1>3, Zenon DEF group
<1>5. me.pc = "ask" /\ me.todo = group /\ DOMAIN me = {"pc", "todo", "read"}
  BY DEF Idle, me
<1>6. pass'.left = pass.left \ {group} /\ DOMAIN pass' = DOMAIN pass /\ pass'.on = pass.on /\ pass'.loaded = pass.loaded
  BY <1>1 DEF Passes
<1>7. group # {} /\ group \subseteq UNION pass.left /\ group \cap UNION pass'.left = {}
  BY <1>4, <1>6 DEF Passes
<1>8. pass.on /\ \A i \in group : txn'[i].read = None
  <2>1. pass.on
    BY <1>1 DEF Passes, Asking
  <2>2. \A i \in group : txn[i].read = None
    BY <1>7 DEF Passes
  <2> QED
    BY <1>1, <2>1, <2>2
<1> QED
  BY <1>1, <1>5, <1>6, <1>7, <1>8, GoOn DEF Reading

\* What is kept of an answer can be written to a row.
LEMMA ParseReads ==
  ASSUME NEW raw, NEW type \in Types
  PROVE  IsReading(Parse(raw, type))
<1> DEFINE nature == IF raw.nature \in Types THEN raw.nature ELSE type
           cat == IF raw.cat \in Cats THEN raw.cat ELSE None
           kind == IF nature # "transfer" THEN "" ELSE IF raw.kind \in Kinds THEN raw.kind ELSE "self"
           review == raw.review \/ (cat = None /\ nature # "transfer")
           merch == raw.merch
           read == [cat |-> cat, nature |-> nature, merch |-> merch, applied |-> FALSE, kind |-> kind, review |-> review]
<1>1. Parse(raw, type) = read
  BY DEF Parse
<1>2. Consistent(nature, kind)
  BY DEF Consistent, Kinds
<1> HIDE DEF nature, cat, kind, review, merch
<1>3. IsReading(read)
  BY <1>2 DEF IsReading
<1> HIDE DEF read
<1> QED
  BY <1>1, <1>3

\* The goroutines' steps that write nothing.
LEMMA AskPasses ==
  ASSUME Passes, NEW p \in Passers, NothingLeft(p) \/ Ask(p) \/ AskFails(p)
  PROVE  Passes'
<1> DEFINE me == ask[p]
<1>0. Asking(me) /\ UNCHANGED <<txn, pass>>
  BY DEF NothingLeft, Ask, AskFails, Passes
<1>1. CASE NothingLeft(p) \/ AskFails(p)
  <2>1. PICK new : /\ ask' = [ask EXCEPT ![p] = new] /\ new.todo = {} /\ DOMAIN new = {"pc", "todo", "read"}
                   /\ new.pc = "rest" \/ (new.pc = "claim" /\ me.pc = "ask")
    <3>1. CASE NothingLeft(p)
      <4>1. Idle.todo = {} /\ DOMAIN Idle = {"pc", "todo", "read"} /\ Idle.pc = "rest"
        BY DEF Idle
      <4> QED
        BY <3>1, <4>1 DEF NothingLeft, AskStep
    <3>2. CASE AskFails(p)
      <4> DEFINE claim == [Idle EXCEPT !.pc = "claim"]
      <4>1. claim.todo = {} /\ DOMAIN claim = {"pc", "todo", "read"} /\ claim.pc = "claim"
        BY DEF Idle
      <4>2. ask' = [ask EXCEPT ![p] = claim] /\ me.pc = "ask"
        BY <3>2 DEF AskFails, AskStep
      <4> HIDE DEF claim
      <4> QED
        BY <4>1, <4>2
    <3> QED
      BY <1>1, <3>1, <3>2
  <2>2. me.pc = "ask" => pass.on
    BY <1>0 DEF Asking
  <2> QED
    BY <1>0, <2>1, <2>2, GoOn DEF Reading
<1>2. CASE Ask(p)
  <2> DEFINE type == pass.loaded[Newest(me.todo)].type
  <2>1. PICK raw \in Answers : ask' = [ask EXCEPT ![p] = [me EXCEPT !.pc = "fill", !.read = Parse(raw, type)]]
    BY <1>2 DEF Ask, AskStep
  <2>2. me.pc = "ask"
    BY <1>2 DEF Ask
  <2>3. type \in Types
    <3>1. Newest(me.todo) \in DOMAIN pass.loaded
      BY <2>2, CurrentInGroup DEF Reading
    <3> QED
      BY <3>1 DEF Passes, IsRow, Consistent
  <2> DEFINE read == Parse(raw, type)
             new == [me EXCEPT !.pc = "fill", !.read = read]
  <2>4. IsReading(read)
    BY <2>3, ParseReads
  <2>5. ask' = [ask EXCEPT ![p] = new]
    BY <2>1
  <2> HIDE DEF read, me, type
  <2>6. new.pc = "fill" /\ new.read = read /\ new.todo = me.todo /\ DOMAIN new = {"pc", "todo", "read"}
    BY <1>0 DEF Asking
  <2> HIDE DEF new
  <2>7. me.todo # {} /\ pass.on /\ me.todo \cap UNION pass.left = {} /\ \A i \in me.todo : txn[i].read = None
    BY <1>0, <2>2 DEF Asking, Reading
  <2>8. me = ask[p]
    BY DEF me
  <2> QED
    BY <1>0, <2>4, <2>5, <2>6, <2>7, <2>8, GoOn DEF Reading
<1> QED
  BY <1>1, <1>2

\* Filling a row leaves it to be read.
LEMMA FillPasses ==
  ASSUME Store, Passes, NEW p \in Passers, FillEmpty(p)
  PROVE  Passes'
<1> DEFINE me == ask[p]
           new == [me EXCEPT !.pc = "store"]
<1>1. me.pc = "fill" /\ ask' = [ask EXCEPT ![p] = new] /\ UNCHANGED pass
  BY DEF FillEmpty, AskStep
<1>2. Asking(me)
  BY DEF Passes
<1>3. \A i \in Ids : txn[i].read = None => txn'[i].read = None
  BY FillEffect DEF StaysUnread
<1> HIDE DEF me
<1>4. new.pc = "store" /\ new.read = me.read /\ new.todo = me.todo /\ DOMAIN new = {"pc", "todo", "read"}
  BY <1>2 DEF Asking
<1> HIDE DEF new
<1>5. /\ me.todo # {} /\ pass.on /\ IsReading(me.read) /\ me.todo \cap UNION pass.left = {}
      /\ \A i \in me.todo : i \in Ids /\ txn[i].read = None
  BY <1>1, <1>2 DEF Asking, Reading, Passes
<1>6. /\ new.pc \in Reading \cup {"rest", "claim"} /\ (new.pc \in Reading <=> new.todo # {})
      /\ new.pc \in {"fill", "store"} => IsReading(new.read)
      /\ new.pc # "rest" => pass.on
  BY <1>4, <1>5 DEF Reading
<1>7. /\ new.todo \subseteq ask[p].todo \cup UNION pass.left /\ new.todo \cap UNION pass'.left = {}
      /\ \A i \in new.todo : txn'[i].read = None
  BY <1>1, <1>3, <1>4, <1>5 DEF me
<1>8. /\ DOMAIN pass' = DOMAIN pass /\ pass'.on = pass.on /\ pass'.loaded = pass.loaded
      /\ pass'.left \subseteq pass.left
  BY <1>1
<1>9. \A i \in Ids \ ask[p].todo : txn[i].read = None => txn'[i].read = None
  BY <1>3
<1> QED
  BY <1>1, <1>4, <1>6, <1>7, <1>8, <1>9, GoOn

\* A row that has its reading is no longer of the group.
LEMMA StorePasses ==
  ASSUME Store, Passes, NEW p \in Passers, StoreReading(p)
  PROVE  Passes'
<1> DEFINE me == ask[p]
           i == Newest(me.todo)
           rest == me.todo \ {i}
           new == IF rest = {} THEN [Idle EXCEPT !.pc = "claim"] ELSE [me EXCEPT !.pc = "fill", !.todo = rest]
<1>1. me.pc = "store" /\ ask' = [ask EXCEPT ![p] = new] /\ UNCHANGED pass
  BY DEF StoreReading, Stored, AskStep
<1>2. Asking(me)
  BY DEF Passes
<1>3. i \in me.todo /\ \A j \in Ids \ {i} : txn'[j] = txn[j]
  BY StoredEffect
<1> HIDE DEF me, i
<1>4. /\ DOMAIN new = {"pc", "todo", "read"} /\ new.todo = rest
      /\ IF rest = {} THEN new.pc = "claim" ELSE new.pc = "fill" /\ new.read = me.read
  BY <1>2 DEF Asking, Idle
<1> HIDE DEF new
<1>5. /\ pass.on /\ IsReading(me.read) /\ me.todo \cap UNION pass.left = {}
      /\ \A j \in me.todo : j \in Ids /\ txn[j].read = None
  BY <1>1, <1>2 DEF Asking, Reading, Passes
<1>6. me = ask[p] /\ rest \subseteq me.todo /\ i \notin rest
  BY DEF me
<1>7. \A j \in rest : txn'[j].read = None
  BY <1>3, <1>5, <1>6
<1>8. \A j \in Ids \ me.todo : txn[j].read = None => txn'[j].read = None
  BY <1>3
<1> HIDE DEF rest
<1>9. /\ new.pc \in Reading \cup {"rest", "claim"} /\ (new.pc \in Reading <=> new.todo # {})
      /\ new.pc \in {"fill", "store"} => IsReading(new.read)
  BY <1>4, <1>5 DEF Reading
<1>10. new.todo \subseteq ask[p].todo \cup UNION pass.left /\ new.todo \cap UNION pass'.left = {}
  BY <1>1, <1>4, <1>5, <1>6
<1>11. \A j \in Ids \ ask[p].todo : txn[j].read = None => txn'[j].read = None
  BY <1>6, <1>8
<1> QED
  BY <1>1, <1>4, <1>5, <1>7, <1>9, <1>10, <1>11, GoOn

\* No pass, nobody at it.
LEMMA NoPasses ==
  ASSUME pass' = NoPass, DOMAIN ask' = Passers,
         \A p \in Passers : DOMAIN ask'[p] = {"pc", "todo", "read"} /\ ask'[p].pc = "rest" /\ ask'[p].todo = {}
  PROVE  Passes'
<1>1. /\ DOMAIN NoPass = {"on", "loaded", "left"} /\ NoPass.on = FALSE
      /\ NoPass.loaded = <<>> /\ DOMAIN NoPass.loaded = {} /\ NoPass.left = {}
  BY DEF NoPass
<1>2. ASSUME NEW p \in Passers PROVE Asking(ask[p])'
  BY <1>1 DEF Asking, Reading
<1> QED
  BY <1>1, <1>2 DEF Passes

-----------------------------------------------------------------------------
(* The invariant is kept.                                                  *)

LEMMA QuietBills == Issued /\ UNCHANGED <<up, bill>> => Issued'
  BY DEF Issued

\* What a handler's step may leave as it was.
LEMMA RequestQuiet ==
  ASSUME NEW w, Request(w)
  PROVE  /\ UNCHANGED <<up, bill>> \/ \E b \in BillIds, paid \in BOOLEAN : SetBillStatus(w, b, paid)
         /\ UNCHANGED <<pass, ask>> \/ StartPass(w)
<1>1. CASE \E p \in scene.pays : IngestMail(w, p) \/ \E form \in Forms : CreateTransaction(w, p, form)
  BY <1>1 DEF IngestMail, CreateTransaction, Insert
<1>2. CASE \E i \in Rows : \/ \E form \in Forms : \E p \in scene.pays \cup {txn[i].pay} : UpdateTransaction(w, i, p, form)
                           \/ UnlinkTransfer(w, i) \/ ApplyReading(w, i) \/ DismissReading(w, i)
  BY <1>2 DEF UpdateTransaction, UnlinkTransfer, ApplyReading, DismissReading, Local, Keep, tables
<1>3. CASE \E ids \in SUBSET Rows : \/ \E cat \in scene.cats : BulkCategorize(w, ids, cat)
                                    \/ \E kind \in Marks : BulkMarkTransfer(w, ids, kind)
                                    \/ DeleteTransactions(w, ids)
  BY <1>3 DEF BulkCategorize, BulkMarkTransfer, DeleteTransactions, Keep
<1>4. CASE \/ \E p \in Pairs : Dismiss(w, p) \/ Confirm(w, p)
           \/ \E i, j \in Ids : LinkTransfer(w, i, j)
           \/ \E m \in scene.mails : BillMail(w, m)
  BY <1>4 DEF Dismiss, Confirm, LinkTransfer, BillMail, Local, tables
<1>5. CASE \E b \in BillIds, paid \in BOOLEAN : SetBillStatus(w, b, paid)
  BY <1>5 DEF SetBillStatus
<1>6. CASE Scan(w) \/ StartPass(w) \/ DashboardExpenses(w)
  BY <1>6 DEF Scan, StartPass, DashboardExpenses, Local, tables
<1> QED
  BY <1>1, <1>2, <1>3, <1>4, <1>5, <1>6 DEF Request

LEMMA StepQuiet ==
  ASSUME NEW w, Step(w)
  PROVE  (UNCHANGED <<up, bill>> \/ UpsertBill(w)) /\ UNCHANGED <<pass, ask>>
<1>1. CASE MarkBroker(w) \/ EditWrite(w) \/ Spread(w) \/ LinkLeg(w) \/ UnlinkClear(w) \/ ApplyWrite(w) \/ ApplyMark(w)
  BY <1>1 DEF MarkBroker, EditWrite, Spread, LinkLeg, UnlinkClear, ApplyWrite, ApplyMark, Keep
<1>2. CASE Suggest(w) \/ MarkConfirmed(w) \/ UpsertBill(w)
  BY <1>2 DEF Suggest, MarkConfirmed, UpsertBill
<1>3. CASE UnlinkLook(w) \/ DashboardTransfers(w) \/ Arrived(w) \/ OfferBills(w) \/ Respond(w)
  BY <1>3 DEF UnlinkLook, DashboardTransfers, Arrived, OfferBills, Respond, Local, tables
<1> QED
  BY <1>1, <1>2, <1>3 DEF Step

\* Handlers keep the invariant.
LEMMA HandlerKeeps ==
  ASSUME Inv, NEW w \in Workers, Request(w) \/ Step(w)
  PROVE  Inv'
<1>0. Store /\ Issued /\ Locals /\ Passes
  BY DEF Inv
<1>1. Handled(w) /\ Locals'
  BY RequestHandled, StepHandled, RequestLocals, StepLocals
<1>2. /\ \/ UNCHANGED <<up, bill>> \/ UpsertBill(w)
         \/ \E b \in BillIds, paid \in BOOLEAN : SetBillStatus(w, b, paid)
      /\ UNCHANGED <<pass, ask>> \/ StartPass(w)
  BY RequestQuiet, StepQuiet
<1>3. Issued'
  <2>1. CASE \E b \in BillIds, paid \in BOOLEAN : SetBillStatus(w, b, paid)
    <3>1. PICK b \in BillIds, paid \in BOOLEAN : SetBillStatus(w, b, paid)
      BY <2>1
    <3> DEFINE row == bill[b]
               new == [row EXCEPT !.paid = paid]
    <3>2. bill' = [bill EXCEPT ![b] = new] /\ UNCHANGED up
      BY <3>1 DEF SetBillStatus
    <3>3. IsBill(row) /\ DOMAIN bill = BillIds
      BY <1>0 DEF Issued
    <3> HIDE DEF row
    <3>4. DOMAIN new = DOMAIN row /\ new.id = row.id /\ new.of = row.of
      BY <3>3 DEF IsBill
    <3> HIDE DEF new
    <3>5. \A a \in BillIds : DOMAIN bill'[a] = DOMAIN bill[a] /\ bill'[a].id = bill[a].id /\ bill'[a].of = bill[a].of
      BY <3>2, <3>3, <3>4 DEF row
    <3>6. DOMAIN bill' = BillIds /\ up' \in BOOLEAN /\ (up' => up)
      BY <1>0, <3>2, <3>3 DEF Issued
    <3> QED
      BY <1>0, <3>5, <3>6, SameIssued
  <2> QED
    BY <1>0, <1>2, <2>1, QuietBills, UpsertIssued
<1>4. Passes'
  BY <1>0, <1>1, <1>2, QuietPasses, StartPasses DEF Handled
<1> QED
  BY <1>1, <1>3, <1>4 DEF Inv, Handled

\* So do the goroutines of the pass.
LEMMA PassKeeps ==
  ASSUME Inv, NEW p \in Passers, PassStep(p)
  PROVE  Inv'
<1>0. Store /\ Issued /\ Locals /\ Passes
  BY DEF Inv
<1>1. Store' /\ UNCHANGED <<scene, up, bill, work>>
  BY PassHandled
<1>2. Passes'
  BY <1>0, ClaimPasses, AskPasses, FillPasses, StorePasses DEF PassStep
<1> QED
  BY <1>0, <1>1, <1>2, QuietBills, SameLocals DEF Inv

\* And the end of a pass, the opening of the database, and a crash.
LEMMA ServerKeeps ==
  ASSUME Inv, EndPass \/ Open \/ Crash
  PROVE  Inv'
<1>0. Store /\ Issued /\ Locals /\ Passes
  BY DEF Inv
<1>1. Store'
  BY <1>0, SameStore DEF EndPass, Open, Crash, tables
<1>2. Issued'
  <2>1. CASE Open
    BY <1>0, <2>1, OpenIssued
  <2>2. CASE EndPass
    BY <1>0, <2>2, QuietBills DEF EndPass, tables
  <2>3. CASE Crash
    BY <1>0, <2>3 DEF Crash, tables, Issued
  <2> QED
    BY <2>1, <2>2, <2>3
<1>3. Locals'
  <2>1. CASE Open \/ EndPass
    BY <1>0, <2>1, SameLocals DEF Open, EndPass
  <2>2. CASE Crash
    <3>1. work' = [w \in Workers |-> Off]
      BY <2>2 DEF Crash
    <3>2. \A w \in Workers : Fits(work[w])'
      BY <3>1 DEF Fits, Off, Legs
    <3> QED
      BY <3>1, <3>2 DEF Locals
  <2> QED
    BY <2>1, <2>2
<1>4. Passes'
  <2>1. CASE Open
    BY <1>0, <2>1, QuietPasses DEF Open, StaysUnread
  <2>2. CASE EndPass
    <3>1. pass' = NoPass /\ UNCHANGED ask /\ \A p \in Passers : ask[p].pc = "rest"
      BY <2>2 DEF EndPass
    <3>2. \A p \in Passers : DOMAIN ask[p] = {"pc", "todo", "read"} /\ ask[p].todo = {}
      BY <1>0, <3>1 DEF Passes, Asking, Reading
    <3> QED
      BY <1>0, <3>1, <3>2, NoPasses DEF Passes
  <2>3. CASE Crash
    <3>1. pass' = NoPass /\ ask' = [p \in Passers |-> Idle]
      BY <2>3 DEF Crash
    <3> QED
      BY <3>1, NoPasses DEF Idle
  <2> QED
    BY <2>1, <2>2, <2>3
<1> QED
  BY <1>1, <1>2, <1>3, <1>4 DEF Inv

\* Every step keeps the invariant.
LEMMA NextKeeps == Inv /\ [Next]_vars => Inv'
<1> SUFFICES ASSUME Inv, [Next]_vars PROVE Inv'
  OBVIOUS
<1>1. CASE UNCHANGED vars
  <2>1. Store /\ Issued /\ Locals /\ Passes /\ UNCHANGED <<scene, up, txn, next, sugg, bill, pass, ask, work>>
    BY <1>1 DEF Inv, vars, tables
  <2> QED
    BY <2>1, SameStore, QuietBills, SameLocals, QuietPasses DEF Inv, StaysUnread
<1>2. CASE Next
  BY <1>2, HandlerKeeps, PassKeeps, ServerKeeps DEF Next
<1> QED
  BY <1>1, <1>2

LEMMA Always == Spec => []Inv
  BY InitInv, NextKeeps, PTL DEF Spec

\* The invariant is more than the types.
LEMMA InvTypes == Inv => TypeOK
<1> SUFFICES ASSUME Inv PROVE TypeOK
  OBVIOUS
<1>0. Store /\ Issued
  BY DEF Inv
<1>1. ASSUME NEW i \in Ids
      PROVE  IF There(i) THEN /\ i < next /\ txn[i].type \in Types
                              /\ txn[i].link # 0 => There(txn[i].link) /\ txn[i].link # i
                              /\ IF txn[i].type = "transfer" THEN txn[i].kind \in Kinds ELSE txn[i].kind = ""
             ELSE txn[i] = NoRow
  BY <1>0 DEF Store, IsRow, Consistent
<1>2. \A p \in Pairs : sugg[p] # "none" => {p[1], p[2]} \subseteq Rows
  BY <1>0 DEF Store, Rows, There
<1> QED
  BY <1>0, <1>1, <1>2 DEF TypeOK, Store, Issued

\* moneyapi: a link, a suggestion and a reading are of rows there are, whoever deletes
\* or links between two statements; only transfers have a kind; and while the server
\* runs a statement has one bill.
THEOREM TypeCorrect == Spec => []TypeOK
  BY Always, InvTypes, PTL

-----------------------------------------------------------------------------
(* What no step does.                                                      *)

\* A handler that is asked something was idle.
LEMMA RequestIdle ==
  ASSUME NEW w, Request(w)
  PROVE  work[w].pc = "idle"
<1>1. CASE \E p \in scene.pays : IngestMail(w, p) \/ \E form \in Forms : CreateTransaction(w, p, form)
  BY <1>1 DEF IngestMail, CreateTransaction, Begin
<1>2. CASE \E i \in Rows : \/ \E form \in Forms : \E p \in scene.pays \cup {txn[i].pay} : UpdateTransaction(w, i, p, form)
                           \/ UnlinkTransfer(w, i) \/ ApplyReading(w, i) \/ DismissReading(w, i)
  BY <1>2 DEF UpdateTransaction, UnlinkTransfer, ApplyReading, DismissReading, Begin
<1>3. CASE \E ids \in SUBSET Rows : \/ \E cat \in scene.cats : BulkCategorize(w, ids, cat)
                                    \/ \E kind \in Marks : BulkMarkTransfer(w, ids, kind)
                                    \/ DeleteTransactions(w, ids)
  BY <1>3 DEF BulkCategorize, BulkMarkTransfer, DeleteTransactions, Begin
<1>4. CASE \/ \E p \in Pairs : Dismiss(w, p) \/ Confirm(w, p)
           \/ \E i, j \in Ids : LinkTransfer(w, i, j)
           \/ \E m \in scene.mails : BillMail(w, m)
           \/ \E b \in BillIds, paid \in BOOLEAN : SetBillStatus(w, b, paid)
           \/ Scan(w) \/ StartPass(w) \/ DashboardExpenses(w)
  BY <1>4 DEF Dismiss, Confirm, LinkTransfer, BillMail, SetBillStatus, Scan, StartPass, DashboardExpenses, Begin
<1> QED
  BY <1>1, <1>2, <1>3, <1>4 DEF Request

\* What w remembers changes by w's own steps alone.
LEMMA OwnWork ==
  ASSUME Locals, NEW v \in Workers, Request(v) \/ Step(v)
  PROVE  \A w \in Workers \ {v} : work'[w] = work[w]
<1>1. ASSUME NEW me, Set(v, me) PROVE \A w \in Workers \ {v} : work'[w] = work[w]
  BY <1>1 DEF Set, Locals
<1>2. CASE \E p \in scene.pays : IngestMail(v, p) \/ \E form \in Forms : CreateTransaction(v, p, form)
  BY <1>1, <1>2 DEF IngestMail, CreateTransaction
<1>3. CASE \E i \in Rows : \/ \E form \in Forms : \E p \in scene.pays \cup {txn[i].pay} : UpdateTransaction(v, i, p, form)
                           \/ UnlinkTransfer(v, i) \/ ApplyReading(v, i) \/ DismissReading(v, i)
  BY <1>1, <1>3 DEF UpdateTransaction, UnlinkTransfer, ApplyReading, DismissReading, Local
<1>4. CASE \E ids \in SUBSET Rows : \/ \E cat \in scene.cats : BulkCategorize(v, ids, cat)
                                    \/ \E kind \in Marks : BulkMarkTransfer(v, ids, kind)
                                    \/ DeleteTransactions(v, ids)
  BY <1>1, <1>4 DEF BulkCategorize, BulkMarkTransfer, DeleteTransactions
<1>5. CASE \/ \E p \in Pairs : Dismiss(v, p) \/ Confirm(v, p)
           \/ \E i, j \in Ids : LinkTransfer(v, i, j)
           \/ \E m \in scene.mails : BillMail(v, m)
           \/ \E b \in BillIds, paid \in BOOLEAN : SetBillStatus(v, b, paid)
           \/ Scan(v) \/ StartPass(v) \/ DashboardExpenses(v)
  BY <1>1, <1>5 DEF Dismiss, Confirm, LinkTransfer, BillMail, SetBillStatus, Scan, StartPass, DashboardExpenses, Local
<1>6. CASE MarkBroker(v) \/ EditWrite(v) \/ Spread(v) \/ ApplyWrite(v) \/ ApplyMark(v) \/ UpsertBill(v)
  BY <1>1, <1>6 DEF MarkBroker, EditWrite, Spread, ApplyWrite, ApplyMark, UpsertBill
<1>7. CASE Suggest(v) \/ MarkConfirmed(v) \/ LinkLeg(v) \/ UnlinkClear(v)
  BY <1>1, <1>7 DEF Suggest, MarkConfirmed, LinkLeg, UnlinkClear
<1>8. CASE UnlinkLook(v) \/ DashboardTransfers(v) \/ Arrived(v) \/ OfferBills(v) \/ Respond(v)
  BY <1>1, <1>8 DEF UnlinkLook, DashboardTransfers, Arrived, OfferBills, Respond, Local
<1> QED
  BY <1>2, <1>3, <1>4, <1>5, <1>6, <1>7, <1>8 DEF Request, Step

\* So a change is a step of one's own, or a crash.
LEMMA StepOf ==
  ASSUME Inv, [Next]_vars, NEW w \in Workers, work'[w] # work[w], work[w].pc # "idle"
  PROVE  Step(w) \/ Crash
<1>1. Locals
  BY DEF Inv
<1>2. CASE \E v \in Workers : Request(v) \/ Step(v)
  BY <1>1, <1>2, OwnWork, RequestIdle
<1>3. CASE \E p \in Passers : PassStep(p)
  BY <1>3, PassHandled
<1>4. CASE EndPass \/ Open \/ UNCHANGED vars
  BY <1>4 DEF EndPass, Open, vars
<1> QED
  BY <1>2, <1>3, <1>4 DEF Next

\* Only a pass gives a reading to a row that has none.
LEMMA ReadByPass ==
  ASSUME Inv, [Next]_vars, NEW i \in Ids, txn[i].read = None, txn'[i].read # None
  PROVE  \E p \in Passers : StoreReading(p)
<1>0. Store /\ Passes
  BY DEF Inv
<1>1. CASE \E v \in Workers : Request(v) \/ Step(v)
  BY <1>1, RequestHandled, StepHandled DEF Handled, StaysUnread
<1>2. CASE \E p \in Passers : PassStep(p)
  <2>1. PICK p \in Passers : PassStep(p)
    BY <1>2
  <2>2. CASE FillEmpty(p)
    BY <1>0, <2>2, FillEffect DEF StaysUnread
  <2>3. CASE Claim(p) \/ NothingLeft(p) \/ Ask(p) \/ AskFails(p)
    BY <2>3 DEF Claim, NothingLeft, Ask, AskFails
  <2> QED
    BY <2>1, <2>2, <2>3 DEF PassStep
<1>3. CASE EndPass \/ Open \/ Crash \/ UNCHANGED vars
  BY <1>3 DEF EndPass, Open, Crash, vars, tables
<1> QED
  BY <1>1, <1>2, <1>3 DEF Next

\* A row that a pass wrote to differs in the columns that it fills.
LEMMA FilledColumns ==
  ASSUME NEW old, IsRow(old), NEW new,
         \/ new = old
         \/ \E cat, merch : new = [old EXCEPT !.cat = cat, !.merch = merch]
         \/ \E read : new = [old EXCEPT !.read = read]
  PROVE  new = [old EXCEPT !.cat = new.cat, !.merch = new.merch, !.read = new.read]
<1>0. old = [c \in Columns |-> old[c]]
  BY DEF IsRow
<1>1. CASE new = old
  BY <1>0, <1>1 DEF Columns
<1>2. CASE \E cat, merch : new = [old EXCEPT !.cat = cat, !.merch = merch]
  BY <1>0, <1>2 DEF Columns
<1>3. CASE \E read : new = [old EXCEPT !.read = read]
  BY <1>0, <1>3 DEF Columns
<1> QED
  BY <1>1, <1>2, <1>3

\* A goroutine of the pass writes over nothing.
LEMMA PassFills ==
  ASSUME Inv, NEW p \in Passers, PassStep(p), NEW i \in Rows
  PROVE  LET old == txn[i]
             new == txn'[i]
         IN /\ old.cat # None => new.cat = old.cat
            /\ old.merch # "" => new.merch = old.merch
            /\ old.read # None => new.read = old.read
            /\ new = [old EXCEPT !.cat = new.cat, !.merch = new.merch, !.read = new.read]
<1> DEFINE old == txn[i]
           new == txn'[i]
<1>0. Store /\ Passes /\ i \in Ids /\ There(i) /\ IsRow(old)
  BY DEF Inv, Rows, Store, There
<1>1. CASE new = old
  <2>1. new = [old EXCEPT !.cat = new.cat, !.merch = new.merch, !.read = new.read]
    BY <1>0, <1>1, FilledColumns
  <2> QED
    BY <1>1, <2>1
<1>2. CASE FillEmpty(p) /\ new # old
  <2>1. PICK cat, merch : /\ new = [old EXCEPT !.cat = cat, !.merch = merch]
                          /\ old.cat # None => cat = old.cat
                          /\ old.merch # "" => merch = old.merch
    BY <1>0, <1>2, FillEffect
  <2> HIDE DEF old, new
  <2>2. new = [old EXCEPT !.cat = new.cat, !.merch = new.merch, !.read = new.read]
    BY <1>0, <2>1, FilledColumns
  <2>3. new.cat = cat /\ new.merch = merch /\ new.read = old.read
    BY <1>0, <2>1 DEF IsRow, Columns
  <2> QED
    BY <2>1, <2>2, <2>3 DEF old, new
<1>3. CASE StoreReading(p) /\ new # old
  <2>1. PICK read : new = [old EXCEPT !.read = read] /\ i = Newest(ask[p].todo) /\ i \in ask[p].todo
    BY <1>0, <1>3, StoredEffect
  <2>2. old.read = None
    BY <1>0, <2>1 DEF Passes, Asking
  <2> HIDE DEF old, new
  <2>3. new = [old EXCEPT !.cat = new.cat, !.merch = new.merch, !.read = new.read]
    <3>1. \E r : new = [old EXCEPT !.read = r]
      BY <2>1
    <3>2. IsRow(old)
      BY <1>0
    <3> QED
      BY <3>1, <3>2, FilledColumns
  <2>4. new.cat = old.cat /\ new.merch = old.merch
    BY <1>0, <2>1 DEF IsRow, Columns
  <2> QED
    BY <2>2, <2>3, <2>4 DEF old, new
<1>4. CASE Claim(p) \/ NothingLeft(p) \/ Ask(p) \/ AskFails(p)
  <2>1. new = old
    BY <1>4 DEF Claim, NothingLeft, Ask, AskFails
  <2> QED
    BY <1>1, <2>1
<1> QED
  BY <1>1, <1>2, <1>3, <1>4 DEF PassStep

\* txnclassify/run.go: a pass fills what is empty, as it is when it writes, reads a
\* row once, and leaves the rest of it alone, whatever handlers do to the rows while
\* the model is being asked.
THEOREM PassesOnlyFill == Spec => PassOnlyFills
<1> DEFINE A == (\E p \in Passers : ask'[p] # ask[p]) /\ up' /\ pass.on =>
       \A i \in Rows :
         LET old == txn[i]
             new == txn'[i]
         IN /\ old.cat # None => new.cat = old.cat
            /\ old.merch # "" => new.merch = old.merch
            /\ old.read # None => new.read = old.read
            /\ new = [old EXCEPT !.cat = new.cat, !.merch = new.merch, !.read = new.read]
<1>1. Inv /\ [Next]_vars => [A]_vars
  <2> SUFFICES ASSUME Inv, [Next]_vars, \E p \in Passers : ask'[p] # ask[p], up', pass.on, NEW i \in Rows
               PROVE  LET old == txn[i]
                          new == txn'[i]
                      IN /\ old.cat # None => new.cat = old.cat
                         /\ old.merch # "" => new.merch = old.merch
                         /\ old.read # None => new.read = old.read
                         /\ new = [old EXCEPT !.cat = new.cat, !.merch = new.merch, !.read = new.read]
    BY Zenon
  <2>1. CASE \E p \in Passers : PassStep(p)
    BY <2>1, PassFills
  <2>2. CASE \E v \in Workers : Request(v) \/ Step(v)
    <3>1. UNCHANGED ask \/ \E v \in Workers : StartPass(v)
      BY <2>2, RequestQuiet, StepQuiet
    <3> QED
      BY <3>1 DEF StartPass
  <2>3. CASE EndPass \/ Open \/ Crash \/ UNCHANGED vars
    BY <2>3 DEF EndPass, Open, Crash, vars
  <2> QED
    BY <2>1, <2>2, <2>3 DEF Next
<1> QED
  BY <1>1, Always, PTL DEF Spec, PassOnlyFills

\* txnclassify/run.go: a disagreement or a doubt is put away only by a person, or by a
\* change of the row's type, be it while the pass was reading it.
THEOREM DoubtsStayVisible == Spec => HiddenOnlyByChoice
<1> DEFINE A == \A i \in Ids : Hidden(txn'[i]) /\ ~Hidden(txn[i]) =>
       \/ txn'[i].type # txn[i].type
       \/ txn[i].read # None
       \/ pass.on /\ pass.loaded[i].type # txn[i].type
<1>1. Inv /\ [Next]_vars => [A]_vars
  <2> SUFFICES ASSUME Inv, [Next]_vars, NEW i \in Ids, Hidden(txn'[i]),
                      txn'[i].type = txn[i].type, txn[i].read = None
               PROVE  pass.on /\ pass.loaded[i].type # txn[i].type
    OBVIOUS
  <2>0. Store /\ Passes
    BY DEF Inv
  <2>1. txn'[i].read # None /\ txn'[i].read.applied
        /\ (txn'[i].read.nature # txn'[i].type \/ txn'[i].read.review)
    BY DEF Hidden
  <2>2. PICK p \in Passers : StoreReading(p)
    BY <2>1, ReadByPass
  <2> DEFINE read == ask[p].read
             applied == read.nature = pass.loaded[i].type /\ ~read.review
             new == [read EXCEPT !.applied = applied]
  <2>3. i = Newest(ask[p].todo)
    BY <2>0, <2>1, <2>2, StoredEffect
  <2>4. txn'[i].read = new
    <3>1. There(i)
      BY <2>0, <2>1, <2>2, <2>3, StoredEffect
    <3>2. txn'[i] = [txn[i] EXCEPT !.read = new]
      BY <2>0, <2>2, <2>3, <3>1, StoredEffect
    <3> DEFINE row == txn[i]
    <3>3. IsRow(row)
      BY <2>0, <3>1 DEF Store
    <3>4. txn'[i] = [row EXCEPT !.read = new]
      BY <3>2
    <3> HIDE DEF row, new
    <3> QED
      BY <3>3, <3>4 DEF IsRow, Columns
  <2>5. ask[p].pc = "store" /\ Asking(ask[p])
    BY <2>0, <2>2 DEF StoreReading, Passes
  <2>6. pass.on /\ IsReading(read)
    BY <2>5 DEF Asking
  <2> HIDE DEF read, applied
  <2>7. new.applied = applied /\ new.nature = read.nature /\ new.review = read.review
    BY <2>6 DEF IsReading
  <2>8. applied /\ (read.nature # txn[i].type \/ read.review)
    BY <2>1, <2>4, <2>7
  <2> QED
    BY <2>6, <2>8 DEF applied
<1> QED
  BY <1>1, Always, PTL DEF Spec, HiddenOnlyByChoice

\* What a step of a handler that is at one of these places is.
LEMMA StepPc ==
  ASSUME NEW w, Step(w)
  PROVE  /\ work[w].pc = "bill" => UpsertBill(w)
         /\ work[w].pc = "offer" => OfferBills(w)
         /\ work[w].pc = "moved" => DashboardTransfers(w)
<1>1. CASE MarkBroker(w) \/ EditWrite(w) \/ Spread(w) \/ Suggest(w) \/ MarkConfirmed(w)
  BY <1>1 DEF MarkBroker, EditWrite, Spread, Suggest, MarkConfirmed
<1>2. CASE LinkLeg(w) \/ UnlinkLook(w) \/ UnlinkClear(w) \/ Arrived(w)
  BY <1>2 DEF LinkLeg, UnlinkLook, UnlinkClear, Arrived
<1>3. CASE ApplyWrite(w) \/ ApplyMark(w) \/ Respond(w)
  BY <1>3 DEF ApplyWrite, ApplyMark, Respond
<1>4. CASE UpsertBill(w) \/ OfferBills(w) \/ DashboardTransfers(w)
  BY <1>4 DEF UpsertBill, OfferBills, DashboardTransfers
<1> QED
  BY <1>1, <1>2, <1>3, <1>4 DEF Step

\* A crash forgets what handlers were doing, and leaves the tables alone.
LEMMA CrashForgets == Crash => UNCHANGED tables /\ \A w \in Workers : work'[w].pc = "idle"
  BY DEF Crash, Off

\* Only a scan suggests, and it inserts nothing over what there is.
LEMMA DecidedStays ==
  ASSUME Inv, [Next]_vars, NEW p \in Pairs, sugg[p] \in {"dismissed", "confirmed"}
  PROVE  sugg'[p] # "pending"
<1>0. DOMAIN sugg = Pairs
  BY DEF Inv, Store
<1>1. CASE \E w \in Workers : Request(w)
  <2>1. PICK w \in Workers : Request(w)
    BY <1>1
  <2>2. CASE \E q \in scene.pays : IngestMail(w, q) \/ \E form \in Forms : CreateTransaction(w, q, form)
    BY <2>2 DEF IngestMail, CreateTransaction, Insert
  <2>3. CASE \E i \in Rows : \/ \E form \in Forms : \E q \in scene.pays \cup {txn[i].pay} : UpdateTransaction(w, i, q, form)
                             \/ UnlinkTransfer(w, i) \/ ApplyReading(w, i) \/ DismissReading(w, i)
    BY <2>3 DEF UpdateTransaction, UnlinkTransfer, ApplyReading, DismissReading, Local, Keep, tables
  <2>4. CASE \E ids \in SUBSET Rows : \/ \E cat \in scene.cats : BulkCategorize(w, ids, cat)
                                      \/ \E kind \in Marks : BulkMarkTransfer(w, ids, kind)
    BY <2>4 DEF BulkCategorize, BulkMarkTransfer, Keep
  <2>5. CASE \E ids \in SUBSET Rows : DeleteTransactions(w, ids)
    BY <2>5 DEF DeleteTransactions
  <2>6. CASE \E q \in Pairs : Dismiss(w, q) \/ Confirm(w, q)
    BY <1>0, <2>6 DEF Dismiss, Confirm, Local, tables
  <2>7. CASE \/ \E i, j \in Ids : LinkTransfer(w, i, j)
             \/ \E m \in scene.mails : BillMail(w, m)
             \/ \E b \in BillIds, paid \in BOOLEAN : SetBillStatus(w, b, paid)
             \/ Scan(w) \/ StartPass(w) \/ DashboardExpenses(w)
    BY <2>7 DEF LinkTransfer, BillMail, SetBillStatus, Scan, StartPass, DashboardExpenses, Local, tables
  <2> QED
    BY <2>1, <2>2, <2>3, <2>4, <2>5, <2>6, <2>7 DEF Request
<1>2. CASE \E w \in Workers : Step(w)
  <2>1. PICK w \in Workers : Step(w)
    BY <1>2
  <2>2. CASE Suggest(w)
    <3>1. PICK q : UNCHANGED sugg \/ sugg' = [sugg EXCEPT ![q] = IF @ = "none" THEN "pending" ELSE @]
      BY <2>2 DEF Suggest
    <3> QED
      BY <1>0, <3>1
  <2>3. CASE MarkConfirmed(w)
    BY <1>0, <2>3 DEF MarkConfirmed
  <2>4. CASE MarkBroker(w) \/ EditWrite(w) \/ Spread(w) \/ LinkLeg(w) \/ UnlinkClear(w)
    BY <2>4 DEF MarkBroker, EditWrite, Spread, LinkLeg, UnlinkClear, Keep
  <2>5. CASE ApplyWrite(w) \/ ApplyMark(w) \/ UpsertBill(w)
    BY <2>5 DEF ApplyWrite, ApplyMark, UpsertBill, Keep
  <2>6. CASE UnlinkLook(w) \/ DashboardTransfers(w) \/ Arrived(w) \/ OfferBills(w) \/ Respond(w)
    BY <2>6 DEF UnlinkLook, DashboardTransfers, Arrived, OfferBills, Respond, Local, tables
  <2> QED
    BY <2>1, <2>2, <2>3, <2>4, <2>5, <2>6 DEF Step
<1>3. CASE \E q \in Passers : PassStep(q)
  BY <1>3, PassHandled
<1>4. CASE EndPass \/ Open \/ Crash \/ UNCHANGED vars
  BY <1>4 DEF EndPass, Open, Crash, vars, tables
<1> QED
  BY <1>1, <1>2, <1>3, <1>4 DEF Next

\* A statement that is sent again leaves the bill paid, or not, and takes no figure from it.
LEMMA BillsKept ==
  ASSUME Inv, [Next]_vars, NEW w \in Workers, work[w].pc = "bill", work'[w] # work[w],
         NEW b \in BillIds, bill[b].id
  PROVE  bill'[b].paid = bill[b].paid /\ (bill[b].due # None => bill'[b].due # None)
<1>1. Step(w) \/ Crash
  BY StepOf
<1>2. CASE Step(w)
  BY <1>2, StepPc, UpsertIssued
<1>3. CASE Crash
  BY <1>3, CrashForgets DEF tables
<1> QED
  BY <1>1, <1>2, <1>3

\* The bills that come before an exact one come before one that is not.
LEMMA ExactFirst ==
  ASSUME NEW p, NEW b \in Due(p) \ Offered(p), Exact(p, b), NEW c \in Offered(p)
  PROVE  Exact(p, c)
<1> DEFINE better(x, y) == IF Exact(p, x) = Exact(p, y) THEN x < y ELSE Exact(p, x)
           B(y) == {x \in Due(p) : better(x, y)}
<1>1. Offered(p) = {y \in Due(p) : Cardinality(B(y)) < MaxOffered}
  BY Zenon DEF Offered
<1>2. SUFFICES ASSUME ~Exact(p, c) PROVE FALSE
  OBVIOUS
<1>3. B(b) \subseteq B(c)
  <2>1. ASSUME NEW x \in B(b) PROVE x \in B(c)
    <3>1. Exact(p, x)
      <4>1. Exact(p, x) \in BOOLEAN
        BY DEF Exact
      <4> QED
        BY <2>1, <4>1
    <3> QED
      BY <1>2, <2>1, <3>1
  <2> HIDE DEF B
  <2> QED
    BY <2>1
<1>4. IsFiniteSet(B(c)) /\ IsFiniteSet(B(b))
  <2>1. B(b) \subseteq BillIds /\ B(c) \subseteq BillIds
    BY DEF Due
  <2> HIDE DEF B
  <2> QED
    BY <2>1, IdsAreNat, FS_Subset
<1> HIDE DEF B
<1>5. Cardinality(B(b)) <= Cardinality(B(c)) /\ Cardinality(B(b)) \in Nat /\ Cardinality(B(c)) \in Nat
  BY <1>3, <1>4, FS_Subset, FS_CardinalityType
<1>6. Cardinality(B(c)) < MaxOffered /\ ~(Cardinality(B(b)) < MaxOffered)
  BY <1>1
<1> QED
  BY <1>5, <1>6, BookkeepingAssumption

\* The bills that a payment is offered.
LEMMA OffersDue ==
  ASSUME Inv, [Next]_vars, NEW w \in Workers, work[w].pc = "offer", work'[w].pc = "answer"
  PROVE  LET p == work[w].pay
             named == work'[w].todo
         IN \A b \in BillIds : /\ b \in named => bill[b].id /\ ~bill[b].paid
                               /\ b \in Due(p) \ named /\ Exact(p, b) => \A c \in named : Exact(p, c)
<1> DEFINE p == work[w].pay
<1>1. Step(w) \/ Crash
  BY StepOf
<1>2. OfferBills(w)
  BY <1>1, StepPc, CrashForgets
<1>3. work'[w].todo = Offered(p)
  <2>0. DOMAIN work = Workers /\ Fits(work[w])
    BY DEF Inv, Locals
  <2>1. work' = [work EXCEPT ![w] = IF Due(p) = {} THEN Off ELSE [work[w] EXCEPT !.pc = "answer", !.todo = Offered(p)]]
    BY <1>2 DEF OfferBills, Local, Set
  <2>2. work'[w] = [work[w] EXCEPT !.pc = "answer", !.todo = Offered(p)]
    BY <2>0, <2>1 DEF Off
  <2> DEFINE me == work[w]
             all == Offered(p)
  <2>3. work'[w] = [me EXCEPT !.pc = "answer", !.todo = all] /\ "todo" \in DOMAIN me
    BY <2>0, <2>2 DEF Fits
  <2> HIDE DEF me, all
  <2>4. work'[w].todo = all
    BY <2>3
  <2> QED
    BY <2>4 DEF all
<1>4. Offered(p) \subseteq Due(p)
  BY Zenon DEF Offered
<1>5. \A b \in Due(p) : bill[b].id /\ ~bill[b].paid
  BY DEF Due
<1> QED
  BY <1>3, <1>4, <1>5, ExactFirst

\* transfers.go, ingest.go, bills.go: what a person or the bank has settled is not
\* taken back by a scan that was under way, by a statement that is sent again, or by
\* what a payment is offered.
THEOREM SettledNotUndone == Spec => SettledStays
<1> DEFINE A ==
       /\ \A p \in Pairs : sugg[p] \in {"dismissed", "confirmed"} => sugg'[p] # "pending"
       /\ \A w \in Workers : work[w].pc = "bill" /\ work'[w] # work[w] =>
            \A b \in BillIds : bill[b].id => /\ bill'[b].paid = bill[b].paid
                                             /\ bill[b].due # None => bill'[b].due # None
       /\ \A w \in Workers : work[w].pc = "offer" /\ work'[w].pc = "answer" =>
            LET p == work[w].pay
                named == work'[w].todo
            IN \A b \in BillIds : /\ b \in named => bill[b].id /\ ~bill[b].paid
                                  /\ b \in Due(p) \ named /\ Exact(p, b) => \A c \in named : Exact(p, c)
<1>1. Inv /\ [Next]_vars => [A]_vars
  <2> SUFFICES ASSUME Inv, [Next]_vars PROVE A
    OBVIOUS
  <2>1. \A p \in Pairs : sugg[p] \in {"dismissed", "confirmed"} => sugg'[p] # "pending"
    BY DecidedStays
  <2>2. \A w \in Workers : work[w].pc = "bill" /\ work'[w] # work[w] =>
          \A b \in BillIds : bill[b].id => /\ bill'[b].paid = bill[b].paid
                                           /\ bill[b].due # None => bill'[b].due # None
    BY BillsKept
  <2>3. \A w \in Workers : work[w].pc = "offer" /\ work'[w].pc = "answer" =>
          LET p == work[w].pay
              named == work'[w].todo
          IN \A b \in BillIds : /\ b \in named => bill[b].id /\ ~bill[b].paid
                                /\ b \in Due(p) \ named /\ Exact(p, b) => \A c \in named : Exact(p, c)
    BY OffersDue
  <2> QED
    BY <2>1, <2>2, <2>3
<1> QED
  BY <1>1, Always, PTL DEF Spec, SettledStays

-----------------------------------------------------------------------------
(* The dashboard.                                                          *)

\* Total is a sum of figures, however they are given.
LEMMA TotalIsSigma ==
  ASSUME NEW T, NEW S, IsFiniteSet(S), NEW h, \A i \in S : h[i] = T[i].pay.amt
  PROVE  Total(T, S) = Sigma(h, S)
<1> DEFINE f == [i \in S |-> T[i].pay.amt]
           Sums(k) == k = [s \in SUBSET S |-> IF s = {} THEN 0
                  ELSE LET x == CHOOSE x \in s : TRUE IN T[x].pay.amt + k[s \ {x}]]
           G == CHOOSE k : Sums(k)
<1>1. Total(T, S) = G[S]
  BY Zenon DEF Total, MapThenSumSet, MapThenFoldSet
<1>2. PICK g : IsFold(g, f, S) /\ Sigma(f, S) = g[S]
  BY SigmaFold
<1>3. \A k : Sums(k) <=> IsFold(k, f, S)
  <2>1. \A s \in SUBSET S : s # {} => f[Pick(s)] = T[Pick(s)].pay.amt
    BY PickIn
  <2> QED
    BY <2>1 DEF IsFold, Pick
<1>4. IsFold(G, f, S)
  <2> HIDE DEF Sums, f
  <2> QED
    BY <1>2, <1>3, Zenon
<1>5. \A s \in SUBSET S : g[s] = G[s]
  <2> HIDE DEF G
  <2>1. S \in SUBSET S
    OBVIOUS
  <2> QED
    BY <1>2, <1>4, <2>1, FoldUnique
<1>6. S \in SUBSET S
  OBVIOUS
<1>7. Total(T, S) = Sigma(f, S)
  BY <1>1, <1>2, <1>5, <1>6
<1>8. \A i \in S : f[i] = h[i]
  OBVIOUS
<1> HIDE DEF f, G
<1> QED
  BY <1>7, <1>8, SigmaSame

\* Totals of rows that can be summed: whole numbers, that fall apart into parts, and
\* depend on the payments alone.
LEMMA TotalParts ==
  ASSUME NEW T, Summable(T), NEW S \in SUBSET Ids, \A i \in S : T[i].pay # None, NEW P
  PROVE  /\ Total(T, S) = Total(T, S \cap P) + Total(T, S \ P)
         /\ Total(T, S \cap P) \in Int /\ Total(T, S \ P) \in Int
<1> DEFINE h == [i \in S |-> T[i].pay.amt]
           Q == S \cap P
           R == S \ P
<1>1. \A i \in S : h[i] = T[i].pay.amt /\ h[i] \in Int
  BY DEF Summable
<1>2. Q \in SUBSET S /\ R = S \ Q
  OBVIOUS
<1> HIDE DEF h, Q, R
<1>3. IsFiniteSet(S) /\ IsFiniteSet(Q) /\ IsFiniteSet(R)
  BY <1>2, IdsAreNat, FS_Subset
<1>4. Total(T, S) = Sigma(h, S)
  BY <1>1, <1>3, TotalIsSigma
<1>5. Total(T, Q) = Sigma(h, Q)
  BY <1>1, <1>2, <1>3, TotalIsSigma
<1>6. Total(T, R) = Sigma(h, R)
  BY <1>1, <1>2, <1>3, TotalIsSigma
<1>7. Sigma(h, S) = Sigma(h, Q) + Sigma(h, S \ Q)
  BY <1>1, <1>2, <1>3, SigmaSplit
<1>8. Sigma(h, Q) \in Int /\ Sigma(h, R) \in Int
  BY <1>1, <1>2, <1>3, SigmaType
<1> QED
  BY <1>2, <1>4, <1>5, <1>6, <1>7, <1>8 DEF Q, R

LEMMA TotalSame ==
  ASSUME NEW T, NEW U, NEW S \in SUBSET Ids, \A i \in S : T[i].pay = U[i].pay
  PROVE  Total(T, S) = Total(U, S)
<1> DEFINE h == [i \in S |-> T[i].pay.amt]
<1>1. \A i \in S : h[i] = T[i].pay.amt /\ h[i] = U[i].pay.amt
  OBVIOUS
<1>2. IsFiniteSet(S)
  BY IdsAreNat, FS_Subset
<1> HIDE DEF h
<1>3. Total(T, S) = Sigma(h, S)
  BY <1>1, <1>2, TotalIsSigma
<1>4. Total(U, S) = Sigma(h, S)
  BY <1>1, <1>2, TotalIsSigma
<1> QED
  BY <1>3, <1>4

\* An outflow is an expense or a transfer of one of the kinds.  With the expenses of one
\* read of the table and the transfers of another, that is so for the rows they share.
LEMMA LinesAddUp ==
  ASSUME NEW T, Summable(T), NEW U, Summable(U)
  PROVE  \E A \in SUBSET (Outflows(T) \ Alike(T, U)), B \in SUBSET (Outflows(U) \ Alike(T, U)) :
           Expenses(T) + Moved(U, Kinds \cup {""})
             = Total(U, Outflows(U) \cap Alike(T, U)) + Total(T, A) + Total(U, B)
<1> DEFINE same == Alike(T, U)
           D == Outflows(T)
           O == Outflows(U)
           S == {i \in D : T[i].type # "transfer"}
           M == {i \in O : U[i].type = "transfer" /\ U[i].kind \in Kinds \cup {""}}
           both == O \cap same
           spent == S \cap same
           moved == M \cap same
           A == S \ same
           B == M \ same
<1>1. Expenses(T) = Total(T, S) /\ Moved(U, Kinds \cup {""}) = Total(U, M)
  BY Zenon DEF Expenses, Moved
<1>2. /\ D \in SUBSET Ids /\ \A i \in D : T[i].pay # None
      /\ O \in SUBSET Ids /\ \A i \in O : U[i].pay # None
  BY DEF Outflows
<1>3. S \in SUBSET Ids /\ \A i \in S : T[i].pay # None
  BY <1>2
<1>4. M \in SUBSET Ids /\ \A i \in M : U[i].pay # None
  BY <1>2
<1>5. both \in SUBSET Ids /\ \A i \in both : U[i].pay # None
  BY <1>2
<1>6. spent \in SUBSET Ids /\ \A i \in spent : T[i].pay = U[i].pay
  BY <1>3 DEF Alike
<1>7. A \in SUBSET (D \ same) /\ B \in SUBSET (O \ same)
  OBVIOUS
<1>8. both \cap spent = spent /\ both \ spent = moved
  <2>1. \A i \in same : i \in D <=> i \in O
    BY DEF Alike, Outflows
  <2>2. \A i \in same : T[i].type = U[i].type
    BY DEF Alike
  <2>3. \A i \in O : U[i].type = "transfer" => U[i].kind \in Kinds \cup {""}
    BY <1>2 DEF Summable, Consistent
  <2> HIDE DEF same, D, O
  <2> QED
    BY <2>1, <2>2, <2>3
<1> HIDE DEF same, D, O, S, M, both, spent, moved, A, B
<1>9. /\ Total(T, S) = Total(T, spent) + Total(T, A)
      /\ Total(T, spent) \in Int /\ Total(T, A) \in Int
  BY <1>3, TotalParts DEF spent, A
<1>10. /\ Total(U, M) = Total(U, moved) + Total(U, B)
       /\ Total(U, moved) \in Int /\ Total(U, B) \in Int
  BY <1>4, TotalParts DEF moved, B
<1>11. Total(U, both) = Total(U, spent) + Total(U, moved)
  <2>1. /\ Total(U, both) = Total(U, both \cap spent) + Total(U, both \ spent)
        /\ Total(U, both \cap spent) \in Int /\ Total(U, both \ spent) \in Int
    BY <1>5, TotalParts, Zenon
  <2> QED
    BY <1>8, <2>1
<1>12. Total(T, spent) = Total(U, spent)
  BY <1>6, TotalSame
<1>13. Expenses(T) + Moved(U, Kinds \cup {""}) = Total(U, both) + Total(T, A) + Total(U, B)
  <2> DEFINE x == Total(U, spent)
             y == Total(U, moved)
             a == Total(T, A)
             b == Total(U, B)
             expenses == Expenses(T)
             transfers == Moved(U, Kinds \cup {""})
             all == Total(U, both)
  <2>1. x \in Int /\ y \in Int /\ a \in Int /\ b \in Int
    BY <1>9, <1>10, <1>12
  <2>2. expenses = x + a /\ transfers = y + b
    BY <1>1, <1>9, <1>10, <1>12, Zenon
  <2>3. all = x + y
    BY <1>11
  <2> HIDE DEF x, y, a, b, expenses, transfers, all
  <2>4. expenses + transfers = all + a + b
    BY <2>1, <2>2, <2>3
  <2> QED
    BY <2>4 DEF a, b, expenses, transfers, all
<1>14. A \in SUBSET (Outflows(T) \ Alike(T, U)) /\ B \in SUBSET (Outflows(U) \ Alike(T, U))
  BY <1>7 DEF D, O, same
<1>15. Expenses(T) + Moved(U, Kinds \cup {""})
         = Total(U, Outflows(U) \cap Alike(T, U)) + Total(T, A) + Total(U, B)
  BY <1>13 DEF both, O, same
<1> QED
  BY <1>14, <1>15, Zenon

\* dashboard.go: the lines of the summary add up to what left the counted accounts,
\* but for the rows that changed between its two statements.
THEOREM CountedOnce == Spec => DashboardCountsOnce
<1> DEFINE Adds(w) ==
      LET saw == work[w].saw
          same == Alike(saw, txn)
      IN \E A \in SUBSET (Outflows(saw) \ same), B \in SUBSET (Outflows(txn) \ same) :
           work'[w].sum = Total(txn, Outflows(txn) \cap same) + Total(saw, A) + Total(txn, B)
<1>1. Inv /\ [Next]_vars =>
        [\A w \in Workers : work[w].pc = "moved" /\ work'[w].pc = "answer" => Adds(w)]_vars
  <2> SUFFICES ASSUME Inv, [Next]_vars, NEW w \in Workers,
                      work[w].pc = "moved", work'[w].pc = "answer"
               PROVE  Adds(w)
    OBVIOUS
  <2>0. Store /\ DOMAIN work = Workers /\ Fits(work[w])
    BY DEF Inv, Locals
  <2>1. Step(w) \/ Crash
    BY StepOf
  <2>2. DashboardTransfers(w)
    BY <2>1, StepPc, CrashForgets
  <2> DEFINE me == work[w]
             saw == me.saw
             moved == Moved(txn, Kinds \cup {""})
  <2>3. work'[w] = [me EXCEPT !.pc = "answer", !.sum = @ + moved]
    BY <2>0, <2>2 DEF DashboardTransfers, Local, Set
  <2>4. "sum" \in DOMAIN me /\ me.sum = Expenses(saw) /\ Summable(saw)
    BY <2>0 DEF Fits
  <2>5. Summable(txn)
    BY <2>0 DEF Store, There, IsRow, IsPay, Summable
  <2> HIDE DEF me, moved, saw
  <2>6. work'[w].sum = Expenses(saw) + moved
    BY <2>3, <2>4
  <2>7. \E A \in SUBSET (Outflows(saw) \ Alike(saw, txn)), B \in SUBSET (Outflows(txn) \ Alike(saw, txn)) :
          work'[w].sum = Total(txn, Outflows(txn) \cap Alike(saw, txn)) + Total(saw, A) + Total(txn, B)
    BY <2>4, <2>5, <2>6, LinesAddUp DEF moved
  <2> QED
    BY <2>7 DEF me, saw
<1> QED
  BY <1>1, Always, PTL DEF Spec, DashboardCountsOnce

-----------------------------------------------------------------------------
(* Both legs of a transfer.                                                *)

Owing == {"leg2", "look1", "clear1", "look2", "clear2"}

\* A link is of a row there is, to another.
LEMMA LinkedThere ==
  ASSUME Store, NEW i \in Ids, txn[i].link # 0
  PROVE  /\ There(i) /\ There(txn[i].link) /\ txn[i].link # i
         /\ txn[i].link \in Ids
  BY NoRowShape DEF Store, There

\* Who alone took a step is who may stop owing.
LEMMA OwedKept ==
  ASSUME NEW v \in Workers, \A w \in Workers \ {v} : work'[w] = work[w],
         NEW i, NEW j, Owed(work, i, j), ~Owed(work', i, j)
  PROVE  /\ work[v].pc \in Owing /\ {i, j} = {work[v].row, work[v].other}
         /\ work'[v].pc \in Owing => {i, j} # {work'[v].row, work'[v].other}
<1>1. PICK w \in Workers : work[w].pc \in Owing /\ {i, j} = {work[w].row, work[w].other}
  BY DEF Owed, Owing
<1>2. \A u \in Workers : work'[u].pc \in Owing => {i, j} # {work'[u].row, work'[u].other}
  BY DEF Owed, Owing
<1>3. w = v
  BY <1>1, <1>2
<1> QED
  BY <1>1, <1>2, <1>3

\* A handler that looks at a leg goes on owing; the others that owe write.
LEMMA QuietOwes ==
  ASSUME Inv, NEW v \in Workers, Request(v) \/ Step(v), ~LinkLeg(v), ~UnlinkClear(v),
         NEW i, NEW j, Owed(work, i, j)
  PROVE  Owed(work', i, j)
<1>0. Locals
  BY DEF Inv
<1>1. SUFFICES ASSUME ~Owed(work', i, j) PROVE FALSE
  OBVIOUS
<1>2. /\ work[v].pc \in Owing /\ {i, j} = {work[v].row, work[v].other}
      /\ work'[v].pc \in Owing => {i, j} # {work'[v].row, work'[v].other}
  BY <1>0, <1>1, OwnWork, OwedKept
<1>3. Step(v)
  BY <1>2, RequestIdle DEF Owing
<1>4. UnlinkLook(v)
  <2>1. ~MarkBroker(v) /\ ~EditWrite(v) /\ ~Spread(v) /\ ~Suggest(v) /\ ~MarkConfirmed(v)
    BY <1>2 DEF Owing, MarkBroker, EditWrite, Spread, Suggest, MarkConfirmed
  <2>2. ~ApplyWrite(v) /\ ~ApplyMark(v) /\ ~UpsertBill(v) /\ ~DashboardTransfers(v)
    BY <1>2 DEF Owing, ApplyWrite, ApplyMark, UpsertBill, DashboardTransfers
  <2>3. ~Arrived(v) /\ ~OfferBills(v) /\ ~Respond(v)
    BY <1>2 DEF Owing, Arrived, OfferBills, Respond
  <2> QED
    BY <1>3, <2>1, <2>2, <2>3 DEF Step
<1> DEFINE me == work[v]
<1>5. DOMAIN work = Workers /\ Fits(me)
  BY <1>0 DEF Locals
<1>6. PICK pc, saw : pc \in Owing /\ work'[v] = [me EXCEPT !.pc = pc, !.saw = saw]
  <2> DEFINE saw == IF There(me.row) THEN Plain(txn[me.row].pay) ELSE "expense"
             pc == IF me.pc = "look1" THEN "clear1" ELSE "clear2"
  <2>1. work'[v] = [me EXCEPT !.pc = pc, !.saw = saw]
    BY <1>4, <1>5 DEF UnlinkLook, Local, Set
  <2>2. pc \in Owing
    BY DEF Owing
  <2> HIDE DEF me, saw, pc
  <2> QED
    BY <2>1, <2>2
<1> HIDE DEF me
<1>7. work'[v].pc = pc /\ work'[v].row = me.row /\ work'[v].other = me.other
  BY <1>5, <1>6 DEF Fits
<1> QED
  BY <1>2, <1>6, <1>7 DEF me

\* While links stay, and what is owed stays owed, no row is abandoned.
LEMMA QuietAbandons ==
  ASSUME Store, SameLinks, NEW i \in Ids, \A j : Owed(work, i, j) => Owed(work', i, j),
         Abandoned(txn', work', i)
  PROVE  Abandoned(txn, work, i)
<1>1. txn'[i].link = txn[i].link /\ txn[i].link # 0
  BY DEF SameLinks, Abandoned, OneSided
<1>2. PICK l \in Ids : l = txn[i].link
  BY <1>1, LinkedThere
<1>3. txn'[l].link = txn[l].link
  BY DEF SameLinks
<1> QED
  BY <1>1, <1>2, <1>3 DEF Abandoned, OneSided

\* Nor by deleting rows, which takes the links to them with it.
LEMMA DeleteAbandons ==
  ASSUME Inv, NEW v \in Workers, Deletes(v), NEW i \in Ids, Abandoned(txn', work', i)
  PROVE  Abandoned(txn, work, i)
<1>0. Store
  BY DEF Inv
<1>1. PICK ids \in SUBSET Rows : DeleteTransactions(v, ids)
  BY DEF Deletes
<1>2. \A k \in Ids : txn'[k].link = IF k \in ids \/ txn[k].link \in ids THEN 0 ELSE txn[k].link
  BY <1>0, <1>1, DeleteStore
<1>3. UNCHANGED work
  BY <1>1 DEF DeleteTransactions
<1>4. txn'[i].link = txn[i].link /\ txn[i].link # 0 /\ i \notin ids
  BY <1>2 DEF Abandoned, OneSided
<1>5. PICK l \in Ids : l = txn[i].link
  BY <1>0, <1>4, LinkedThere
<1>6. l \notin ids
  BY <1>2, <1>4, <1>5
<1>7. txn'[l].link # i
  BY <1>4, <1>5 DEF Abandoned, OneSided
<1>8. txn[l].link # i
  BY <1>2, <1>4, <1>6, <1>7
<1> QED
  BY <1>3, <1>4, <1>5, <1>8 DEF Abandoned, OneSided

\* What a leg that is linked leaves to be done.
LEMMA LinkOwes ==
  ASSUME Inv, NEW v \in Workers, LinkLeg(v)
  PROVE  LET me == work[v]
             fails == There(me.row) /\ ~There(me.other)
         IN /\ me.row \in Ids /\ me.other \in Ids /\ me.row # me.other /\ work'[v].pc # me.pc
            /\ ~fails /\ me.pc = "leg1" => /\ work'[v].pc = "leg2"
                                           /\ work'[v].row = me.other /\ work'[v].other = me.row
<1> DEFINE me == work[v]
           i == me.row
           j == me.other
           fails == There(i) /\ ~There(j)
<1>1. DOMAIN work = Workers /\ Fits(me) /\ me.pc \in {"leg1", "leg2"}
  BY DEF Inv, Locals, LinkLeg
<1>2. work'[v] = IF fails THEN Off
                 ELSE IF me.pc = "leg1" THEN [me EXCEPT !.pc = "leg2", !.row = j, !.other = i]
                 ELSE [me EXCEPT !.pc = IF me.mark THEN "confirmed" ELSE "arrived"]
  BY <1>1 DEF LinkLeg, Set
<1>3. i \in Ids /\ j \in Ids /\ i # j
  BY <1>1 DEF Fits, Legs
<1>4. DOMAIN me = {"pc", "row", "other", "todo", "pay", "form", "cat", "saw", "mark", "sum"}
  BY <1>1 DEF Fits
<1> HIDE DEF me, i, j, fails
<1>5. CASE fails
  BY <1>1, <1>2, <1>3, <1>5 DEF Off, me, i, j, fails
<1>6. CASE ~fails /\ me.pc = "leg1"
  <2>1. work'[v].pc = "leg2" /\ work'[v].row = j /\ work'[v].other = i
    BY <1>2, <1>4, <1>6
  <2> QED
    BY <1>3, <1>6, <2>1 DEF me, i, j, fails
<1>7. CASE ~fails /\ me.pc = "leg2"
  <2>1. work'[v].pc \in {"confirmed", "arrived"}
    BY <1>2, <1>4, <1>7
  <2> QED
    BY <1>3, <1>7, <2>1 DEF me, i, j, fails
<1> QED
  BY <1>1, <1>5, <1>6, <1>7

\* A leg that is linked abandons a row only if its handler was overtaken.
LEMMA LinkAbandons ==
  ASSUME Inv, NEW v \in Workers, LinkLeg(v),
         NEW i \in Ids, Abandoned(txn', work', i), ~Abandoned(txn, work, i)
  PROVE  Overtaken(work[v])
<1> DEFINE me == work[v]
           r == me.row
           o == me.other
           fails == There(r) /\ ~There(o)
<1>0. Store /\ Locals
  BY DEF Inv
<1>1. /\ r \in Ids /\ o \in Ids /\ r # o /\ me.pc \in {"leg1", "leg2"}
      /\ ~fails /\ me.pc = "leg1" => work'[v].pc = "leg2" /\ work'[v].row = o /\ work'[v].other = r
  BY LinkOwes DEF LinkLeg
<1>2. \A w \in Workers \ {v} : work'[w] = work[w]
  BY <1>0, OwnWork DEF Step
<1>3. /\ fails => txn' = txn
      /\ ~fails => /\ txn'[r].link = (IF There(r) THEN o ELSE 0)
                   /\ \A k \in Ids \ {r} : txn'[k].link = txn[k].link
  BY <1>0, LinkStore
<1>4. Overtaken(me) <=> txn[r].link \notin {0, o} \/ (me.pc = "leg2" /\ txn[o].link # r)
  BY <1>1 DEF Overtaken
<1>5. Owing = {"leg2", "look1", "clear1", "look2", "clear2"}
  BY DEF Owing
<1>6. ~fails /\ me.pc = "leg1" => Owed(work', r, o)
  BY <1>1 DEF Owed
<1>7. \A a, b : Owed(work, a, b) /\ ~Owed(work', a, b) => me.pc = "leg2" /\ {a, b} = {r, o}
  BY <1>1, <1>2, <1>5, OwedKept
<1> HIDE DEF me, r, o, fails
<1>8. CASE fails
  <2>1. PICK l : l = txn[i].link /\ OneSided(txn, i) /\ ~Owed(work', i, l) /\ Owed(work, i, l)
    BY <1>3, <1>8 DEF Abandoned
  <2>2. There(i) /\ There(l)
    BY <1>0, <2>1, LinkedThere DEF OneSided
  <2>3. {i, l} = {r, o}
    BY <1>7, <2>1
  <2> QED
    BY <1>8, <2>2, <2>3 DEF fails
<1>9. CASE ~fails /\ i = r
  <2>1. txn'[r].link = o
    BY <1>3, <1>9 DEF Abandoned, OneSided
  <2>2. ~Owed(work', r, o) /\ txn'[o].link # r
    BY <1>9, <2>1 DEF Abandoned, OneSided
  <2>3. me.pc = "leg2" /\ txn[o].link # r
    BY <1>1, <1>3, <1>6, <1>9, <2>2
  <2> QED
    BY <1>4, <2>3 DEF me
<1>10. CASE ~fails /\ i # r
  <2>1. txn'[i].link = txn[i].link /\ txn[i].link # 0
    BY <1>3, <1>10 DEF Abandoned, OneSided
  <2>2. PICK l \in Ids : l = txn[i].link /\ l # i
    BY <1>0, <2>1, LinkedThere
  <2>3. txn'[l].link # i /\ ~Owed(work', i, l)
    BY <2>1, <2>2 DEF Abandoned, OneSided
  <2>4. txn[l].link = i \/ Owed(work, i, l)
    BY <2>1, <2>2 DEF Abandoned, OneSided
  <2>5. CASE Owed(work, i, l)
    <3>1. l = r /\ i = o
      BY <1>7, <1>10, <2>3, <2>5
    <3>2. There(r)
      BY <1>0, <2>1, <2>2, <3>1, LinkedThere
    <3>3. txn'[r].link = o
      BY <1>3, <1>10, <3>2
    <3> QED
      BY <2>3, <3>1, <3>3
  <2>6. CASE txn[l].link = i
    <3>1. l = r
      BY <1>3, <1>10, <2>3, <2>6
    <3>2. There(r)
      BY <1>0, <2>1, <2>2, <3>1, LinkedThere
    <3>3. i # o
      BY <1>3, <1>10, <2>3, <3>1, <3>2
    <3>4. txn[r].link \notin {0, o}
      BY <2>6, <3>1, <3>3, IdsAreNat
    <3> QED
      BY <1>4, <3>4 DEF me
  <2> QED
    BY <2>4, <2>5, <2>6
<1> QED
  BY <1>8, <1>9, <1>10

\* What a leg that is cleared leaves to be done.
LEMMA ClearOwes ==
  ASSUME Inv, NEW v \in Workers, UnlinkClear(v)
  PROVE  LET me == work[v]
         IN /\ me.row \in Ids /\ me.other \in Ids /\ me.row # me.other /\ work'[v].pc # me.pc
            /\ me.pc = "clear1" => /\ work'[v].pc = "look2"
                                   /\ work'[v].row = me.other /\ work'[v].other = me.row
<1> DEFINE me == work[v]
           i == me.row
           j == me.other
<1>1. DOMAIN work = Workers /\ Fits(me) /\ me.pc \in {"clear1", "clear2"}
  BY DEF Inv, Locals, UnlinkClear
<1>2. work'[v] = IF me.pc = "clear2" THEN Off ELSE [me EXCEPT !.pc = "look2", !.row = j, !.other = i]
  BY <1>1 DEF UnlinkClear, Set
<1>3. i \in Ids /\ j \in Ids /\ i # j
  BY <1>1 DEF Fits, Legs
<1>4. DOMAIN me = {"pc", "row", "other", "todo", "pay", "form", "cat", "saw", "mark", "sum"}
  BY <1>1 DEF Fits
<1> HIDE DEF me, i, j
<1>5. CASE me.pc = "clear2"
  BY <1>2, <1>3, <1>5 DEF Off, me, i, j
<1>6. CASE me.pc = "clear1"
  <2>1. work'[v].pc = "look2" /\ work'[v].row = j /\ work'[v].other = i
    BY <1>2, <1>4, <1>6
  <2> QED
    BY <1>3, <1>6, <2>1 DEF me, i, j
<1> QED
  BY <1>1, <1>5, <1>6

\* A leg that is cleared abandons a row only if its handler was overtaken.
LEMMA ClearAbandons ==
  ASSUME Inv, NEW v \in Workers, UnlinkClear(v),
         NEW i \in Ids, Abandoned(txn', work', i), ~Abandoned(txn, work, i)
  PROVE  Overtaken(work[v])
<1> DEFINE me == work[v]
           r == me.row
           o == me.other
<1>0. Store /\ Locals
  BY DEF Inv
<1>1. /\ r \in Ids /\ o \in Ids /\ r # o /\ me.pc \in {"clear1", "clear2"}
      /\ me.pc = "clear1" => work'[v].pc = "look2" /\ work'[v].row = o /\ work'[v].other = r
  BY ClearOwes DEF UnlinkClear
<1>2. \A w \in Workers \ {v} : work'[w] = work[w]
  BY <1>0, OwnWork DEF Step
<1>3. txn'[r].link = 0 /\ \A k \in Ids \ {r} : txn'[k].link = txn[k].link
  BY <1>0, ClearStore
<1>4. Overtaken(me) <=> txn[r].link \notin {0, o} \/ (me.pc = "clear2" /\ txn[o].link = r)
  BY <1>1 DEF Overtaken
<1>5. Owing = {"leg2", "look1", "clear1", "look2", "clear2"}
  BY DEF Owing
<1>6. me.pc = "clear1" => Owed(work', o, r)
  BY <1>1 DEF Owed
<1>7. \A a, b : Owed(work, a, b) /\ ~Owed(work', a, b) => {a, b} = {r, o}
  BY <1>2, OwedKept
<1> HIDE DEF me, r, o
<1>8. i # r
  BY <1>3 DEF Abandoned, OneSided
<1>9. txn'[i].link = txn[i].link /\ txn[i].link # 0
  BY <1>3, <1>8 DEF Abandoned, OneSided
<1>10. PICK l \in Ids : l = txn[i].link
  BY <1>0, <1>9, LinkedThere
<1>11. txn'[l].link # i /\ ~Owed(work', i, l)
  BY <1>9, <1>10 DEF Abandoned, OneSided
<1>12. txn[l].link = i \/ Owed(work, i, l)
  BY <1>9, <1>10 DEF Abandoned, OneSided
<1>13. l = r
  BY <1>3, <1>7, <1>8, <1>11, <1>12
<1>14. CASE i = o
  BY <1>1, <1>4, <1>6, <1>10, <1>11, <1>13, <1>14 DEF me
<1>15. CASE i # o
  <2>1. txn[r].link = i
    BY <1>7, <1>8, <1>11, <1>12, <1>13, <1>15
  <2> QED
    BY <1>4, <1>15, <2>1, IdsAreNat DEF me
<1> QED
  BY <1>14, <1>15

\* transfers.go: a leg is left pointing at a row that does not point back, with nobody
\* about to see to it, only by a crash, by linking over a link to a third row, or by
\* a handler that another has overtaken between its two legs.
THEOREM NobodyAbandons == Spec => OneSidedOnlyByRelink
<1> DEFINE A == \A i \in Ids : Abandoned(txn', work', i) /\ ~Abandoned(txn, work, i) =>
       ~up' \/ \E w \in Workers : work'[w] # work[w] /\ Overtaken(work[w])
<1>1. Inv /\ [Next]_vars => [A]_vars
  <2> SUFFICES ASSUME Inv, [Next]_vars, NEW i \in Ids,
                      Abandoned(txn', work', i), ~Abandoned(txn, work, i), up'
               PROVE  \E w \in Workers : work'[w] # work[w] /\ Overtaken(work[w])
    OBVIOUS
  <2>0. Store
    BY DEF Inv
  <2>1. CASE \E v \in Workers : Request(v) \/ Step(v)
    <3>1. PICK v \in Workers : Request(v) \/ Step(v)
      BY <2>1
    <3>2. CASE LinkLeg(v)
      BY <3>2, LinkAbandons, LinkOwes
    <3>3. CASE UnlinkClear(v)
      BY <3>3, ClearAbandons, ClearOwes
    <3>4. CASE Deletes(v)
      BY <3>4, DeleteAbandons
    <3>5. CASE ~LinkLeg(v) /\ ~UnlinkClear(v) /\ ~Deletes(v)
      <4>1. SameLinks
        BY <3>1, <3>5, RequestHandled, StepHandled DEF Handled
      <4>2. \A j : Owed(work, i, j) => Owed(work', i, j)
        BY <3>1, <3>5, QuietOwes
      <4> QED
        BY <2>0, <4>1, <4>2, QuietAbandons
    <3> QED
      BY <3>2, <3>3, <3>4, <3>5
  <2>2. CASE \E p \in Passers : PassStep(p)
    <3>1. SameLinks /\ UNCHANGED work
      BY <2>2, PassHandled
    <3> QED
      BY <2>0, <3>1, QuietAbandons
  <2>3. CASE EndPass \/ Open \/ UNCHANGED vars
    <3>1. UNCHANGED <<txn, work>>
      BY <2>3 DEF EndPass, Open, vars, tables
    <3>2. SameLinks
      BY <3>1 DEF SameLinks
    <3> QED
      BY <2>0, <3>1, <3>2, QuietAbandons
  <2>4. CASE Crash
    BY <2>4 DEF Crash
  <2> QED
    BY <2>1, <2>2, <2>3, <2>4 DEF Next
<1> QED
  BY <1>1, Always, PTL DEF Spec, OneSidedOnlyByRelink
=============================================================================

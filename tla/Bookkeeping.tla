------------------------------ MODULE Bookkeeping ------------------------------
(***************************************************************************)
(* What happens to transactions once they are in: edits, categories spread *)
(* over a narration, transfers linked and unlinked, the suggestions of a   *)
(* scan, the detached classification pass and its readings, the dashboard, *)
(* and the bills, which a linked payment settles.                          *)
(*                                                                         *)
(* Every statement is atomic (one SQLite connection); the handlers, mail   *)
(* ingestion and the pass's goroutines interleave between statements.      *)
(* Accounts' balances are in module Ledger, deduplication in Ingest.       *)
(***************************************************************************)
EXTENDS Integers, Sequences, FiniteSetsExt

CONSTANTS Workers,       \* requests, and mail passes, at once
          Passers,       \* goroutines of the classification pass
          None,
          Cats,          \* categories
          Counted,       \* accounts counted in the dashboard
          Cards,         \* accounts that are a liability
          MaxOffered,    \* maxSuggestedBills
          Forms,         \* [type, kind, cat, merch] the user may submit
          Marks,         \* kinds of transfer the user marks rows as
          Answers,       \* [cat, nature, kind, merch, review] of the model, unchecked
          MaxRows, MaxBills,     \* bounds: rows and bills ever made
          Scenes         \* bounds: the handlers in play, the rows there are and may be made, and
                         \* the payments, categories and statements that come in

VARIABLES
  scene,      \* never changes
  up,         \* the process is serving
  txn, next,  \* transactions, with their reading; ids are AUTOINCREMENT
  sugg,       \* transfer_suggestions, of a pair of ids
  bill,       \* bills
  pass,       \* the classification job: what it loaded and the groups not yet claimed
  ask,        \* ask[p]: locals of a goroutine of the pass
  work        \* work[w]: locals of a handler

tables == <<txn, next, sugg, bill>>
vars == <<scene, up, tables, pass, ask, work>>

Ids == 1..MaxRows
BillIds == 1..MaxBills
Pairs == {p \in Ids \X Ids : p[1] < p[2]}
Ordered(i, j) == IF i < j THEN <<i, j>> ELSE <<j, i>>

Types == {"income", "expense", "transfer"}
Kinds == {"self", "investment", "family"}

\* A movement: account, whether it is a deposit, amount, date, narration, and
\* whether DetectInvestmentBroker knows the narration.
Pay(acct, in, amt, day, who, broker) ==
  [acct |-> acct, in |-> in, amt |-> amt, day |-> day, who |-> who, broker |-> broker]

ASSUME BookkeepingAssumption ==
  /\ Marks \subseteq Kinds /\ None \notin Cats /\ MaxOffered \in Nat
  /\ {MaxRows, MaxBills} \subseteq Nat
  /\ \A s \in Scenes : /\ {Len(s.rows), Len(s.bills), s.made, s.issued} \subseteq Nat
                       /\ Len(s.rows) + s.made <= MaxRows /\ Len(s.bills) + s.issued <= MaxBills

\* What comes in is well formed.  (The screens offer no other type; the handlers take any.)
IsPay(p) == p # None /\ p.in \in BOOLEAN /\ p.amt \in Int /\ p.day \in Nat
IsBill(b) == DOMAIN b = {"id", "of", "acct", "due", "paid"} /\ b.id \in BOOLEAN
ASSUME InputAssumption ==
  /\ \A s \in Scenes : /\ \A i \in 1..Len(s.rows) : IsPay(s.rows[i])
                       /\ \A i \in 1..Len(s.bills) : IsBill(s.bills[i])
                       /\ (\A p \in s.pays : IsPay(p)) /\ \A m \in s.mails : IsBill(m)
  /\ \A form \in Forms : DOMAIN form = {"type", "kind", "cat", "merch"} /\ form.type \in Types

\* merch: "", what the user wrote, or what the model read.
NoRow == [pay |-> None, type |-> "", kind |-> "", cat |-> None, merch |-> "", link |-> 0, read |-> None]
Plain(p) == IF p.in THEN "income" ELSE "expense"
Row(p) == [NoRow EXCEPT !.pay = p, !.type = Plain(p)]
There(i) == i \in Ids /\ txn[i].pay # None
Rows == {i \in Ids : There(i)}

\* of: issuer, card and period of the statement, None when the period is not known;
\* due: the total, None when it is not stated (the other figures go the same way).
NoBill == [id |-> FALSE, of |-> None, acct |-> None, due |-> None, paid |-> FALSE]

Idle == [pc |-> "rest", todo |-> {}, read |-> None]
Off == [pc |-> "idle", row |-> 0, other |-> 0, todo |-> {}, pay |-> None, form |-> None,
        cat |-> None, saw |-> None, mark |-> FALSE, sum |-> 0]
NoPass == [on |-> FALSE, loaded |-> <<>>, left |-> {}]

Init ==
  /\ scene \in Scenes /\ up = FALSE
  /\ txn = [i \in Ids |-> IF i <= Len(scene.rows) THEN Row(scene.rows[i]) ELSE NoRow]
  /\ next = Len(scene.rows) + 1
  /\ sugg = [p \in Pairs |-> "none"]
  /\ bill = [b \in BillIds |-> IF b <= Len(scene.bills) THEN scene.bills[b] ELSE NoBill]
  /\ pass = NoPass
  /\ ask = [p \in Passers |-> Idle]
  /\ work = [w \in Workers |-> Off]

Set(w, me) == work' = [work EXCEPT ![w] = me]
Local(w, me) == Set(w, me) /\ UNCHANGED <<scene, up, tables, pass, ask>>
Begin(w, op) == up /\ op \in scene.on /\ work[w].pc = "idle"
Keep == UNCHANGED <<scene, up, next, sugg, bill, pass, ask>>

-----------------------------------------------------------------------------
(* Rows entered, ingested, edited and deleted.                             *)

\* normalizeTransferFields
Normal(form) ==
  [form EXCEPT !.kind = IF form.type # "transfer" THEN "" ELSE IF @ \in Kinds THEN @ ELSE "self"]

Fill(row, p, form) ==
  [row EXCEPT !.pay = p, !.type = form.type, !.kind = form.kind, !.cat = form.cat, !.merch = form.merch]

Insert(row) ==
  /\ next < Len(scene.rows) + scene.made + 1
  /\ txn' = [txn EXCEPT ![next] = row]
  /\ next' = next + 1
  /\ UNCHANGED <<scene, up, sugg, bill, pass, ask>>

CreateTransaction(w, p, form) ==
  /\ Begin(w, "create")
  /\ Insert(Fill(NoRow, p, Normal(form)))
  /\ UNCHANGED work

\* The category of the latest row with the narration that has one.
Inherited(who) ==
  LET same == {i \in Rows : txn[i].pay.who = who /\ txn[i].cat # None}
  IN IF who = None \/ same = {} THEN None ELSE txn[Max(same)].cat

\* persistTransaction, of a mail that was not ingested before; a transfer to a
\* broker is marked as one by a second statement.
IngestMail(w, p) ==
  /\ Begin(w, "mail")
  /\ Insert([Row(p) EXCEPT !.cat = Inherited(p.who)])
  /\ IF p.broker THEN Set(w, [Off EXCEPT !.pc = "broker", !.row = next]) ELSE UNCHANGED work

Retype(T, ids, type, kind) ==
  [i \in Ids |-> IF i \in ids /\ T[i].pay # None THEN [T[i] EXCEPT !.type = type, !.kind = kind] ELSE T[i]]

MarkBroker(w) ==
  /\ work[w].pc = "broker"
  /\ txn' = Retype(txn, {work[w].row}, "transfer", "investment")
  /\ Set(w, Off) /\ Keep

\* handleUpdateTransaction reads the category before it writes the whole row but its link.
UpdateTransaction(w, i, p, form) ==
  /\ Begin(w, "edit") /\ There(i)
  /\ Local(w, [Off EXCEPT !.pc = "edit", !.pay = p, !.form = Normal(form), !.saw = txn[i].cat, !.todo = {i}])

EditWrite(w) ==
  LET me == work[w] IN
  /\ me.pc = "edit"
  /\ txn' = [i \in Ids |-> IF i \in me.todo /\ There(i) THEN Fill(txn[i], me.pay, me.form) ELSE txn[i]]
  /\ Set(w, IF me.form.cat = me.saw THEN Off
            ELSE [Off EXCEPT !.pc = "spread", !.todo = me.todo, !.cat = me.form.cat])
  /\ Keep

\* spreadCategoryByNarration, as the rows are by now.
Spread(w) ==
  LET me == work[w]
      named == {txn[i].pay.who : i \in me.todo \cap Rows} \ {None}
  IN /\ me.pc = "spread"
     /\ txn' = [i \in Ids |-> IF There(i) /\ i \notin me.todo /\ txn[i].pay.who \in named
                              THEN [txn[i] EXCEPT !.cat = me.cat] ELSE txn[i]]
     /\ Set(w, Off) /\ Keep

BulkCategorize(w, ids, cat) ==
  /\ Begin(w, "categorize") /\ ids # {}
  /\ txn' = [i \in Ids |-> IF i \in ids /\ There(i) THEN [txn[i] EXCEPT !.cat = cat] ELSE txn[i]]
  /\ Set(w, [Off EXCEPT !.pc = "spread", !.todo = ids, !.cat = cat])
  /\ Keep

BulkMarkTransfer(w, ids, kind) ==
  /\ Begin(w, "mark") /\ ids # {}
  /\ txn' = Retype(txn, ids, "transfer", kind)
  /\ Keep /\ UNCHANGED work

\* Mutation: the links to what is deleted stay.
DeleteLeavingLinks(w, ids) ==
  /\ Begin(w, "delete") /\ ids # {}
  /\ txn' = [i \in Ids |-> IF i \in ids THEN NoRow ELSE txn[i]]
  /\ sugg' = [p \in Pairs |-> IF p[1] \in ids \/ p[2] \in ids THEN "none" ELSE sugg[p]]
  /\ UNCHANGED <<scene, up, next, bill, pass, ask, work>>

\* Links are SET NULL, readings and suggestions CASCADE.
DeleteTransactions(w, ids) ==
  /\ Begin(w, "delete") /\ ids # {}
  /\ txn' = [i \in Ids |-> IF i \in ids THEN NoRow
                           ELSE [txn[i] EXCEPT !.link = IF @ \in ids THEN 0 ELSE @]]
  /\ sugg' = [p \in Pairs |-> IF p[1] \in ids \/ p[2] \in ids THEN "none" ELSE sugg[p]]
  /\ UNCHANGED <<scene, up, next, bill, pass, ask, work>>

-----------------------------------------------------------------------------
(* Transfers.                                                              *)

\* The pairs a scan finds: an outflow and a later-numbered inflow of the same amount,
\* in another account, at most three days apart.
Matching(p) ==
  LET a == txn[p[1]]
      b == txn[p[2]]
  IN /\ {p[1], p[2]} \subseteq Rows
     /\ ~a.pay.in /\ b.pay.in /\ a.pay.amt = b.pay.amt /\ a.pay.acct # b.pay.acct
     /\ a.pay.day - b.pay.day \in -3..3
     /\ a.link = 0 /\ b.link = 0 /\ "transfer" \notin {a.type, b.type}

\* handleScanTransferSuggestions
Scan(w) ==
  LET found == {p \in Pairs : Matching(p) /\ sugg[p] = "none"} IN
  /\ Begin(w, "scan") /\ found # {}
  /\ Local(w, [Off EXCEPT !.pc = "suggest", !.todo = found])

\* Mutation: INSERT OR REPLACE.
SuggestAnew(w) ==
  LET me == work[w] IN
  /\ me.pc = "suggest"
  /\ \E p \in me.todo :
       /\ sugg' = [sugg EXCEPT ![p] = IF {p[1], p[2]} \subseteq Rows THEN "pending" ELSE @]
       /\ Set(w, IF me.todo = {p} THEN Off ELSE [me EXCEPT !.todo = @ \ {p}])
  /\ UNCHANGED <<scene, up, txn, next, bill, pass, ask>>

\* INSERT OR IGNORE, one by one; it fails, and the scan with it, if a row is gone.
Suggest(w) ==
  LET me == work[w] IN
  /\ me.pc = "suggest"
  /\ \E p \in me.todo :
       IF {p[1], p[2]} \subseteq Rows
       THEN /\ sugg' = [sugg EXCEPT ![p] = IF @ = "none" THEN "pending" ELSE @]
            /\ Set(w, IF me.todo = {p} THEN Off ELSE [me EXCEPT !.todo = @ \ {p}])
       ELSE Set(w, Off) /\ UNCHANGED sugg
  /\ UNCHANGED <<scene, up, txn, next, bill, pass, ask>>

Dismiss(w, p) ==
  /\ Begin(w, "dismiss") /\ sugg[p] # "none"
  /\ sugg' = [sugg EXCEPT ![p] = "dismissed"]
  /\ UNCHANGED <<scene, up, txn, next, bill, pass, ask, work>>

Confirm(w, p) ==
  /\ Begin(w, "confirm") /\ sugg[p] = "pending"
  /\ Local(w, [Off EXCEPT !.pc = "leg1", !.row = p[1], !.other = p[2], !.mark = TRUE])

\* handleLinkTransfer, of any two ids the user has seen.
LinkTransfer(w, i, j) ==
  /\ Begin(w, "link") /\ i # j /\ i < next /\ j < next
  /\ Local(w, [Off EXCEPT !.pc = "leg1", !.row = i, !.other = j])

\* linkTransferPair, one leg; it fails if the other is gone.
LinkLeg(w) ==
  LET me == work[w]
      i == me.row
      fails == There(i) /\ ~There(me.other)
  IN /\ me.pc \in {"leg1", "leg2"}
     /\ txn' = IF fails THEN txn
               ELSE [Retype(txn, {i}, "transfer", "self") EXCEPT ![i].link = IF There(i) THEN me.other ELSE 0]
     /\ Set(w, IF fails THEN Off
               ELSE IF me.pc = "leg1" THEN [me EXCEPT !.pc = "leg2", !.row = me.other, !.other = i]
               ELSE [me EXCEPT !.pc = IF me.mark THEN "confirmed" ELSE "arrived"])
     /\ Keep

MarkConfirmed(w) ==
  LET p == Ordered(work[w].row, work[w].other) IN
  /\ work[w].pc = "confirmed"
  /\ sugg' = [sugg EXCEPT ![p] = IF @ = "none" THEN @ ELSE "confirmed"]
  /\ Set(w, [work[w] EXCEPT !.pc = "arrived"])
  /\ UNCHANGED <<scene, up, txn, next, bill, pass, ask>>

\* handleUnlinkTransfer: each leg is looked at, then cleared.
UnlinkTransfer(w, i) ==
  /\ Begin(w, "unlink") /\ There(i) /\ txn[i].link # 0
  /\ Local(w, [Off EXCEPT !.pc = "look1", !.row = i, !.other = txn[i].link])

UnlinkLook(w) ==
  LET me == work[w] IN
  /\ me.pc \in {"look1", "look2"}
  /\ Local(w, [me EXCEPT !.pc = IF @ = "look1" THEN "clear1" ELSE "clear2",
                         !.saw = IF There(me.row) THEN Plain(txn[me.row].pay) ELSE "expense"])

\* Mutation: the leg the user points at is cleared, the other is not.
UnlinkClearOne(w) ==
  LET me == work[w] IN
  /\ me.pc \in {"clear1", "clear2"}
  /\ txn' = [Retype(txn, {me.row}, me.saw, "") EXCEPT ![me.row].link = 0]
  /\ Set(w, Off) /\ Keep

UnlinkClear(w) ==
  LET me == work[w] IN
  /\ me.pc \in {"clear1", "clear2"}
  /\ txn' = [Retype(txn, {me.row}, me.saw, "") EXCEPT ![me.row].link = 0]
  /\ Set(w, IF me.pc = "clear2" THEN Off
            ELSE [me EXCEPT !.pc = "look2", !.row = me.other, !.other = me.row])
  /\ Keep

\* Both then ask suggestBillPayment: did a leg arrive on a card or a loan?
Arrived(w) ==
  LET me == work[w]
      legs == {i \in {me.row, me.other} \cap Rows : txn[i].pay.in /\ txn[i].pay.acct \in Cards}
  IN /\ me.pc = "arrived"
     /\ Local(w, IF legs = {} THEN Off ELSE [Off EXCEPT !.pc = "offer", !.pay = txn[Max(legs)].pay])

\* The unpaid bills of the account, those the payment pays exactly first, then in
\* their order (by due date, which is left out), and no more than the answer holds.
Due(p) == {b \in BillIds : bill[b].id /\ ~bill[b].paid /\ bill[b].acct = p.acct}
Exact(p, b) == bill[b].due = p.amt
Offered(p) ==
  LET better(c, b) == IF Exact(p, c) = Exact(p, b) THEN c < b ELSE Exact(p, c)
  IN {b \in Due(p) : Cardinality({c \in Due(p) : better(c, b)}) < MaxOffered}

OfferBills(w) ==
  LET me == work[w] IN
  /\ me.pc = "offer"
  /\ Local(w, IF Due(me.pay) = {} THEN Off ELSE [me EXCEPT !.pc = "answer", !.todo = Offered(me.pay)])

-----------------------------------------------------------------------------
(* The classification pass.                                                *)

\* groupKey
Key(i, row) ==
  IF row.pay.who # None THEN <<"n", row.pay.who>>
  ELSE IF row.merch # "" THEN <<"m", row.merch>> ELSE <<"id", i>>

\* The order of loadPending: newest first.
Newest(S) ==
  LET day(i) == pass.loaded[i].pay.day
  IN CHOOSE i \in S : \A j \in S \ {i} : day(i) > day(j) \/ (day(i) = day(j) /\ i > j)

\* Parse: what is kept of the model's answer on a row of the given type.
Parse(raw, type) ==
  LET nature == IF raw.nature \in Types THEN raw.nature ELSE type
      cat == IF raw.cat \in Cats THEN raw.cat ELSE None
  IN [cat |-> cat, nature |-> nature, merch |-> raw.merch, applied |-> FALSE,
      kind |-> IF nature # "transfer" THEN "" ELSE IF raw.kind \in Kinds THEN raw.kind ELSE "self",
      review |-> raw.review \/ (cat = None /\ nature # "transfer")]

\* loadPending, and groupByNarration of what it loads.
Unread == {i \in Rows : txn[i].read = None}
Groups(S) == {{j \in S : Key(j, txn[j]) = Key(i, txn[i])} : i \in S}

\* handleClassifyTransactions and Run up to its goroutines; one pass at a time.
StartPass(w) ==
  /\ Begin(w, "pass") /\ ~pass.on /\ Unread # {}
  /\ pass' = [on |-> TRUE, loaded |-> [i \in Unread |-> txn[i]], left |-> Groups(Unread)]
  /\ ask' = [p \in Passers |-> [Idle EXCEPT !.pc = "claim"]]
  /\ UNCHANGED <<scene, up, tables, work>>

AskStep(p, me) == ask' = [ask EXCEPT ![p] = me] /\ UNCHANGED <<scene, up, next, sugg, bill, work>>

\* The cursor is read and moved under the mutex.
Claim(p) ==
  LET group == CHOOSE g \in pass.left : Newest(UNION pass.left) \in g IN
  /\ ask[p].pc = "claim" /\ pass.left # {}
  /\ pass' = [pass EXCEPT !.left = @ \ {group}]
  /\ AskStep(p, [Idle EXCEPT !.pc = "ask", !.todo = group])
  /\ UNCHANGED txn

NothingLeft(p) ==
  /\ ask[p].pc = "claim" /\ pass.left = {}
  /\ AskStep(p, Idle)
  /\ UNCHANGED <<txn, pass>>

\* One member speaks for the group.
Ask(p) ==
  LET me == ask[p] IN
  /\ me.pc = "ask"
  /\ \E raw \in Answers :
       AskStep(p, [me EXCEPT !.pc = "fill", !.read = Parse(raw, pass.loaded[Newest(me.todo)].type)])
  /\ UNCHANGED <<txn, pass>>

\* The model does not answer, or with no object that can be extracted: the group is
\* left to the next pass.
AskFails(p) ==
  /\ ask[p].pc = "ask"
  /\ AskStep(p, [Idle EXCEPT !.pc = "claim"])
  /\ UNCHANGED <<txn, pass>>

\* Mutation: whether there is a category is looked up in what was loaded.
FillUnlooked(p) ==
  LET me == ask[p]
      i == Newest(me.todo)
      old == pass.loaded[i]
  IN /\ me.pc = "fill"
     /\ txn' = IF ~There(i) THEN txn ELSE [txn EXCEPT
          ![i].cat = IF old.cat = None /\ me.read.cat # None THEN me.read.cat ELSE @,
          ![i].merch = IF old.merch = "" /\ @ = "" THEN me.read.merch ELSE @]
     /\ AskStep(p, [me EXCEPT !.pc = "store"])
     /\ UNCHANGED pass

\* applyToTransaction.  (The payment method goes the way of the merchant.)
FillEmpty(p) ==
  LET me == ask[p]
      i == Newest(me.todo)
      old == pass.loaded[i]
  IN /\ me.pc = "fill"
     /\ txn' = IF ~There(i) THEN txn ELSE [txn EXCEPT
          ![i].cat = IF @ = None THEN me.read.cat ELSE @,
          ![i].merch = IF old.merch = "" /\ @ = "" THEN me.read.merch ELSE @]
     /\ AskStep(p, [me EXCEPT !.pc = "store"])
     /\ UNCHANGED pass

Stored(p, i, applied) ==
  LET rest == ask[p].todo \ {i} IN
  /\ txn' = IF ~There(i) THEN txn ELSE [txn EXCEPT ![i].read = [ask[p].read EXCEPT !.applied = applied]]
  /\ AskStep(p, IF rest = {} THEN [Idle EXCEPT !.pc = "claim"] ELSE [ask[p] EXCEPT !.pc = "fill", !.todo = rest])
  /\ UNCHANGED pass

\* Mutation: applied means that something was written to the row.
StoreWritten(p) ==
  LET me == ask[p]
      i == Newest(me.todo)
  IN me.pc = "store" /\ Stored(p, i, me.read.cat # None \/ (me.read.merch # "" /\ pass.loaded[i].merch = ""))

\* The rest of storeAndApply: applied means that nothing is left to decide.  The
\* reading of a row that is gone is not stored.
StoreReading(p) ==
  LET me == ask[p]
      i == Newest(me.todo)
  IN me.pc = "store" /\ Stored(p, i, me.read.nature = pass.loaded[i].type /\ ~me.read.review)

EndPass ==
  /\ pass.on /\ \A p \in Passers : ask[p].pc = "rest"
  /\ pass' = NoPass
  /\ UNCHANGED <<scene, up, tables, ask, work>>

\* handleApplyClassification: the reading, the row, the reading again.
ApplyReading(w, i) ==
  /\ Begin(w, "apply") /\ There(i) /\ txn[i].read # None
  /\ Local(w, [Off EXCEPT !.pc = "apply", !.row = i, !.saw = txn[i].read])

ApplyWrite(w) ==
  LET me == work[w]
      i == me.row
      c == me.saw
      typed == Retype(txn, {i}, c.nature, c.kind)
  IN /\ me.pc = "apply"
     /\ IF There(i)
        THEN /\ txn' = [typed EXCEPT ![i].cat = IF c.nature = "transfer" THEN None
                                                ELSE IF c.cat # None THEN c.cat ELSE @]
             /\ Set(w, [me EXCEPT !.pc = "applied"])
        ELSE Set(w, Off) /\ UNCHANGED txn
     /\ Keep

Settle(T, i) ==
  IF T[i].read = None THEN T ELSE [T EXCEPT ![i].read = [@ EXCEPT !.applied = TRUE, !.review = FALSE]]

ApplyMark(w) ==
  /\ work[w].pc = "applied"
  /\ txn' = Settle(txn, work[w].row)
  /\ Set(w, Off) /\ Keep

DismissReading(w, i) ==
  /\ Begin(w, "dismissReading")
  /\ txn' = Settle(txn, i)
  /\ Keep /\ UNCHANGED work

-----------------------------------------------------------------------------
(* Bills.                                                                  *)

SameStatement(B, a, b) == B[a].id /\ B[b].id /\ B[a].of = B[b].of /\ B[a].of # None
First(a, b) == IF a = None THEN b ELSE a

\* dedupeBills: the earliest copy stays and takes what it lacks from the others.
Merged(B) ==
  [b \in BillIds |->
     LET copies == {c \in BillIds : SameStatement(B, b, c)}
         From(f(_)) == LET had == {c \in copies : f(B[c]) # None}
                       IN IF had = {} THEN None ELSE f(B[Min(had)])
     IN IF copies = {} THEN B[b]
        ELSE IF Min(copies) # b THEN NoBill
        ELSE [B[b] EXCEPT !.due = First(@, From(LAMBDA c : c.due)),
                          !.acct = First(@, From(LAMBDA c : c.acct))]]

\* A statement by mail; the issuer may send it again.
BillMail(w, m) ==
  /\ Begin(w, "bill")
  /\ Local(w, [Off EXCEPT !.pc = "bill", !.form = m])

\* persistBill
UpsertBill(w) ==
  LET m == work[w].form
      known == {b \in BillIds : bill[b].id /\ bill[b].of = m.of /\ m.of # None}
      free == {b \in BillIds : ~bill[b].id /\ b > Len(scene.bills) /\ b <= Len(scene.bills) + scene.issued}
  IN /\ work[w].pc = "bill"
     /\ \/ \E b \in known :
             bill' = [bill EXCEPT ![b].due = First(m.due, @), ![b].acct = First(m.acct, @)]
        \/ known = {} /\ free # {} /\ bill' = [bill EXCEPT ![Min(free)] = m]
     /\ Set(w, Off)
     /\ UNCHANGED <<scene, up, txn, next, sugg, pass, ask>>

SetBillStatus(w, b, paid) ==
  /\ Begin(w, "paid") /\ bill[b].id
  /\ bill' = [bill EXCEPT ![b].paid = paid]
  /\ UNCHANGED <<scene, up, txn, next, sugg, pass, ask, work>>

-----------------------------------------------------------------------------
(* The dashboard's outflows: what was spent, and where the rest moved.     *)

Outflows(T) == {i \in Ids : T[i].pay # None /\ T[i].pay.acct \in Counted /\ ~T[i].pay.in}
Total(T, S) == MapThenSumSet(LAMBDA i : T[i].pay.amt, S)
Expenses(T) == Total(T, {i \in Outflows(T) : T[i].type # "transfer"})
Moved(T, kinds) == Total(T, {i \in Outflows(T) : T[i].type = "transfer" /\ T[i].kind \in kinds})

\* handleDashboardSummary reads them in two statements; a kind without a line of its
\* own counts as a transfer between own accounts.
DashboardExpenses(w) ==
  /\ Begin(w, "dashboard")
  /\ Local(w, [Off EXCEPT !.pc = "moved", !.sum = Expenses(txn), !.saw = txn])

\* Mutation: only the kinds that have a name of their own are counted.
DashboardTransfersNamed(w) ==
  /\ work[w].pc = "moved"
  /\ Local(w, [work[w] EXCEPT !.pc = "answer", !.sum = @ + Moved(txn, {"investment", "family"})])

DashboardTransfers(w) ==
  /\ work[w].pc = "moved"
  /\ Local(w, [work[w] EXCEPT !.pc = "answer", !.sum = @ + Moved(txn, Kinds \cup {""})])

\* The response is written.
Respond(w) ==
  /\ work[w].pc = "answer"
  /\ Local(w, Off)

-----------------------------------------------------------------------------
\* Opening the database merges the bills of before their unique index.
Open ==
  /\ ~up /\ up' = TRUE
  /\ bill' = Merged(bill)
  /\ UNCHANGED <<scene, txn, next, sugg, pass, ask, work>>

Crash ==
  /\ up /\ (pass.on \/ \E w \in Workers : work[w].pc # "idle")
  /\ up' = FALSE
  /\ pass' = NoPass
  /\ ask' = [p \in Passers |-> Idle]
  /\ work' = [w \in Workers |-> Off]
  /\ UNCHANGED <<scene, tables>>

Step(w) ==
  \/ MarkBroker(w) \/ EditWrite(w) \/ Spread(w)
  \/ Suggest(w) \/ LinkLeg(w) \/ MarkConfirmed(w) \/ UnlinkLook(w) \/ UnlinkClear(w)
  \/ ApplyWrite(w) \/ ApplyMark(w) \/ UpsertBill(w)
  \/ DashboardTransfers(w) \/ Arrived(w) \/ OfferBills(w) \/ Respond(w)

Request(w) ==
  \/ \E p \in scene.pays : IngestMail(w, p) \/ \E form \in Forms : CreateTransaction(w, p, form)
  \/ \E i \in Rows : \/ \E form \in Forms : \E p \in scene.pays \cup {txn[i].pay} : UpdateTransaction(w, i, p, form)
                     \/ UnlinkTransfer(w, i) \/ ApplyReading(w, i) \/ DismissReading(w, i)
  \/ \E ids \in SUBSET Rows : \/ \E cat \in scene.cats : BulkCategorize(w, ids, cat)
                              \/ \E kind \in Marks : BulkMarkTransfer(w, ids, kind)
                              \/ DeleteTransactions(w, ids)
  \/ \E p \in Pairs : Dismiss(w, p) \/ Confirm(w, p)
  \/ \E i, j \in Ids : LinkTransfer(w, i, j)
  \/ \E m \in scene.mails : BillMail(w, m)
  \/ \E b \in BillIds, paid \in BOOLEAN : SetBillStatus(w, b, paid)
  \/ Scan(w) \/ StartPass(w) \/ DashboardExpenses(w)

PassStep(p) == Claim(p) \/ NothingLeft(p) \/ Ask(p) \/ AskFails(p) \/ FillEmpty(p) \/ StoreReading(p)

Next ==
  \/ \E w \in Workers : Request(w) \/ Step(w)
  \/ \E p \in Passers : PassStep(p)
  \/ EndPass \/ Open \/ Crash

Spec == Init /\ [][Next]_vars

-----------------------------------------------------------------------------
(* Properties.                                                             *)

\* A link, a suggestion and a reading are of rows there are; only transfers have a
\* kind, and every transfer has one; while the server runs, a statement has one bill.
TypeOK ==
  /\ scene \in Scenes /\ up \in BOOLEAN
  /\ \A i \in Ids : IF There(i) THEN /\ i < next /\ txn[i].type \in Types
                                     /\ txn[i].link # 0 => There(txn[i].link) /\ txn[i].link # i
                                     /\ IF txn[i].type = "transfer" THEN txn[i].kind \in Kinds ELSE txn[i].kind = ""
                    ELSE txn[i] = NoRow
  /\ \A p \in Pairs : sugg[p] # "none" => {p[1], p[2]} \subseteq Rows
  /\ up => \A a, b \in BillIds : SameStatement(bill, a, b) => a = b

\* transfers.go: confirming, linking and unlinking treat both legs.  A leg is left
\* pointing at a row that does not point back, with no handler about to see to it,
\* only by a crash, by linking over a link to a third row, or by a handler that
\* another has overtaken between its two legs.
OneSided(T, i) == T[i].link # 0 /\ T[T[i].link].link # i
Owed(W, i, j) ==
  \E w \in Workers : /\ W[w].pc \in {"leg2", "look1", "clear1", "look2", "clear2"}
                     /\ {i, j} = {W[w].row, W[w].other}
Abandoned(T, W, i) == OneSided(T, i) /\ ~Owed(W, i, T[i].link)
Overtaken(me) ==
  LET row == txn[me.row]
      other == txn[me.other]
  IN \/ me.pc \in {"leg1", "leg2", "clear1", "clear2"} /\ row.link \notin {0, me.other}
     \/ me.pc = "leg2" /\ other.link # me.row
     \/ me.pc = "clear2" /\ other.link = me.row
OneSidedOnlyByRelink ==
  [][\A i \in Ids : Abandoned(txn', work', i) /\ ~Abandoned(txn, work, i) =>
       ~up' \/ \E w \in Workers : work'[w] # work[w] /\ Overtaken(work[w])]_vars

\* txnclassify/run.go: a pass fills what is empty, as it is when it writes, and reads a
\* row once; it never changes a row's type, and writes over nothing.
PassOnlyFills ==
  [][(\E p \in Passers : ask'[p] # ask[p]) /\ up' /\ pass.on =>
       \A i \in Rows :
         LET old == txn[i]
             new == txn'[i]
         IN /\ old.cat # None => new.cat = old.cat
            /\ old.merch # "" => new.merch = old.merch
            /\ old.read # None => new.read = old.read
            /\ new = [old EXCEPT !.cat = new.cat, !.merch = new.merch, !.read = new.read]]_vars

\* txnclassify/run.go: applied means that nothing is left for a person to decide.  A
\* disagreement with the row, or a doubt, is put away only by a person, or by a change
\* of the row's type, possibly while the pass was reading it.
Hidden(row) == row.read # None /\ row.read.applied /\ (row.read.nature # row.type \/ row.read.review)
HiddenOnlyByChoice ==
  [][\A i \in Ids : Hidden(txn'[i]) /\ ~Hidden(txn[i]) =>
       \/ txn'[i].type # txn[i].type
       \/ txn[i].read # None
       \/ pass.on /\ pass.loaded[i].type # txn[i].type]_vars

\* transfers.go: what was dismissed or confirmed is not suggested again, whatever scans
\* are under way.  ingest.go: a statement that is sent again does not open a bill that
\* is paid, and takes nothing from it.  bills.go: a payment is offered the bill it pays
\* exactly before any other, and no bill that is paid.
SettledStays ==
  [][/\ \A p \in Pairs : sugg[p] \in {"dismissed", "confirmed"} => sugg'[p] # "pending"
     /\ \A w \in Workers : work[w].pc = "bill" /\ work'[w] # work[w] =>
          \A b \in BillIds : bill[b].id => /\ bill'[b].paid = bill[b].paid
                                           /\ bill[b].due # None => bill'[b].due # None
     /\ \A w \in Workers : work[w].pc = "offer" /\ work'[w].pc = "answer" =>
          LET p == work[w].pay
              named == work'[w].todo
          IN \A b \in BillIds : /\ b \in named => bill[b].id /\ ~bill[b].paid
                                /\ b \in Due(p) \ named /\ Exact(p, b) => \A c \in named : Exact(p, c)]_vars

\* The rows that count alike in two reads of the table.
Alike(T, U) == {i \in Ids : T[i].pay = U[i].pay /\ T[i].type = U[i].type /\ T[i].kind = U[i].kind}

\* dashboard.go: an outflow is an expense or one kind of transfer, never both or none:
\* the lines add up to what left the counted accounts.  Of the rows that change between
\* the two statements of a summary, and of them alone, each statement may count what it
\* finds, so that such a row is in both lines or in neither.
DashboardCountsOnce ==
  [][\A w \in Workers : work[w].pc = "moved" /\ work'[w].pc = "answer" =>
       LET saw == work[w].saw
           same == Alike(saw, txn)
       IN \E A \in SUBSET (Outflows(saw) \ same), B \in SUBSET (Outflows(txn) \ same) :
            work'[w].sum = Total(txn, Outflows(txn) \cap same) + Total(saw, A) + Total(txn, B)]_vars
=============================================================================

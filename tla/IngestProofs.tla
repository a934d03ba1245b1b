---------------------------- MODULE IngestProofs ----------------------------
(***************************************************************************)
(* Proofs about Ingest for any mail in any number of mailboxes, any size   *)
(* of batch and any number of crashes: its state stays well typed, a       *)
(* correct link stays, and mail that is accounted for brings nothing back. *)
(***************************************************************************)
EXTENDS Ingest, FiniteSetTheorems, WellFoundedInduction, TLAPS

Labels == {"none", "transaction", "pending_account", "unrecognized"}
Links == [as : Labels, txn : 0..MaxTxn, live : BOOLEAN]
Locals == [pc : {"off", "select", "fetch", "read", "insert", "existing", "link"},
           rules : BOOLEAN, todo : SUBSET Msgs, got : SUBSET Msgs, into : 0..MaxAccount,
           as : Labels, txn : 0..MaxTxn]

\* Ids are left for the events without a row, none of them was given twice,
\* and no row has an id that was not given.
Ledgered ==
  /\ Room(txn)
  /\ \A e \in Events : txn[e] <= lastId.txn
  /\ \A e, f \in Events : txn[e] = txn[f] /\ txn[e] # 0 => e = f

\* What points at a transaction says so.
Labelled == \A m \in Msgs : link[m].txn # 0 => link[m].as = "transaction"

\* A pass works on messages of its own mailbox, has something in hand whenever
\* it looks at one, and a message that nothing else shares a Message-ID with is
\* not linked before the pass has dealt with it.
Open(b, S) ==
  \A m \in S : Box[m] = b /\ (Rfc[m] # NoId /\ Twins(m) = {m} => ~Linked(m))
Fits(b, p) ==
  /\ Open(b, p.todo \cup p.got)
  /\ p.todo \cap p.got = {}
  /\ p.pc \in {"read", "insert", "existing", "link"} => p.got # {}
  /\ p.pc = "select" => p.got = {}
  /\ p.txn # 0 => p.as = "transaction" /\ p.pc = "link"

Inv == TypeOK /\ Ledgered /\ Labelled /\ \A b \in Mailboxes : Fits(b, pass[b])

-----------------------------------------------------------------------------
\* There are finitely many events, as there are finitely many messages.
LEMMA EventsFinite == IsFiniteSet(Events)
<1> DEFINE f == [m \in Msgs |-> Event[m]]
<1>1. f \in Surjection(Msgs, Events)
  BY DEF Surjection, Events
<1> QED
  BY <1>1, MailAssumption, FS_Surjection

\* A set of naturals that is not empty has a least element.
LEMMA LeastNatural ==
  ASSUME NEW T \in SUBSET Nat, T # {}
  PROVE  \E x \in T : \A y \in T : x <= y
<1> DEFINE R == {ss \in Nat \X Nat : ss[1] < ss[2]}
<1>1. IsWellFoundedOn(R, Nat)
  BY NatLessThanWellFounded, Zenon DEF OpToRel
<1>2. PICK x \in T : \A y \in T : <<y, x>> \notin R
  <2> HIDE DEF R
  <2> QED
    BY <1>1, WFMin
<1>3. \A y \in T : <<y, x>> \in Nat \X Nat /\ <<y, x>>[1] = y /\ <<y, x>>[2] = x
  OBVIOUS
<1>4. \A y \in T : ~(y < x)
  BY <1>2, <1>3
<1> QED
  BY <1>4

\* The message a pass looks at is one of those it has in hand.
LEMMA CurrentInHand ==
  ASSUME TypeOK, NEW b \in Mailboxes, pass[b].got # {}
  PROVE  Current(b) \in pass[b].got
<1>1. pass[b].got \in SUBSET Nat
  BY MailAssumption DEF TypeOK
<1>2. PICK x \in pass[b].got : \A y \in pass[b].got : x <= y
  BY <1>1, LeastNatural
<1> QED
  BY <1>2 DEF Current

\* Dealing with something leaves the rest in hand as it was.
LEMMA OnwardFits ==
  ASSUME NEW b \in Mailboxes, NEW p \in Locals,
         Open(b, p.todo \cup p.got), p.todo \cap p.got = {}
  PROVE  Onward(p) \in Locals /\ Fits(b, Onward(p))
<1> DEFINE c == IF p.got # {} THEN "read" ELSE IF p.todo # {} THEN "fetch" ELSE "off"
           r == p.rules /\ p.got \cup p.todo # {}
<1>1. r \in BOOLEAN
  OBVIOUS
<1>2. Onward(p) = [pc |-> c, rules |-> r, todo |-> p.todo, got |-> p.got, into |-> 0,
                   as |-> "none", txn |-> 0]
  <2>1. Onward(p) = [p EXCEPT !.pc = c, !.rules = r, !.into = 0, !.as = "none", !.txn = 0]
    BY Zenon DEF Onward
  <2> HIDE DEF r, c
  <2> QED
    BY <2>1 DEF Locals
<1> HIDE DEF r
<1>3. Onward(p) \in Locals
  BY <1>1, <1>2, BoundAssumption DEF Locals, Labels
<1>4. Fits(b, Onward(p))
  BY <1>2 DEF Fits
<1> QED
  BY <1>3, <1>4

\* A step of a pass that only changes what it remembers.
LEMMA LocalKeeps ==
  ASSUME Inv, NEW b \in Mailboxes, NEW p \in Locals, Fits(b, p), Local(b, p)
  PROVE  Inv'
<1>1. TypeOK'
  BY DEF Inv, TypeOK, Local, Locals, Labels
<1>2. Ledgered' /\ Labelled'
  BY DEF Inv, Ledgered, Labelled, Local, Room
<1>3. ASSUME NEW c \in Mailboxes PROVE Fits(c, pass[c])'
  <2>1. pass'[c] = IF c = b THEN p ELSE pass[c]
    BY DEF Inv, TypeOK, Local
  <2>2. Fits(c, pass'[c])
    BY <2>1 DEF Inv
  <2> QED
    BY <2>2 DEF Fits, Open, Linked, Local
<1> QED
  BY <1>1, <1>2, <1>3 DEF Inv

\* A step that rewrites links without linking anything new.
LEMMA UnlinkingKeeps ==
  ASSUME Inv, link' \in [Msgs -> Links], Labelled',
         \A m \in Msgs : Linked(m)' => Linked(m),
         UNCHANGED <<ruled, pass>>, Ledgered',
         row' \in [Msgs -> BOOLEAN], release' \in BOOLEAN,
         acct' \in [id : 0..MaxAccount, active : BOOLEAN],
         lastId' \in [acct : 0..MaxAccount, txn : 0..MaxTxn],
         txn' \in [Events -> 0..MaxTxn]
  PROVE  Inv'
<1>1. TypeOK'
  BY DEF Inv, TypeOK, Links, Labels
<1>2. ASSUME NEW b \in Mailboxes PROVE Fits(b, pass[b])'
  <2>1. Fits(b, pass[b]) /\ pass[b] \in Locals
    BY DEF Inv, TypeOK, Locals, Labels
  <2>2. pass[b].todo \cup pass[b].got \subseteq Msgs
    BY <2>1 DEF Locals
  <2>3. Open(b, pass[b].todo \cup pass[b].got)'
    BY <2>1, <2>2 DEF Fits, Open, Twins
  <2> QED
    BY <2>1, <2>3 DEF Fits
<1> QED
  BY <1>1, <1>2 DEF Inv

-----------------------------------------------------------------------------
(* One lemma for each group of actions.                                    *)

\* Before anything is read there is no row and no link.
LEMMA InitInv == Init => Inv
<1> SUFFICES ASSUME Init PROVE Inv
  OBVIOUS
<1>1. NoPass \in Locals /\ NoLink \in Links
  BY BoundAssumption DEF NoPass, NoLink, Locals, Links, Labels
<1>2. TypeOK
  <2>1. link \in [Msgs -> Links] /\ pass \in [Mailboxes -> Locals]
    BY <1>1, Zenon DEF Init
  <2>2. /\ row \in [Msgs -> BOOLEAN] /\ ruled \in BOOLEAN /\ release \in BOOLEAN
        /\ acct \in [id : 0..MaxAccount, active : BOOLEAN]
        /\ lastId \in [acct : 0..MaxAccount, txn : 0..MaxTxn]
        /\ txn \in [Events -> 0..MaxTxn]
    <3>1. 0 \in 0..MaxTxn /\ 0 \in 0..MaxAccount
      BY BoundAssumption
    <3> QED
      BY <3>1 DEF Init
  <2> QED
    BY <2>1, <2>2 DEF TypeOK, Locals, Links, Labels
<1>3. Room(txn)
  <2>1. {e \in Events : txn[e] = 0} = Events
    BY DEF Init
  <2>2. Cardinality(Events) \in Nat
    BY EventsFinite, FS_CardinalityType
  <2>3. lastId.txn = 0
    BY DEF Init
  <2>4. lastId.txn + Cardinality(Events) <= MaxTxn
    BY <2>2, <2>3, BoundAssumption
  <2> QED
    BY <2>1, <2>4, Zenon DEF Room
<1>4. Ledgered
  BY <1>3 DEF Ledgered, Init
<1>5. Labelled
  BY DEF Labelled, Init, NoLink
<1>6. ASSUME NEW b \in Mailboxes PROVE Fits(b, pass[b])
  BY DEF Init, Fits, Open, NoPass
<1> QED
  BY <1>2, <1>4, <1>5, <1>6 DEF Inv

\* The index and the finance account, with what their handlers do to links.
LEMMA UserKeeps ==
  ASSUME Inv,
         \/ \E m \in Msgs : Index(m) \/ Forget(m)
         \/ CreateAccount \/ ActivateAccount \/ ReleasePending \/ ArchiveAccount
         \/ DeleteAccount \/ \E e \in Events : DeleteTransaction(e)
         \/ \E b \in Mailboxes : RescanStuck(b) \/ ClearForRule(b)
  PROVE  Inv'
<1> USE BoundAssumption
<1>0. /\ link \in [Msgs -> Links] /\ NoLink \in Links
      /\ row \in [Msgs -> BOOLEAN] /\ release \in BOOLEAN
      /\ acct \in [id : 0..MaxAccount, active : BOOLEAN]
      /\ lastId \in [acct : 0..MaxAccount, txn : 0..MaxTxn]
      /\ txn \in [Events -> 0..MaxTxn]
      /\ Labelled /\ Ledgered
  BY DEF Inv, TypeOK, Links, Labels, NoLink
<1>1. ASSUME NEW m \in Msgs, Index(m) PROVE Inv'
  <2>1. Labelled' /\ Ledgered'
    BY <1>0, <1>1 DEF Index, Labelled, Ledgered, Room
  <2> QED
    BY <1>0, <1>1, <2>1, UnlinkingKeeps DEF Index, Linked
<1>2. ASSUME NEW m \in Msgs, Forget(m) PROVE Inv'
  <2>1. link' \in [Msgs -> Links]
    BY <1>0, <1>2 DEF Forget, Links
  <2>2. \A n \in Msgs : link'[n].as = link[n].as /\ link'[n].txn = link[n].txn
    BY <1>0, <1>2 DEF Forget, Links
  <2>3. Labelled' /\ Ledgered'
    BY <1>0, <1>2, <2>2 DEF Forget, Labelled, Ledgered, Room
  <2> QED
    BY <1>0, <1>2, <2>1, <2>2, <2>3, UnlinkingKeeps DEF Forget, Linked
<1>3. CASE CreateAccount \/ ActivateAccount \/ ArchiveAccount
  <2>1. /\ acct' \in [id : 0..MaxAccount, active : BOOLEAN]
        /\ lastId' \in [acct : 0..MaxAccount, txn : 0..MaxTxn]
        /\ lastId'.txn = lastId.txn
    <3>1. CASE CreateAccount
      BY <1>0, <3>1 DEF CreateAccount
    <3>2. CASE ActivateAccount
      BY <1>0, <3>2 DEF ActivateAccount
    <3>3. CASE ArchiveAccount
      BY <1>0, <3>3 DEF ArchiveAccount
    <3> QED
      BY <1>3, <3>1, <3>2, <3>3
  <2>2. UNCHANGED <<row, link, ruled, txn, pass>> /\ release' \in BOOLEAN
    BY <1>0, <1>3 DEF CreateAccount, ActivateAccount, ArchiveAccount
  <2>3. Labelled' /\ Ledgered'
    BY <1>0, <2>1, <2>2 DEF Labelled, Ledgered, Room
  <2> QED
    BY <1>0, <2>1, <2>2, <2>3, UnlinkingKeeps DEF Linked
<1>4. ASSUME NEW S \in SUBSET Msgs,
             link' = [m \in Msgs |-> IF m \in S THEN NoLink ELSE link[m]],
             UNCHANGED <<row, ruled, acct, lastId, txn, pass>>, release' \in BOOLEAN
      PROVE Inv'
  <2>1. link' \in [Msgs -> Links]
    BY <1>0, <1>4
  <2>2. Labelled' /\ Ledgered'
    BY <1>0, <1>4 DEF Labelled, Ledgered, Room, NoLink
  <2>3. \A m \in Msgs : Linked(m)' => Linked(m)
    BY <1>0, <1>4 DEF Linked, NoLink
  <2> QED
    BY <1>0, <1>4, <2>1, <2>2, <2>3, UnlinkingKeeps
<1>5. CASE ReleasePending
  <2> DEFINE S == {m \in Msgs : link[m].as = "pending_account"}
  <2>1. link' = [m \in Msgs |-> IF m \in S THEN NoLink ELSE link[m]]
    BY <1>5 DEF ReleasePending
  <2> QED
    BY <1>4, <1>5, <2>1 DEF ReleasePending
<1>6. ASSUME NEW b \in Mailboxes, RescanStuck(b) PROVE Inv'
  <2> DEFINE S == {m \in Msgs : Box[m] = b /\ Stuck(link[m])}
  <2>1. link' = [m \in Msgs |-> IF m \in S THEN NoLink ELSE link[m]]
    BY <1>6 DEF RescanStuck
  <2> QED
    BY <1>0, <1>4, <1>6, <2>1 DEF RescanStuck
<1>7. ASSUME NEW b \in Mailboxes, ClearForRule(b) PROVE Inv'
  <2> DEFINE S == {m \in Msgs :
                     Box[m] = b /\ link[m].as \in {"pending_account", "unrecognized"}}
  <2>1. link' = [m \in Msgs |-> IF m \in S THEN NoLink ELSE link[m]]
    BY <1>7 DEF ClearForRule
  <2> QED
    BY <1>0, <1>4, <1>7, <2>1 DEF ClearForRule
<1>8. ASSUME NEW gone, link' = Unlink(gone), txn' \in [Events -> 0..MaxTxn],
             \A e \in Events : txn'[e] = txn[e] \/ txn'[e] = 0, Room(txn'),
             acct' \in [id : 0..MaxAccount, active : BOOLEAN],
             UNCHANGED <<row, ruled, lastId, release, pass>>
      PROVE Inv'
  <2>1. /\ link' \in [Msgs -> Links]
        /\ \A m \in Msgs : link'[m].as = link[m].as /\ link'[m].txn \in {0, link[m].txn}
    BY <1>0, <1>8 DEF Unlink, Links
  <2>2. Labelled'
    BY <1>0, <2>1 DEF Labelled
  <2>3. Ledgered'
    BY <1>0, <1>8 DEF Ledgered, Room
  <2> QED
    BY <1>0, <1>8, <2>1, <2>2, <2>3, UnlinkingKeeps DEF Linked
<1>9. CASE DeleteAccount
  <2>1. acct' \in [id : 0..MaxAccount, active : BOOLEAN]
    BY <1>9 DEF DeleteAccount
  <2> QED
    BY <1>8, <1>9, <2>1 DEF DeleteAccount
<1>10. ASSUME NEW e \in Events, DeleteTransaction(e) PROVE Inv'
  <2>1. /\ txn' \in [Events -> 0..MaxTxn]
        /\ \A f \in Events : txn'[f] = txn[f] \/ txn'[f] = 0
    BY <1>0, <1>10 DEF DeleteTransaction
  <2> QED
    BY <1>0, <1>8, <1>10, <2>1 DEF DeleteTransaction
<1> QED
  BY <1>1, <1>2, <1>3, <1>5, <1>6, <1>7, <1>9, <1>10

\* What a pass remembers between two steps.
LEMMA Remembered ==
  ASSUME Inv, NEW b \in Mailboxes
  PROVE  /\ pass[b] \in Locals /\ Fits(b, pass[b]) /\ acct.id \in 0..MaxAccount
         /\ ruled \in BOOLEAN /\ txn \in [Events -> 0..MaxTxn]
  BY DEF Inv, TypeOK, Locals, Labels

\* The message in hand, and its event.
LEMMA Subject ==
  ASSUME Inv, NEW b \in Mailboxes, pass[b].pc \in {"read", "insert", "existing", "link"}
  PROVE  Current(b) \in pass[b].got /\ Current(b) \in Msgs /\ Event[Current(b)] \in Events
<1>1. pass[b].got # {} /\ pass[b].got \subseteq Msgs
  BY Remembered DEF Fits, Locals
<1>2. Current(b) \in pass[b].got
  BY <1>1, CurrentInHand DEF Inv
<1> QED
  BY <1>1, <1>2 DEF Events

\* The steps of a pass that touch no table.
LEMMA LookingKeeps ==
  ASSUME Inv, NEW b \in Mailboxes,
         \/ Start(b) \/ Select(b) \/ Read(b) \/ Existing(b) \/ FetchFails(b) \/ Stop(b)
         \/ \E got \in SUBSET pass[b].todo : Fetch(b, got)
  PROVE  Inv'
<1> DEFINE me == pass[b]
<1>0. me \in Locals /\ Fits(b, me) /\ NoPass \in Locals /\ Fits(b, NoPass)
  BY Remembered, BoundAssumption DEF NoPass, Locals, Labels, Fits, Open
<1>1. CASE Start(b)
  <2> DEFINE p == [NoPass EXCEPT !.pc = "select", !.rules = ruled]
  <2>1. p \in Locals /\ Fits(b, p)
    <3>1. NoPass.todo = {} /\ NoPass.got = {} /\ NoPass.txn = 0
      BY DEF NoPass
    <3>2. p \in Locals /\ p.todo = {} /\ p.got = {} /\ p.txn = 0 /\ p.pc = "select"
      BY <1>0, <3>1, Remembered DEF Locals
    <3> HIDE DEF p
    <3> QED
      BY <3>2 DEF Fits, Open
  <2> QED
    BY <1>1, <2>1, LocalKeeps DEF Start
<1>2. CASE Select(b)
  <2> DEFINE p == [me EXCEPT !.todo = Candidates(b)]
  <2>1. me.got = {} /\ Candidates(b) \subseteq Msgs
    BY <1>0, <1>2 DEF Select, Fits, Candidates
  <2>2. p \in Locals /\ p.todo = Candidates(b) /\ p.got = {}
    BY <1>0, <2>1 DEF Locals
  <2>3. Open(b, Candidates(b))
    BY DEF Open, Candidates, Twins
  <2>4. Onward(p) \in Locals /\ Fits(b, Onward(p))
    <3> HIDE DEF p
    <3> QED
      BY <2>2, <2>3, OnwardFits
  <2> QED
    BY <1>2, <2>4, LocalKeeps DEF Select
<1>3. ASSUME NEW got \in SUBSET me.todo, Fetch(b, got) PROVE Inv'
  <2> DEFINE batch == First(me.todo, Batch)
             p == [me EXCEPT !.todo = @ \ batch, !.got = got]
  <2>1. p \in Locals /\ p.todo = me.todo \ batch /\ p.got = got
    BY <1>0 DEF Locals
  <2>2. got \subseteq batch
    BY <1>3 DEF Fetch
  <2>3. Open(b, p.todo \cup p.got) /\ p.todo \cap p.got = {}
    BY <1>0, <2>1, <2>2 DEF Fits, Open
  <2>4. Onward(p) \in Locals /\ Fits(b, Onward(p))
    <3> HIDE DEF p
    <3> QED
      BY <2>1, <2>3, OnwardFits
  <2> QED
    BY <1>3, <2>4, LocalKeeps DEF Fetch
<1>4. CASE FetchFails(b)
  <2> DEFINE p == [me EXCEPT !.todo = @ \ First(@, Batch)]
  <2>1. p \in Locals /\ p.todo \subseteq me.todo /\ p.got = me.got
    BY <1>0 DEF Locals
  <2>2. Open(b, p.todo \cup p.got) /\ p.todo \cap p.got = {}
    BY <1>0, <2>1 DEF Fits, Open
  <2>3. Onward(p) \in Locals /\ Fits(b, Onward(p))
    <3> HIDE DEF p
    <3> QED
      BY <2>1, <2>2, OnwardFits
  <2> QED
    BY <1>4, <2>3, LocalKeeps DEF FetchFails
<1>5. CASE Stop(b)
  BY <1>0, <1>5, LocalKeeps DEF Stop
<1>6. CASE Read(b)
  <2> DEFINE p == [me EXCEPT !.pc = "link", !.as = "unrecognized"]
             q == [me EXCEPT !.pc = "link", !.as = "pending_account"]
             r == [me EXCEPT !.pc = "insert", !.into = acct.id]
  <2>1. me.txn = 0 /\ me.got # {}
    BY <1>0, <1>6 DEF Read, Fits
  <2>2. p \in Locals /\ q \in Locals /\ r \in Locals
    BY <1>0, Remembered DEF Locals, Labels
  <2>3. Fits(b, p) /\ Fits(b, q) /\ Fits(b, r)
    BY <1>0, <2>1 DEF Locals, Fits
  <2>4. Local(b, p) \/ Local(b, q) \/ Local(b, r)
    BY <1>6 DEF Read
  <2> QED
    BY <2>2, <2>3, <2>4, LocalKeeps
<1>7. CASE Existing(b)
  <2> DEFINE id == IF me.into = acct.id THEN txn[Event[Current(b)]] ELSE 0
             p == [me EXCEPT !.pc = "link", !.txn = id,
                             !.as = IF id = 0 THEN "unrecognized" ELSE "transaction"]
  <2>1. me.pc = "existing" /\ Local(b, p)
    BY <1>7 DEF Existing
  <2>2. id \in 0..MaxTxn
    BY <2>1, Subject, Remembered, BoundAssumption
  <2> HIDE DEF id
  <2>3. p \in Locals
    BY <1>0, <2>2 DEF Locals, Labels
  <2>4. Fits(b, p)
    BY <1>0, <2>1 DEF Locals, Fits
  <2> QED
    BY <2>1, <2>3, <2>4, LocalKeeps
<1> QED
  BY <1>1, <1>2, <1>3, <1>4, <1>5, <1>6, <1>7

\* An event without a row leaves room for one more id, which is then its own.
LEMMA NextId ==
  ASSUME Inv, NEW e \in Events, txn[e] = 0
  PROVE  LET n == lastId.txn + 1
             t == [txn EXCEPT ![e] = n]
         IN  /\ n \in 1..MaxTxn
             /\ n + Cardinality({f \in Events : t[f] = 0}) <= MaxTxn
<1> DEFINE n == lastId.txn + 1
           t == [txn EXCEPT ![e] = n]
           Z == {f \in Events : txn[f] = 0}
<1>1. lastId.txn \in Nat /\ txn \in [Events -> 0..MaxTxn] /\ MaxTxn \in Nat
  BY BoundAssumption DEF Inv, TypeOK
<1>2. {f \in Events : t[f] = 0} = Z \ {e}
  BY <1>1
<1>3. IsFiniteSet(Z) /\ e \in Z
  BY EventsFinite, FS_Subset
<1>4. /\ Cardinality(Z) \in Nat /\ Cardinality(Z \ {e}) \in Nat
      /\ Cardinality(Z \ {e}) = Cardinality(Z) - 1
  BY <1>3, FS_RemoveElement, FS_CardinalityType
<1>5. lastId.txn + Cardinality(Z) <= MaxTxn
  BY DEF Inv, Ledgered, Room
<1>6. n \in 1..MaxTxn /\ n + Cardinality(Z \ {e}) <= MaxTxn
  BY <1>1, <1>4, <1>5
<1> QED
  BY <1>2, <1>6

\* persistTransaction's INSERT.
LEMMA InsertKeeps ==
  ASSUME Inv, NEW b \in Mailboxes, Insert(b)
  PROVE  Inv'
<1> DEFINE me == pass[b]
           e == Event[Current(b)]
<1>0. me \in Locals /\ Fits(b, me) /\ me.pc = "insert" /\ me.txn = 0 /\ e \in Events
  BY Remembered, Subject DEF Insert, Fits
<1>1. CASE me.into # acct.id
  <2> DEFINE p == [me EXCEPT !.pc = "link", !.as = "unrecognized"]
  <2>1. p \in Locals /\ Fits(b, p)
    BY <1>0 DEF Locals, Labels, Fits
  <2>2. Local(b, p)
    BY <1>1 DEF Insert
  <2> QED
    BY <2>1, <2>2, LocalKeeps
<1>2. CASE me.into = acct.id /\ txn[e] # 0
  <2> DEFINE p == [me EXCEPT !.pc = "existing"]
  <2>1. p \in Locals /\ Fits(b, p)
    BY <1>0 DEF Locals, Labels, Fits
  <2>2. Local(b, p)
    BY <1>2 DEF Insert
  <2> QED
    BY <2>1, <2>2, LocalKeeps
<1>3. CASE me.into = acct.id /\ txn[e] = 0
  <2> DEFINE n == lastId.txn + 1
             p == [me EXCEPT !.pc = "link", !.as = "transaction", !.txn = n]
  <2>1. /\ lastId' = [lastId EXCEPT !.txn = n]
        /\ txn' = [txn EXCEPT ![e] = n]
        /\ UNCHANGED <<row, link, ruled, acct, release>>
    BY <1>3 DEF Insert
  <2>2. pass' = [pass EXCEPT ![b] = p]
    BY <1>3 DEF Insert, Inv, TypeOK
  <2>3. /\ n \in 1..MaxTxn
        /\ n + Cardinality({f \in Events : [txn EXCEPT ![e] = n][f] = 0}) <= MaxTxn
    BY <1>0, <1>3, NextId
  <2>4. p \in Locals /\ Fits(b, p)
    <3>1. n \in 0..MaxTxn
      BY <2>3, BoundAssumption
    <3> HIDE DEF n
    <3>2. p \in Locals
      BY <1>0, <3>1 DEF Locals, Labels
    <3>3. Fits(b, p)
      BY <1>0 DEF Locals, Fits
    <3> QED
      BY <3>2, <3>3
  <2>5. TypeOK'
    <3>1. /\ lastId' \in [acct : 0..MaxAccount, txn : 0..MaxTxn]
          /\ txn' \in [Events -> 0..MaxTxn]
      BY <1>0, <2>1, <2>3 DEF Inv, TypeOK
    <3>2. pass' \in [Mailboxes -> Locals]
      BY <2>2, <2>4 DEF Inv, TypeOK, Locals, Labels
    <3> QED
      BY <2>1, <3>1, <3>2 DEF Inv, TypeOK, Locals, Labels
  <2>6. Ledgered'
    <3>0. /\ lastId.txn \in Nat /\ lastId'.txn = n
          /\ txn \in [Events -> 0..MaxTxn]
          /\ \A f \in Events : txn'[f] = IF f = e THEN n ELSE txn[f]
      BY <2>1 DEF Inv, TypeOK
    <3>1. Room(txn)'
      BY <2>1, <2>3, <3>0 DEF Room
    <3>2. \A f \in Events : txn'[f] <= lastId'.txn
      BY <3>0, BoundAssumption DEF Inv, Ledgered
    <3>3. \A f, g \in Events : txn'[f] = txn'[g] /\ txn'[f] # 0 => f = g
      BY <3>0, BoundAssumption DEF Inv, Ledgered
    <3> QED
      BY <3>1, <3>2, <3>3 DEF Ledgered
  <2>7. Labelled'
    BY <2>1 DEF Inv, Labelled
  <2>8. ASSUME NEW c \in Mailboxes PROVE Fits(c, pass[c])'
    <3>1. Fits(c, pass'[c])
      BY <2>2, <2>4 DEF Inv, TypeOK
    <3> QED
      BY <2>1, <3>1 DEF Fits, Open, Linked
  <2> QED
    BY <2>5, <2>6, <2>7, <2>8 DEF Inv
<1> QED
  BY <1>1, <1>2, <1>3 DEF Insert

\* The INSERT of the link, and the pass goes on to the next message.
LEMMA LinkKeeps ==
  ASSUME Inv, NEW b \in Mailboxes, Link(b)
  PROVE  Inv'
<1> DEFINE me == pass[b]
           m == Current(b)
           p == [me EXCEPT !.got = @ \ {m}]
<1>0. me \in Locals /\ Fits(b, me) /\ me.pc = "link" /\ m \in me.got /\ m \in Msgs
  BY Remembered, Subject DEF Link
<1>1. p \in Locals /\ p.todo = me.todo /\ p.got = me.got \ {m}
  BY <1>0 DEF Locals
<1>2. /\ pass' = [pass EXCEPT ![b] = Onward(p)]
      /\ UNCHANGED <<row, ruled, acct, lastId, txn, release>>
  <2>1. UNCHANGED <<row, ruled, acct, lastId, txn, release>>
    BY DEF Link
  <2>2. pass' = [pass EXCEPT ![b] = Onward(p)]
    BY Zenon DEF Link
  <2> QED
    BY <2>1, <2>2
<1>3. Onward(p) \in Locals /\ Fits(b, Onward(p))
  <2>1. Open(b, p.todo \cup p.got) /\ p.todo \cap p.got = {}
    BY <1>0, <1>1 DEF Fits, Open
  <2> HIDE DEF p
  <2> QED
    BY <1>1, <2>1, OnwardFits
<1>4. PICK l \in Links : /\ link' = [link EXCEPT ![m] = l]
                         /\ l.txn # 0 => l.as = "transaction"
  <2>1. link[m] \in Links /\ (link[m].txn # 0 => link[m].as = "transaction")
    BY <1>0 DEF Inv, TypeOK, Links, Labels, Labelled
  <2>2. link = [link EXCEPT ![m] = link[m]]
    BY <1>0 DEF Inv, TypeOK
  <2>3. [as |-> me.as, txn |-> me.txn, live |-> TRUE] \in Links
    BY <1>0 DEF Locals, Links
  <2>4. me.txn # 0 => me.as = "transaction"
    BY <1>0 DEF Fits
  <2> QED
    BY <2>1, <2>2, <2>3, <2>4 DEF Link
<1>5. /\ link' \in [Msgs -> Links]
      /\ \A n \in Msgs : n # m => link'[n] = link[n]
  BY <1>0, <1>4 DEF Inv, TypeOK, Links, Labels
<1>6. pass' \in [Mailboxes -> Locals]
  BY <1>2, <1>3 DEF Inv, TypeOK, Locals, Labels
<1>7. TypeOK'
  BY <1>2, <1>5, <1>6 DEF Inv, TypeOK, Links, Locals, Labels
<1>8. Ledgered'
  BY <1>2 DEF Inv, Ledgered, Room
<1>9. Labelled'
  BY <1>0, <1>4, <1>5 DEF Inv, TypeOK, Labelled
<1>10. ASSUME NEW c \in Mailboxes PROVE Fits(c, pass[c])'
  <2>1. Fits(c, pass'[c])
    BY <1>2, <1>3 DEF Inv, TypeOK
  <2>2. pass'[c].todo \cup pass'[c].got \subseteq Msgs
    BY <1>6 DEF Locals
  <2>3. m \notin pass'[c].todo \cup pass'[c].got
    <3>1. CASE c = b
      <4>1. pass'[c].todo = me.todo /\ pass'[c].got = me.got \ {m}
        BY <1>1, <1>2, <3>1 DEF Onward, Inv, TypeOK, Locals
      <4> QED
        BY <1>0, <4>1 DEF Fits
    <3>2. CASE c # b
      BY <1>0, <2>1, <3>2 DEF Fits, Open
    <3> QED
      BY <3>1, <3>2
  <2>4. Open(c, pass[c].todo \cup pass[c].got)'
    BY <1>5, <2>1, <2>2, <2>3 DEF Fits, Open, Linked, Twins
  <2> QED
    BY <2>1, <2>4 DEF Fits
<1> QED
  BY <1>7, <1>8, <1>9, <1>10 DEF Inv

\* Whatever happens, the invariant holds afterwards.
LEMMA NextKeeps == Inv /\ [Next]_vars => Inv'
<1> SUFFICES ASSUME Inv, [Next]_vars PROVE Inv'
  OBVIOUS
<1>1. CASE SetRule \/ UNCHANGED vars
  <2>1. UNCHANGED <<row, link, acct, lastId, txn, release, pass>> /\ ruled' \in BOOLEAN
    BY <1>1 DEF SetRule, vars, Inv, TypeOK
  <2>2. TypeOK' /\ Ledgered' /\ Labelled'
    BY <2>1 DEF Inv, TypeOK, Ledgered, Room, Labelled
  <2>3. \A b \in Mailboxes : Fits(b, pass[b])'
    BY <2>1 DEF Inv, Fits, Open, Linked
  <2> QED
    BY <2>2, <2>3 DEF Inv
<1>2. CASE Crash
  <2>1. NoPass \in Locals /\ UNCHANGED <<row, link, ruled, acct, lastId, txn>>
    BY <1>2, BoundAssumption DEF Crash, NoPass, Locals, Labels
  <2>2. pass' = [b \in Mailboxes |-> NoPass] /\ release' = FALSE
    BY <1>2 DEF Crash
  <2>3. pass' \in [Mailboxes -> Locals]
    BY <2>1, <2>2, Zenon
  <2>4. Ledgered' /\ Labelled'
    BY <2>1 DEF Inv, Ledgered, Room, Labelled
  <2>5. TypeOK'
    BY <2>1, <2>2, <2>3 DEF Inv, TypeOK, Locals, Labels
  <2>6. \A b \in Mailboxes : Fits(b, pass[b])'
    BY <2>2 DEF Fits, Open, NoPass
  <2> QED
    BY <2>4, <2>5, <2>6 DEF Inv
<1> QED
  BY <1>1, <1>2, UserKeeps, LookingKeeps, InsertKeeps, LinkKeeps DEF Next, PassStep

-----------------------------------------------------------------------------
\* In every reachable state the tables and the locals of every pass are well
\* typed: no id is given out that the bound does not allow.
THEOREM TypeCorrect == Spec => []TypeOK
<1>1. Inv => TypeOK
  BY DEF Inv
<1> QED
  BY <1>1, InitInv, NextKeeps, PTL DEF Spec

\* Rows have ids of their own that were given out once, and a link with a
\* transaction's id is labelled as one.
THEOREM IdsAreTheirOwn == Spec => [](Ledgered /\ Labelled)
<1>1. Inv => Ledgered /\ Labelled
  BY DEF Inv
<1> QED
  BY <1>1, InitInv, NextKeeps, PTL DEF Spec

-----------------------------------------------------------------------------
\* What an action does to a link that points at a row of its event.
KeepsLink(m) ==
  link[m].txn # 0 /\ link[m].txn = txn'[Event[m]]
    => link'[m].as = link[m].as /\ link'[m].txn = link[m].txn

\* No action moves a link off a row of its own event, but for forgetting the message.
LEMMA EveryStepKeepsLink ==
  ASSUME Inv, [Next]_vars, NEW m \in Msgs
  PROVE  KeepsLink(m)
<1> SUFFICES ASSUME link[m].txn # 0, link[m].txn = txn'[Event[m]]
             PROVE  link'[m].as = link[m].as /\ link'[m].txn = link[m].txn
  BY DEF KeepsLink
<1>0. /\ link \in [Msgs -> Links] /\ link[m].as = "transaction" /\ Event[m] \in Events
      /\ txn \in [Events -> 0..MaxTxn]
  BY DEF Inv, TypeOK, Links, Labels, Labelled, Events
<1>1. CASE link' = link
  BY <1>1
<1>2. ASSUME NEW n \in Msgs, Forget(n) PROVE link'[m].as = link[m].as /\ link'[m].txn = link[m].txn
  BY <1>0, <1>2 DEF Forget, Links
<1>3. CASE ReleasePending
  BY <1>0, <1>3 DEF ReleasePending
<1>4. CASE DeleteAccount
  BY <1>0, <1>4 DEF DeleteAccount
<1>5. ASSUME NEW e \in Events, DeleteTransaction(e)
      PROVE  link'[m].as = link[m].as /\ link'[m].txn = link[m].txn
  <2>1. e # Event[m]
    BY <1>0, <1>5 DEF DeleteTransaction
  <2>2. txn'[Event[m]] = txn[Event[m]]
    BY <1>0, <1>5, <2>1 DEF DeleteTransaction
  <2>3. txn[Event[m]] # txn[e]
    BY <1>0, <2>1, <2>2 DEF Inv, Ledgered
  <2> QED
    BY <1>0, <1>5, <2>2, <2>3 DEF DeleteTransaction, Unlink
<1>6. ASSUME NEW b \in Mailboxes, RescanStuck(b)
      PROVE  link'[m].as = link[m].as /\ link'[m].txn = link[m].txn
  BY <1>0, <1>6 DEF RescanStuck, Stuck
<1>7. ASSUME NEW b \in Mailboxes, ClearForRule(b)
      PROVE  link'[m].as = link[m].as /\ link'[m].txn = link[m].txn
  BY <1>0, <1>7 DEF ClearForRule
<1>8. ASSUME NEW b \in Mailboxes, Link(b)
      PROVE  link'[m].as = link[m].as /\ link'[m].txn = link[m].txn
  <2>1. CASE Current(b) = m
    <3>1. m \in Twins(m) /\ Linked(m)
      BY <1>0 DEF Twins, Linked
    <3> QED
      BY <1>8, <2>1, <3>1 DEF Link
  <2>2. CASE Current(b) # m
    BY <1>0, <1>8, <2>2 DEF Link
  <2> QED
    BY <2>1, <2>2
<1>9. ASSUME NEW b \in Mailboxes,
             \/ Start(b) \/ Select(b) \/ Read(b) \/ Insert(b) \/ Existing(b)
             \/ FetchFails(b) \/ Stop(b) \/ \E got \in SUBSET pass[b].todo : Fetch(b, got)
      PROVE  link' = link
  BY <1>9 DEF Start, Select, Read, Insert, Existing, FetchFails, Stop, Fetch, Local
<1>10. ASSUME \/ \E n \in Msgs : Index(n)
              \/ SetRule \/ CreateAccount \/ ActivateAccount \/ ArchiveAccount
              \/ Crash \/ UNCHANGED vars
       PROVE  link' = link
  BY <1>10 DEF Index, SetRule, CreateAccount, ActivateAccount, ArchiveAccount, Crash, vars
<1> QED
  BY <1>1, <1>2, <1>3, <1>4, <1>5, <1>6, <1>7, <1>8, <1>9, <1>10 DEF Next, PassStep

\* A correct link is never cleared, moved or relabelled: not by a rescan, a
\* release, the deletion of something else, or another pass.
THEOREM CorrectLinksHold == Spec => CorrectLinksStay
<1>1. Inv /\ [Next]_vars =>
        [\A m \in Msgs : link[m].txn # 0 /\ link[m].txn = txn'[Event[m]]
           => link'[m].as = link[m].as /\ link'[m].txn = link[m].txn]_vars
  BY EveryStepKeepsLink DEF KeepsLink
<1> QED
  BY <1>1, InitInv, NextKeeps, PTL DEF Spec, CorrectLinksStay

\* Only a pass with an unlinked message in hand brings a row into the ledger.
LEMMA NewRowsAreForOpenMail ==
  ASSUME Inv, [Next]_vars, NEW e \in Events, txn[e] = 0, txn'[e] # 0
  PROVE  \E b \in Mailboxes :
           /\ pass[b].pc = "insert" /\ pass'[b].txn = txn'[e]
           /\ LET m == Current(b) IN Rfc[m] = NoId \/ Twins(m) # {m} \/ ~Linked(m)
<1>0. txn \in [Events -> 0..MaxTxn]
  BY DEF Inv, TypeOK
<1>1. PICK b \in Mailboxes : Insert(b)
  <2>1. ASSUME NEW b \in Mailboxes,
               \/ Start(b) \/ Select(b) \/ Read(b) \/ Existing(b) \/ Link(b)
               \/ RescanStuck(b) \/ ClearForRule(b)
               \/ FetchFails(b) \/ Stop(b) \/ \E got \in SUBSET pass[b].todo : Fetch(b, got)
        PROVE  txn' = txn
    BY <2>1 DEF Start, Select, Read, Existing, Link, RescanStuck, ClearForRule, FetchFails,
                Stop, Fetch, Local
  <2>2. ASSUME \/ \E n \in Msgs : Index(n) \/ Forget(n)
               \/ SetRule \/ CreateAccount \/ ActivateAccount \/ ReleasePending
               \/ ArchiveAccount \/ Crash \/ UNCHANGED vars
        PROVE  txn' = txn
    BY <2>2 DEF Index, Forget, SetRule, CreateAccount, ActivateAccount, ReleasePending,
                ArchiveAccount, Crash, vars
  <2>3. ~DeleteAccount /\ ~\E f \in Events : DeleteTransaction(f)
    BY <1>0 DEF DeleteAccount, DeleteTransaction
  <2> QED
    BY <2>1, <2>2, <2>3 DEF Next, PassStep
<1> DEFINE m == Current(b)
<1>2. pass[b].pc = "insert" /\ m \in pass[b].got
  BY <1>1, Subject DEF Insert
<1>3. txn' = [txn EXCEPT ![Event[m]] = lastId.txn + 1] /\ pass'[b].txn = lastId.txn + 1
  BY <1>1 DEF Insert, Local, Inv, TypeOK
<1>4. txn'[e] = lastId.txn + 1
  BY <1>0, <1>3
<1>5. Rfc[m] = NoId \/ Twins(m) # {m} \/ ~Linked(m)
  BY <1>2 DEF Inv, Fits, Open
<1> QED
  BY <1>2, <1>3, <1>4, <1>5

\* What the user deleted, or a crash interrupted, is not brought back by mail
\* that is already accounted for.
THEOREM DeletedRowsStayDeleted == Spec => DeletedStaysDeleted
<1>1. Inv /\ [Next]_vars =>
        [\A e \in Events : txn[e] = 0 /\ txn'[e] # 0 =>
           \E b \in Mailboxes :
             /\ pass[b].pc = "insert" /\ pass'[b].txn = txn'[e]
             /\ LET m == Current(b) IN Rfc[m] = NoId \/ Twins(m) # {m} \/ ~Linked(m)]_vars
  BY NewRowsAreForOpenMail
<1> QED
  BY <1>1, InitInv, NextKeeps, PTL DEF Spec, DeletedStaysDeleted
=============================================================================

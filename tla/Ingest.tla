------------------------------- MODULE Ingest -------------------------------
(***************************************************************************)
(* Finance mail becoming ledger rows: ingest.Run over the message index,   *)
(* one pass per mailbox at a time (the caller holds that mailbox's lock),  *)
(* passes of several mailboxes side by side, and everything a user does    *)
(* meanwhile: adding, correcting, archiving and deleting the finance       *)
(* account the mail is about, teaching a parser rule, deleting the         *)
(* transaction or the message, asking for a rescan.                        *)
(*                                                                         *)
(* Every SQL statement is atomic (one SQLite connection) and two           *)
(* statements are two steps; foreign keys are enforced.  The mail here is  *)
(* transaction alerts about one account.  An alert describes an event, and *)
(* two alerts of one event have the same EmailDedupeHash in one account.   *)
(* The balance that follows a transaction is the ledger's business.        *)
(***************************************************************************)
EXTENDS Naturals, FiniteSets

CONSTANTS Mailboxes,
          Msgs,      \* messages that look like finance mail, numbered by UID
          Box,       \* Box[m]: the mailbox of m
          Rfc,       \* Rfc[m]: its Message-ID header
          NoId,      \* the message has none
          Event,     \* Event[m]: what the alert is about
          Poison,    \* messages whose body the server never yields
          Batch,     \* batchSizeForTest: bodies per fetch
          MaxAccount, MaxTxn,  \* bounds: accounts and transactions ever created
          Crashes    \* whether the process may die

Events == {Event[m] : m \in Msgs}

ASSUME MailAssumption ==
  /\ Msgs \subseteq Nat /\ IsFiniteSet(Msgs) /\ Poison \subseteq Msgs
  /\ Box \in [Msgs -> Mailboxes]
  /\ DOMAIN Rfc = Msgs /\ DOMAIN Event = Msgs
ASSUME BoundAssumption ==
  /\ Batch \in Nat \ {0} /\ {MaxAccount, MaxTxn} \subseteq Nat /\ Crashes \in BOOLEAN
  /\ Cardinality(Events) <= MaxTxn

VARIABLES
  row,      \* row[m]: the index (messages) has m
  link,     \* link[m]: the message_links row written for m
  ruled,    \* an enabled parser rule reads these alerts
  acct,     \* the finance account: its id (0: none), whether it is active
  lastId,   \* ids are AUTOINCREMENT
  txn,      \* txn[e]: id of the transaction of e in the account (0: none)
  release,  \* an account handler still has to call releasePending
  pass      \* pass[b]: locals of the pass over mailbox b

vars == <<row, link, ruled, acct, lastId, txn, release, pass>>

\* live: message_id still points at the index row; txn: transaction_id or NULL.
NoLink == [as |-> "none", txn |-> 0, live |-> FALSE]
NoPass == [pc |-> "off", rules |-> FALSE, todo |-> {}, got |-> {}, into |-> 0,
           as |-> "none", txn |-> 0]

Init ==
  /\ row = [m \in Msgs |-> FALSE]
  /\ link = [m \in Msgs |-> NoLink]
  /\ ruled = FALSE
  /\ acct = [id |-> 0, active |-> FALSE]
  /\ lastId = [acct |-> 0, txn |-> 0]
  /\ txn = [e \in Events |-> 0]
  /\ release = FALSE
  /\ pass = [b \in Mailboxes |-> NoPass]

Linked(m) == link[m].as # "none"
Twins(m) == {n \in Msgs : Box[n] = Box[m] /\ Rfc[n] = Rfc[m]}

\* Mutation: without the second exclusion, the one on the Message-ID.
CandidatesByRowId(b) == {m \in Msgs : Box[m] = b /\ row[m] /\ ~link[m].live}

\* Mutation: the Message-ID is compared without asking whether there is one.
CandidatesComparingNoId(b) ==
  {m \in Msgs : Box[m] = b /\ row[m] /\ ~link[m].live /\ \A n \in Twins(m) : ~Linked(n)}

\* selectCandidates: indexed, not linked by row id nor by Message-ID.
Candidates(b) ==
  {m \in Msgs : /\ Box[m] = b /\ row[m]
                /\ ~link[m].live
                /\ Rfc[m] # NoId => \A n \in Twins(m) : ~Linked(n)}

First(S, k) == {m \in S : Cardinality({n \in S : n < m}) < k}
Current(b) == CHOOSE m \in pass[b].got : \A n \in pass[b].got : m <= n

\* Ids are left for every event the ledger may still have to record.
Room(t) == lastId.txn + Cardinality({e \in Events : t[e] = 0}) <= MaxTxn

\* A deleted row takes its id out of every link.
Unlink(gone) ==
  [m \in Msgs |-> IF link[m].txn \in gone THEN [link[m] EXCEPT !.txn = 0] ELSE link[m]]

-----------------------------------------------------------------------------
(* The index and the user.                                                 *)

\* A sync of the mailbox stores the message, for the first time or because it
\* was moved back; the lock keeps it apart from the pass.
Index(m) ==
  /\ ~row[m] /\ pass[Box[m]].pc = "off"
  /\ row' = [row EXCEPT ![m] = TRUE]
  /\ UNCHANGED <<link, ruled, acct, lastId, txn, release, pass>>

\* The message is deleted, by a sync or by a handler that has no lock.
Forget(m) ==
  /\ row[m]
  /\ row' = [row EXCEPT ![m] = FALSE]
  /\ link' = [link EXCEPT ![m].live = FALSE]
  /\ UNCHANGED <<ruled, acct, lastId, txn, release, pass>>

\* A rule is added or enabled; edited away or disabled.
SetRule ==
  /\ ruled' = ~ruled
  /\ UNCHANGED <<row, link, acct, lastId, txn, release, pass>>

\* handleCreateAccount, the INSERT.
CreateAccount ==
  /\ acct.id = 0 /\ lastId.acct < MaxAccount
  /\ acct' = [id |-> lastId.acct + 1, active |-> TRUE]
  /\ lastId' = [lastId EXCEPT !.acct = @ + 1]
  /\ release' = TRUE
  /\ UNCHANGED <<row, link, ruled, txn, pass>>

\* handleUnarchiveAccount, or handleUpdateAccount giving it the bank and
\* number the mail names.
ActivateAccount ==
  /\ acct.id # 0 /\ ~acct.active
  /\ acct' = [acct EXCEPT !.active = TRUE]
  /\ release' = TRUE
  /\ UNCHANGED <<row, link, ruled, lastId, txn, pass>>

\* releasePending: ClearPendingFor deletes the held links, in every mailbox.
ReleasePending ==
  /\ release
  /\ link' = [m \in Msgs |-> IF link[m].as = "pending_account" THEN NoLink ELSE link[m]]
  /\ release' = FALSE
  /\ UNCHANGED <<row, ruled, acct, lastId, txn, pass>>

\* handleArchiveAccount, or an update that gives it another number.
ArchiveAccount ==
  /\ acct.active
  /\ acct' = [acct EXCEPT !.active = FALSE]
  /\ UNCHANGED <<row, link, ruled, lastId, txn, release, pass>>

\* handleDeleteAccount: its transactions go with it.
DeleteAccount ==
  /\ acct.id # 0
  /\ acct' = [id |-> 0, active |-> FALSE]
  /\ txn' = [e \in Events |-> 0] /\ Room(txn')
  /\ link' = Unlink({txn[e] : e \in Events})
  /\ UNCHANGED <<row, ruled, lastId, release, pass>>

\* handleDeleteTransaction.
DeleteTransaction(e) ==
  /\ txn[e] # 0
  /\ txn' = [txn EXCEPT ![e] = 0] /\ Room(txn')
  /\ link' = Unlink({txn[e]})
  /\ UNCHANGED <<row, ruled, acct, lastId, release, pass>>

Stuck(l) == l.as \in {"pending_account", "unrecognized"} \/ (l.as = "transaction" /\ l.txn = 0)

\* Mutation: everything that is not a transaction row any more or never was,
\* without looking at where the link points.
RescanEverything(b) ==
  /\ link' = [m \in Msgs |-> IF Box[m] = b THEN NoLink ELSE link[m]]
  /\ UNCHANGED <<row, ruled, acct, lastId, txn, release, pass>>

\* handleRescanEmailAccount calls RescanStuck before it asks for the lock.
RescanStuck(b) ==
  /\ \E m \in Msgs : Box[m] = b /\ Stuck(link[m])
  /\ link' = [m \in Msgs |-> IF Box[m] = b /\ Stuck(link[m]) THEN NoLink ELSE link[m]]
  /\ UNCHANGED <<row, ruled, acct, lastId, txn, release, pass>>

\* handleRescanParserRule: the links nothing could read go, for one mailbox
\* after the other.
ClearForRule(b) ==
  /\ ruled
  /\ link' = [m \in Msgs |->
       IF Box[m] = b /\ link[m].as \in {"pending_account", "unrecognized"} THEN NoLink ELSE link[m]]
  /\ UNCHANGED <<row, ruled, acct, lastId, txn, release, pass>>

-----------------------------------------------------------------------------
(* ingest.Run.                                                             *)

Local(b, p) ==
  /\ pass' = [pass EXCEPT ![b] = p]
  /\ UNCHANGED <<row, link, ruled, acct, lastId, txn, release>>

\* Where a pass goes when it has dealt with what it has in hand.
Onward(p) ==
  [p EXCEPT !.pc = IF p.got # {} THEN "read" ELSE IF p.todo # {} THEN "fetch" ELSE "off",
            !.rules = @ /\ p.got \cup p.todo # {}, !.into = 0, !.as = "none", !.txn = 0]

\* loadRules.
Start(b) ==
  /\ pass[b].pc = "off"
  /\ Local(b, [NoPass EXCEPT !.pc = "select", !.rules = ruled])

Select(b) ==
  /\ pass[b].pc = "select"
  /\ Local(b, Onward([pass[b] EXCEPT !.todo = Candidates(b)]))

\* FetchRaw: what has vanished, or does not parse as a message, is skipped.
Fetch(b, got) ==
  LET batch == First(pass[b].todo, Batch) IN
  /\ pass[b].pc = "fetch" /\ batch \cap Poison = {}
  /\ got \subseteq batch
  /\ Local(b, Onward([pass[b] EXCEPT !.todo = @ \ batch, !.got = got]))

\* Mutation: the first failing batch ends the pass.
FetchFailsForGood(b) ==
  /\ pass[b].pc = "fetch"
  /\ Local(b, NoPass)

\* One failing batch must not end the pass.
FetchFails(b) ==
  /\ pass[b].pc = "fetch"
  /\ Local(b, Onward([pass[b] EXCEPT !.todo = @ \ First(@, Batch)]))

\* ctx is done between two batches.
Stop(b) ==
  /\ pass[b].pc = "fetch"
  /\ Local(b, NoPass)

\* Persist up to resolveOrPend.
Read(b) ==
  /\ pass[b].pc = "read"
  /\ Local(b,
       IF ~pass[b].rules THEN [pass[b] EXCEPT !.pc = "link", !.as = "unrecognized"]
       ELSE IF ~acct.active THEN [pass[b] EXCEPT !.pc = "link", !.as = "pending_account"]
       ELSE [pass[b] EXCEPT !.pc = "insert", !.into = acct.id])

\* persistTransaction: INSERT OR IGNORE.  The account may be gone by now.
Insert(b) ==
  LET e == Event[Current(b)] IN
  /\ pass[b].pc = "insert"
  /\ \/ /\ pass[b].into # acct.id
        /\ Local(b, [pass[b] EXCEPT !.pc = "link", !.as = "unrecognized"])
     \/ /\ pass[b].into = acct.id /\ txn[e] # 0
        /\ Local(b, [pass[b] EXCEPT !.pc = "existing"])
     \/ /\ pass[b].into = acct.id /\ txn[e] = 0
        /\ lastId' = [lastId EXCEPT !.txn = @ + 1]
        /\ txn' = [txn EXCEPT ![e] = lastId.txn + 1]
        /\ pass' = [pass EXCEPT ![b].pc = "link", ![b].as = "transaction",
                                ![b].txn = lastId.txn + 1]
        /\ UNCHANGED <<row, link, ruled, acct, release>>

\* Mutation: a label that no reader of message_links knows.
ExistingIsDuplicate(b) ==
  /\ pass[b].pc = "existing"
  /\ Local(b, [pass[b] EXCEPT !.pc = "link", !.as = "duplicate"])

\* Mutation: a transaction that is already there is not this message's.
ExistingIsUnrecognized(b) ==
  /\ pass[b].pc = "existing"
  /\ Local(b, [pass[b] EXCEPT !.pc = "link", !.as = "unrecognized"])

\* persistTransaction: the row the ignored INSERT collided with.
Existing(b) ==
  LET id == IF pass[b].into = acct.id THEN txn[Event[Current(b)]] ELSE 0 IN
  /\ pass[b].pc = "existing"
  /\ Local(b, [pass[b] EXCEPT !.pc = "link", !.txn = id,
                 !.as = IF id = 0 THEN "unrecognized" ELSE "transaction"])

\* processOne: the INSERT of the link fails when the message or the
\* transaction is gone, and does nothing when the Message-ID has a link.
Link(b) ==
  LET m == Current(b)
      id == pass[b].txn
  IN
  /\ pass[b].pc = "link"
  /\ IF /\ row[m]
        /\ id # 0 => id = txn[Event[m]]
        /\ \A n \in Twins(m) : ~Linked(n)
     THEN link' = [link EXCEPT ![m] = [as |-> pass[b].as, txn |-> id, live |-> TRUE]]
     ELSE UNCHANGED link
  /\ pass' = [pass EXCEPT ![b] = Onward([pass[b] EXCEPT !.got = @ \ {m}])]
  /\ UNCHANGED <<row, ruled, acct, lastId, txn, release>>

\* The process dies.
Crash ==
  /\ Crashes
  /\ release \/ \E b \in Mailboxes : pass[b] # NoPass
  /\ pass' = [b \in Mailboxes |-> NoPass]
  /\ release' = FALSE
  /\ UNCHANGED <<row, link, ruled, acct, lastId, txn>>

-----------------------------------------------------------------------------
PassStep(b) == Start(b) \/ Select(b) \/ Read(b) \/ Insert(b) \/ Existing(b) \/ Link(b)

Next ==
  \/ \E m \in Msgs : Index(m) \/ Forget(m)
  \/ SetRule
  \/ CreateAccount \/ ActivateAccount \/ ReleasePending \/ ArchiveAccount \/ DeleteAccount
  \/ \E e \in Events : DeleteTransaction(e)
  \/ \E b \in Mailboxes :
       \/ RescanStuck(b) \/ ClearForRule(b) \/ Stop(b) \/ PassStep(b) \/ FetchFails(b)
       \/ \E got \in SUBSET pass[b].todo : Fetch(b, got)
  \/ Crash

Spec == Init /\ [][Next]_vars

\* A pass in which only the unreadable batches fail.
GoodStep(b) ==
  \/ PassStep(b)
  \/ Fetch(b, First(pass[b].todo, Batch))
  \/ First(pass[b].todo, Batch) \cap Poison # {} /\ FetchFails(b)

\* The ticker syncs every mailbox again and again, and each sync ends in a
\* pass; handlers that were begun end.
Fairness == WF_vars(ReleasePending) /\ \A b \in Mailboxes : WF_vars(GoodStep(b))
Calm == ReleasePending \/ \E b \in Mailboxes : GoodStep(b)

-----------------------------------------------------------------------------
(* Properties.                                                             *)

TypeOK ==
  /\ row \in [Msgs -> BOOLEAN]
  /\ link \in [Msgs -> [as : {"none", "transaction", "pending_account", "unrecognized"},
                        txn : 0..MaxTxn, live : BOOLEAN]]
  /\ ruled \in BOOLEAN
  /\ acct \in [id : 0..MaxAccount, active : BOOLEAN]
  /\ lastId \in [acct : 0..MaxAccount, txn : 0..MaxTxn]
  /\ txn \in [Events -> 0..MaxTxn]
  /\ release \in BOOLEAN
  /\ pass \in [Mailboxes ->
       [pc : {"off", "select", "fetch", "read", "insert", "existing", "link"},
        rules : BOOLEAN, todo : SUBSET Msgs, got : SUBSET Msgs, into : 0..MaxAccount,
        as : {"none", "transaction", "pending_account", "unrecognized"}, txn : 0..MaxTxn]]

\* A link that points at a transaction is never cleared, moved or relabelled
\* while that transaction exists, whoever rescans, releases or imports.
CorrectLinksStay ==
  [][\A m \in Msgs : link[m].txn # 0 /\ link[m].txn = txn'[Event[m]]
       => link'[m].as = link[m].as /\ link'[m].txn = link[m].txn]_vars

\* A transaction comes into the ledger only for a message that is not yet
\* accounted for: what the user deleted, or a crash interrupted, is not brought
\* back by mail that was moved and indexed again.  (A message without an ID, or
\* with a copy in its own mailbox, has no such protection.)
DeletedStaysDeleted ==
  [][\A e \in Events : txn[e] = 0 /\ txn'[e] # 0 =>
       \E b \in Mailboxes :
         /\ pass[b].pc = "insert" /\ pass'[b].txn = txn'[e]
         /\ LET m == Current(b) IN Rfc[m] = NoId \/ Twins(m) # {m} \/ ~Linked(m)]_vars

Rank(m, S) == Cardinality({n \in S : n < m})
Blocked(m) ==
  LET C == Candidates(Box[m])
  IN m \in C /\ \E p \in Poison \cap C : Rank(m, C) \div Batch = Rank(p, C) \div Batch

\* Every finance message is accounted for in the end, whatever crashed, failed
\* or was interrupted: only what is fetched together with an unreadable body
\* stays behind.  Of the messages without an ID a mailbox links one, whichever
\* they are; the others are read in every pass.
LinkedInstead(m) == Rfc[m] = NoId /\ \E n \in Twins(m) : Linked(n)
MailSettles ==
  Fairness /\ <>[][Calm]_vars =>
    <>[](\A m \in Msgs : m \in Candidates(Box[m]) => LinkedInstead(m) \/ Blocked(m))

\* A rescan recovers everything recoverable: once the rule and the account are
\* there, each indexed alert ends up linked to the ledger's row for its event.
\* It also makes up for the releases that HeldMailReleased shows to be missed.
\* The events of messages without an ID reach the ledger too, linked or not.
Recovered(m) ==
  IF Rfc[m] = NoId THEN txn[Event[m]] # 0
  ELSE \E n \in Twins(m) : link[n].txn # 0 /\ link[n].txn = txn[Event[n]]
RescanHeals ==
  /\ Fairness /\ \A b \in Mailboxes : WF_vars(RescanStuck(b))
  /\ <>[][Calm \/ \E b \in Mailboxes : RescanStuck(b)]_vars
  => <>[](acct.active /\ ruled =>
            \A m \in Msgs : row[m] => Recovered(m) \/ Blocked(m))

\* accounts.go: mail that named the account before it existed "was held, not
\* dropped; the next sync now imports it".  With nothing running and the
\* account there, no mail is held.
HeldMailReleased ==
  acct.active /\ ~release /\ (\A b \in Mailboxes : pass[b] = NoPass) =>
    \A m \in Msgs : link[m].as # "pending_account"
=============================================================================

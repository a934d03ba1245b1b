# Wollow in TLA+

Wollow is a self-hosted server for mail and personal finance: a Go program over
one SQLite file, with a browser frontend. It keeps an index of IMAP mailboxes,
acts on messages for the user, recognises finance mail and turns it into ledger
rows, and keeps balances, holdings and bills. Hardly any of its hard problems
are in one function. They are in what happens when a background sync, a user's
click, a detached job, another mail client and a restart meet.

This directory specifies that behaviour in TLA+, checks it with TLC on small
instances, and proves the most important parts for every instance with TLAPS.

## What the program consists of

All paths are below `src/backend`.

| Component | State | Operations | What must be right |
|---|---|---|---|
| Mailbox sessions, `internal/mail/mailapi/server.go` | one channel of capacity one per mailbox | `WithProvider`: wait, load credentials, connect, run, close | one user of a mailbox at a time; no way out leaves the lock taken; nobody starves; a cancelled caller leaves |
| Detached jobs, `internal/platform/jobs` | a status per key | `Start`, `Report`, `State` | at most one job per key; its status is true; it ends |
| Background sweeps, `cmd/server/main.go` | a ticker each | sync all mailboxes, refresh prices, shut down | stops when told to |
| Message index, `internal/mail/sync` | `messages`, `sync_state` | `SyncAccount` | never loses a message that exists; converges |
| Message actions, `mailapi/messages.go`, `senders.go`, `mail/imap_bulk.go` | the server's mailbox and `messages` | read, flag, delete, archive: one, many, or by sender | the index forgets only what is gone |
| Finance ingest, `internal/money/ingest` | `message_links`, `transactions`, `bills` | `Run`, `RescanStuck`, `ClearPendingFor`, `ClearForRule` | every finance message is accounted for once; nothing comes back after it was deleted |
| Finance accounts, `internal/money/moneyapi/accounts.go`, `transactions.go` | `accounts`, `transactions` | create, edit, archive, delete, set the balance | held mail is released; balances follow |
| Ledger, `internal/money/ledger` | balances, snapshots, trades, positions, rates | `RecomputeAccountBalance`, `RecordBalanceSnapshot`, `ResolveHolding`, `RecordTrade`, `RecomputeHolding`, `SetRate`, `SetMarketRate` | a balance is the newest anchor and what came after it; a position is its trades replayed; the user's rate wins |
| Investments, `moneyapi/investments.go` | `investments`, `investment_trades` | create, edit, delete and price a holding; enter, edit, delete a trade | figures follow from the trades; a typed price or symbol stands |
| Transfers and bills, `moneyapi/transfers.go`, `bills.go` | `transfer_suggestions`, `linked_txn_id`, `bills` | scan, confirm, dismiss, link, unlink, offer, pay | links are mutual; what is settled stays settled |
| Statement import, `moneyapi/import.go`, parsers | `transactions`, `investments` | import in one transaction, or line by line | a statement imported twice changes nothing |
| Market data, `internal/money/marketdata` | prices, symbols, rates | read, fetch, write back | an edit made meanwhile survives |
| Transaction classifier, `money/txnclassify`, `moneyapi/ai.go` | `transaction_classifications`, categories | a pool of workers with one cursor; apply, dismiss | a pass writes over nothing; a doubt reaches a person |
| Mail classifier, `mail/classifier` | `classifications` | a pool of workers with one cursor, beside everything that changes the index | each message once per pass; each answer to its own message |
| Dashboard, `moneyapi/dashboard.go` | none | sums over transactions | nothing is counted twice or left out |
| Login, `platform/auth`, `platformapi` | token buckets, settings | throttle, log in, save settings | limits hold at their edges |
| Database, `platform/db` | the file and its migrations | open, migrate | idempotent |
| Parsers, mail parsing, AI and market clients, dashboards, frontend | none, or read only | | not modelled |

How they interact:

* HTTP handlers run one goroutine each. The ticker's goroutine and the jobs'
  goroutines run beside them.
* Whatever talks to a mailbox should do so inside `WithProvider`, and mostly
  does. A sync runs the index pass and then the ingest over the same session
  (`AfterSync`).
* Everything else is shared through SQLite. `db.go` allows one connection, so a
  statement is atomic and a transaction excludes every other statement. What
  takes two statements can be interleaved with anything. This is the granularity
  of every module here.
* The process may die between any two statements. Tables survive, locks, jobs and
  sessions do not.

## Modules

| Module | Of | Extends or instantiates |
|---|---|---|
| `MailboxMutex` | what `WithProvider` promises | |
| `MailboxSession` | `WithProvider`, jobs, the sync ticker, direct handlers | `MailboxMutex`, by a refinement mapping |
| `MailboxSessionProofs` | proofs about it | `MailboxSession`, `TLAPS` |
| `MailIndex` | the sync pass, message actions, the IMAP server | |
| `MailIndexProofs` | proofs about it | `MailIndex`, `TLAPS` |
| `Classifier` | the mail classifier beside the index | `MailIndex` |
| `ClassifierProofs` | proofs about it | `Classifier`, `TLAPS` |
| `Ingest` | the ingest pass and the handlers around it | |
| `MCIngest` | its mail, for TLC | `Ingest` |
| `MCIngestSettles` | the mail of its liveness run, for TLC | `Ingest` |
| `IngestProofs` | proofs about it | `Ingest`, `TLAPS` |
| `SumFacts` | facts about sums over finite sets and about least elements | `TLAPS` |
| `Ledger` | the balance of an account and everything that moves it | |
| `MCLedger` | its symmetry, for TLC | `Ledger` |
| `LedgerProofs` | proofs about it | `Ledger`, `SumFacts` |
| `Holdings` | positions, trades, prices, symbols and exchange rates, and the market refresh | |
| `HoldingsProofs` | proofs about it | `Holdings`, `SumFacts` |
| `MCHoldings` | its scenes, for TLC | `Holdings` |
| `Bookkeeping` | edits, categories, transfers, suggestions, the classification pass, bills, cash flow | |
| `MCBookkeeping` | its scenes, for TLC | `Bookkeeping` |
| `BookkeepingProofs` | proofs about it | `Bookkeeping`, `SumFacts` |

The operators introduced by a comment that begins with *Mutation* are the
definition below them with one plausible bug. They are used nowhere in the
specifications. Putting one in place of the definition it accompanies must break
a property: this is how it was established that each property can fail.

### MailboxSession

A goroutine is identified with what it serves: a request, the ticker, or a
mailbox's sync job. `pc` is its place in `WithProvider`, `holder[a]` the
goroutine whose token fills the channel of mailbox `a`. Go's channels serve
blocked senders in order and a receive hands the channel to the oldest of them in
the same step. `Release` models that: `ahead[p]` holds the senders parked before
`p`. The two branches of the `select` are `Acquire` or `Park`, and `GiveUp`. When
both are ready the model, like Go, takes either. After that there is one
action per early return (`CredentialsFail`, `ConnectFails`, `ConnectTimesOut`),
`Close` and `Unlock` are the two deferred calls in their order, and
`Return` is the caller's end. `ConnectTimesOut` leaves the dial running in its
goroutine (`late`), as `NewIMAPProvider` does: it fails (`LateFails`), or logs in
when nobody waits any more (`LateLogsIn`), possibly beside the session of the
mailbox's next user, and then the goroutine that the timeout started receives the
session and closes it (`LateCloses`). `Directs` are the single-message
handlers, which call `providerFactory` without the lock.

`MailboxMutex` is three actions long: enter a free mailbox, leave, restart.
`MutexSpec` says that `MailboxSession` implements it when a user of a mailbox is a
goroutine that dials or has a session through `WithProvider`.

Fairness: each goroutine keeps running. That includes the call in hand, because
the dial has `connectTimeout` and the IMAP client sets deadlines on its reads.
An abandoned dial may go on for ever, but the session it yields is closed
(`DetachedWorkEnds`, which also says that a started sync job ends).
`CancelledCallerLeaves` assumes only that the goroutine which can give up does;
the holder may be stuck for ever. Starting, arriving, cancelling and deleting
are never fair.

### MailIndex

One folder: `box` is the server's view, `row` that of the `messages` table, and
`nextUid` grows, since a UID is given once. A message is absent, unread or read;
the starred flag travels like the read flag and headers do not change. The sync
pass is one action per IMAP call or statement, with its local variables in
`sync`: list UIDs, read the stored ones, fetch a batch and store it until
nothing is left, prune, save the mark. A handler or job is a record in
`client`:

* `direct`: one message, no lock, act on the server and then on the index;
* `bulk`: under the lock on the server chunk by chunk, then on the index after
  the lock is given back;
* `job`: server and index alternate chunk by chunk, all under the lock, over a
  list of UIDs looked up when the request arrived.

`ProviderCall` may report less than it did (an answer is lost) and may end with
an error; it never reports what it did not do. Other clients flag or remove
messages at any time (`Elsewhere`).

`IndexSettles` assumes that passes are run again and again, that a queued client
gets its turn whenever the lock keeps becoming free (proved and checked as
`CallerServed` in `MailboxSession`) and, from some point on, nothing new from
outside and no failure. It says that the index then has exactly the server's
messages, with the right flags on the newest `Window` of them, which is all the
code promises (`refreshWindow`).

### Classifier

`MailIndex` with `classifier.Run` beside it, which takes no mailbox lock. The variables
of the index are those of `MailIndex`, and each of its steps also does what the
foreign key does: the label of a deleted row goes (`Cascade`), and a message that the
pass has loaded is noted as gone. `pass` holds the messages loaded and those the cursor
has passed; `worker` what each goroutine asks about. A label belongs to a row id, and ids
are never given twice: when a sync stores a message again under the UID of one that
was deleted, the answer about the old row is refused by the foreign key.

`OneAnswerEach` speaks of all goroutines and of the index at once: none asks about a
message that has a label or that another one asks about, no answer lands on the
successor of a deleted message, no label outlives its row, and when the goroutines are
done the whole list has had its turn, whatever failed. The job's context is detached, so
a pass is never cancelled.

In the scene "index" there is no classifier; in the scene "labels" the index is
smaller (no flags change, handlers only delete single messages, a sync does not fail
half-way), because a label depends only on rows coming and going. The proof makes no
such difference.

### Ingest

`link[m]` is the `message_links` row for a message: what it was read as, the
transaction it points at, and whether it still points at an index row
(`ON DELETE SET NULL`). The pass of a mailbox selects its candidates, fetches
bodies in batches and for each message resolves the account (`Read`), inserts the
transaction (`Insert`), looks for the one it collided with (`Existing`) and
inserts the link (`Link`): four statements, and between them the user may
create, archive or delete the account, delete the transaction or the message,
change the rule or ask for a rescan. `Poison` messages fail the fetch of their
batch. Account creation and `releasePending` are two steps (`CreateAccount`,
`ReleasePending`).

One finance account and one kind of mail, the transaction alert, stand for all.
Events are what alerts are about; two alerts of the same event have the same
dedupe hash.

### Ledger

`txn`, `stated`, `opening` and `current` are the columns of `transactions`,
`balance_snapshots` and `finance_accounts` that a balance depends on. A transaction is
its account, day, signed amount and printed closing balance. `work[w]` is a
handler: what it has read and, in `todo`, the accounts it has yet to recompute.
`RecomputeAccountBalance` is four or five steps (`ReadClosing`, `ReadStated`,
perhaps `ReadOpening`, `Sum`, `Write`), since each of its queries is a statement of
its own. A handler changes the tables first and recomputes afterwards. The exception
is the statement import, which does both in one transaction (`ImportStatement`). An update
or deletion looks up the account before it edits (`LookUp`, `Edit`), a correction of the
opening balance reads the account before it writes (`ReadAccount`, `Correct`), and
an alert that also states a balance recomputes twice. `Touch` is a handler that
recomputes although it changed nothing a balance depends on.

`Balance(a)` says what the balance should be without saying how it is computed:
order all movements and known figures in time, take the latest figure and add
what came after it. `ExactUnlessOvertaken` compares the code with it.
`Valid(w)` says when a handler's reads still hold. It makes `LostOnlyByRace` precise: the
code has no lock around edit and recompute, so a wrong balance can be left behind. The
property says that this takes a crash or an overtaken read, and that no handler ever
forgets an account. `BalanceHeals` says that it does not last: once the tables are
left alone, the next recompute of the account sets it right. Fairness: handlers go on, and
the process is restarted.

### Holdings

`hold[h]` is a row of `investments` (instrument, quote symbol, quote error, last price
and the derived figures), `trade[t]` one of `investment_trades`, `rate` the source
of the currency's row in `fx_rates`. `src` is the mail or statement line a trade was
read from, which is what the unique index on `dedupe_key` is about. One currency
besides the rupee stands for all.

`RecomputeHolding` is three steps, for it is three statements: replay the trades
(`ReplayStep`), read the last price (`LastPrice`), write (`WriteFigures`).
`work[w].then` says what comes next in the handler that called it. A trade by mail or a
statement line goes through `LookUp`, perhaps `OpenForTrade`, for a statement
`SnapshotCount`, then `RecordTrade`, the recompute, and for a statement `Forward` and
`StatementPrice`. A price is a write of the price, `CountTrades`, and then the recompute
or, for a holding without trades, `Revalue`.

`Refresh` is `marketdata.Run`. Its `snap` is what it loaded of each holding, and it keeps
working on that: it searches for symbols (`ResolveSymbol`), loads the trades that lack a
rate and fills them one by one (`Backfill`, `SetTradeRate`), recomputes what it touched
in the order of a Go map, quotes each holding (`Quote`, `Quoted`) and looks at the rate
of the currency (`Currencies`, `SetMarketRate`, `SetRate`). Every call to the network may fail. In between, everything
else happens.

`ReplayAll` is `replayTrades`: a fold over the trades in order, sales at average
cost. `ReplayConserves` compares it with sums that know nothing of an order: units are bought less
sold; cost is spent or came back, less the gain. `FiguresLostOnlyByRace` is for
positions what `LostOnlyByRace` is for balances: whoever changes a trade or a
price owes the position a recompute (`Owes`), and a position may be left with figures
that nobody owes it only by a crash or by a write on reads that were overtaken
(`Stale`). `OncePerSource` is the dedupe of trades under concurrent passes and retries,
`SecondOnlyIfOvertaken` and `SeedsOnlyEmpty` are the two look-then-insert sequences of an
import, and the remaining four say how far what the user typed
is safe from what is fetched.

### Bookkeeping

`txn[i]` is a transaction with what mail and the user make of it: payment, type, kind
of transfer, category, merchant, link, and `read`, its row of
`transaction_classifications`. `sugg[p]` is the suggestion of a pair, `bill[b]` a bill.

Handlers are in `work`: ingest of a mail and the broker transfer it may turn into
(`IngestMail`, `MarkBroker`); an edit that reads the category before and spreads it
afterwards (`UpdateTransaction`, `EditWrite`, `Spread`); bulk actions; a scan that finds
pairs first and inserts them one by one (`Scan`, `Suggest`); confirm, link and unlink, leg by
leg (`LinkLeg`, `UnlinkLook`, `UnlinkClear`), with the bills they offer
(`Arrived`, `OfferBills`); applying a reading in three statements (`ApplyReading`, `ApplyWrite`,
`ApplyMark`); a bill sent by mail (`BillMail`, `UpsertBill`); and the
dashboard's two sums. The classification job is in `pass` and its goroutines in
`ask`: `Claim` moves the cursor under the mutex, `Ask` is the model's answer, cut to what
`Parse` accepts, and each member of the group is then filled and stored in two statements
(`FillEmpty`, `StoreReading`). `Open` is the migration that merges duplicate bills
before the unique index is made.

`OneSidedOnlyByRelink` compares the two rows of a link: one is left
pointing at a row that does not point back only by a crash, by linking over another link, or by
a handler that was overtaken between its legs. `PassOnlyFills` is the promise of
`applyToTransaction` at the moment of its write, not of the pass's read. `HiddenOnlyByChoice` says
that a reading which disagrees with its row or doubts itself is not put away by the pass. `SettledStays`
joins what is settled once: suggestions that were answered, bills that are paid, and
what a payment is offered. `DashboardCountsOnce` says that expenses and the
kinds of transfer partition what left the counted accounts, although they are two
statements: a row that did not change in between is in one line, and only the others may be
in both or in neither.

### Scenes

All handlers of these two modules at once are far beyond TLC, and most have nothing to do
with each other. `scene` is a variable that is chosen in `Init` from the constant `Scenes`
and never changes: it names the handlers in play and the rows there may be. One run
explores all scenes side by side, with the same properties for each. A theorem about the module is about
any set of scenes, the one with every handler included.

## Runs

| Run | Instance | Shows |
|---|---|---|
| `MailboxSession` | one mailbox, one request, its sync job, the ticker, one direct handler, one abandoned connect | exclusion, no leaked lock, no lost wakeup, true job status, everyone served or gone, jobs end and late sessions are closed, the mutex is implemented |
| `MailboxSession_direct` | the same | **violated**: two sessions for one mailbox |
| `MailIndex` | module `Classifier`: two messages, batch, window and chunk of one, one client of any kind, every outside change, failures and crashes; and a smaller index with two goroutines of the classifier | no live message leaves the index, the saved mark is honest, calm passes converge; each answer reaches its own message |
| `MailIndex_rest` | two messages, one direct handler, nothing from outside, no failure | **violated**: the list shows an old flag with nothing running |
| `Ingest` | two mailboxes, three messages, one of them unreadable and two of them copies, two accounts and two transactions in all, crashes | a correct link is never touched, nothing deleted comes back |
| `Ingest_settles` | module `MCIngestSettles`: one mailbox, two bodies per fetch; an unreadable message, one without a Message-ID, and either an alert that has one or a second without | everything that is not fetched together with the unreadable one is accounted for in the end; of the messages without an ID one is linked and all are imported; a rescan recovers what is recoverable |
| `Ingest_held` | one mailbox, one message | **violated**: held mail stays held |
| `Ledger` | one account, two days, two transactions, two handlers: entries, alerts, imports, stated balances | an undisturbed recompute is exact, no account is forgotten, lost balances heal |
| `Ledger_moves` | two accounts, one day, two transactions, two handlers: imports, edits, moves, bulk deletion, corrections | no account is forgotten where a handler owes more than one |
| `Holdings` | thirteen scenes of two handlers: up to two positions, three trades, two days | positions follow their trades; no source is counted twice; what the user typed survives what is fetched, but for overtaken reads |
| `Bookkeeping` | seventeen scenes of two handlers, or one and a pass of two goroutines: up to three transactions and four bills | links are mutual unless overtaken, a pass writes over nothing, doubts stay visible, what is settled stays settled, the cash flow adds up |
| `Ledger_opening` | one account, one handler | **violated**: imported data undoes the user's correction |

Why these bounds are enough to be interesting. With one mailbox, three goroutines
that queue are the least for which the order of service matters (a holder, an
older and a newer waiter). Mailboxes do not share state, and the proofs cover any
number. Two messages with a batch, window and chunk of one give a pass with several
batches, a refresh that leaves a message out, and a job of two chunks with a step
of anything in between. One client suffices for a race because the pass and other
mail clients are actors of their own; the proofs cover any number of clients. In `Ingest`, two
mailboxes with a copy of one alert make two passes collide on one transaction;
a second account is needed for a stale account id, and a second transaction for
re-importing a deleted one. In `Ingest_settles`, batches of two put one readable
message beside the unreadable one and one behind it. Which messages ever reach the
mailbox is chosen at the start (`scene`), so that the two without a Message-ID, which share the
empty one in the unique index on (mail_account_id, rfc_message_id), compete in one
half of the run, and one of them stands beside a message with an ID in the other. All four
at once are beyond TLC's five minutes.

In `Ledger`, two days and two transactions give every order of figures and
movements, ties included; one amount and one figure are enough, because adding,
dropping or repeating a movement changes the sum. Two handlers are the least that can overtake
each other. `Origins` chooses the handlers of a run, to keep both runs small.

In `Holdings`, two handlers are the least that can overtake each other, two days give a
trade a place before or after another, three trades make a sale between two buys
depend on their order, and a second position is what a lost look-up opens. In
`Bookkeeping`, a third transaction is needed to link over a link, two goroutines
to claim side by side, two rows of one narration to make a group, and two
bills of one statement to be merged. The scenes pair the handlers that touch the same
columns.

`MaxAbandoned`, `MaxUid`, `MaxAccount`, `MaxTxn`, `MaxHolds`, `MaxTrades`, `MaxRows` and
`MaxBills` are bounds of the model only.
`Room` makes sure that the bound on transactions never disables the pass: it
limits deletions instead. `CHECK_DEADLOCK FALSE` appears in the runs that end in a
counterexample, and in `Holdings` and `Bookkeeping`, where a scene stops when its rows
are used up and nobody is at work.

### What the violated runs mean

* `OneSessionPerMailbox`. The comment of `WithProvider` (`server.go:90`) says that
  everything that touches a mailbox goes through it, "so a manual sync, the
  background ticker, and Money's ingest can never open competing IMAP sessions".
  Four message handlers connect on their own (`messages.go:370, 508, 563, 761`), so a
  user reading a message during a sync holds a second session.
* `ListCorrectAtRest`. `handleSetFlag` mirrors the flag "so the list stays correct
  between syncs" (`messages.go:582`). Running without the lock, it may be overtaken:
  the pass fetches the old flag, the handler stores the new one on the server and
  in the index, the pass stores the old one. The list is wrong until a later pass
  refreshes the message (`IndexSettles`), and for good once it is older than the
  refresh window.
* `HeldMailReleased`. Creating an account releases held mail once, and "the next
  sync now imports it" (`accounts.go:151`). A pass that has just found no account
  writes its `pending_account` link after that release, and the message is not
  selected again until a rescan (`RescanHeals`).

* `CorrectionWins`. When the user corrects an opening balance, "their correction wins:
  imported data is a helper here" (`accounts.go:189`). The recompute that follows
  overwrites it with the one implied by the earliest closing balance
  (`ledger.go:77`), if the account has any.

## Proofs

Everything here is checked by `tlapm` to the last leaf, from the named
assumptions on the constants alone.

`MailboxSessionProofs`, for any set of mailboxes, requests and handlers:
`TypeCorrect`; then one inductive invariant for the four safety properties.
`MailboxExclusive` is not inductive by itself: it has to be known that whoever is
between the send and the deferred receive is the `holder` (`OwnerInside`), that a
holder is inside (`TokenHasOwner`), and that nobody is parked on a free mailbox
(`NoLostWakeup`), for otherwise `Release` could hand over a lock nobody gave up.
From this follow `Exclusion`, `NoTokenLeftBehind`, `NobodyForgotten` and
`JobStatusCorrect`. `ImplementsMutex` is the refinement: `FinishUsers` shows what
giving back the lock does to the set of users, `UsersChange` what one goroutine's
move does, and each action is then an `Enter`, a `Leave`, a `Restart` or a
stutter of the mutex.

`MailIndexProofs`, for any number of messages and clients and any sizes:
`TypeCorrect`, `MarkCovered` (`SavedUidCovered`) and `LiveMessagesStay`
(`LiveRowsStay`). The argument rests on UIDs being given once: a message that is
gone stays gone (`GoneStaysGone`), so whatever the pass or a client has learnt to
be gone may be removed from the index however late. The inductive invariant has
one conjunct for each thing remembered across steps: `NothingAhead` (no one knows
of a UID before it is given, without which a list could be completed by a message
still to come), `RemovedIsGone` (a client's removed messages), `PrunedIsGone` (the
pass's), `ListComplete` (a list has everything not newer than its newest), and
`ListedInHand` (what was listed is indexed, still to be fetched, or gone), which
gives the mark its meaning when it is saved. `LargestBounds`, that `newestKnown`
really returns the largest UID, comes from the well-foundedness of the naturals.

`ClassifierProofs`, for any number of messages and goroutines: `ClassifierLeavesIndex`, that the
composed system implements `MailIndex`, whose theorems therefore hold for it, and
`AnswersReachTheirMessage` (`OneAnswerEach`). To be inductive it needs that a goroutine
asks only about what the cursor has passed, and that what is pending and not gone
is still in the index (`AnswerInv`). Of a step of the index the proof uses only `Cascade`.

`HoldingsProofs`, for any instruments, mails, days, handlers, scenes and bounds:
`Invariant` (`Inv`) and seven of the properties of the run. `Inv` has four parts. `Shaped`:
rows and locals have their fields. `Ordinal`: ids are handed out in order, and a trade
belongs to a position there is. `Knows(work[w])`: what a handler has read and may still
rely on, place by place; for instance that all positions of the instrument it is
about to open are newer than its look-up, or that a trade due for a rate has not changed its holding.
`OncePerSource`. The argument is the same for every action: it keeps the tables well
formed, it only adds, keeps or removes rows (`Grows`), and it leaves its own
worker with true knowledge (together `Good`). `OthersKeep` then gives that the others' knowledge is
not falsified, because every clause of `Knows` survives rows that come and go. From the
invariant follow `SourcesOnce`, `SecondPositionOvertaken`, `SeedsOnlyTheEmpty`,
`ManualRateStands`, `UserSymbolStands`, `StatementsMoveForward` and `TradeRatesOfTheirDay`.

`FiguresAreDerived` (`FiguresLostOnlyByRace`) looks at one step at a time. It
either leaves what the figures of h are made of alone and keeps its worker's debt to h, or
leaves its worker owing h a recompute, or leaves h without trades, or writes figures that are the
derived ones unless its reads were overtaken (`Cares`). Of the replay it uses only
that it depends on the trades of h alone (`SameRows`).

`TypeCorrect` needs a second invariant beside `Inv` (`ColumnsFilled`): every column holds
what it may (`Columns`), what a handler is about to write fits its column
(`Fits`), and at most one refresh is under way (`OneRefresh`, which is the mutex of
`marketdata.Refresher`). `ReplaysConserve` (`ReplayConserves`) is about any table of trades: a
replay of the first n of them and the sums of those n keep the same balance, for
one more trade adds to both alike, whatever was sold and in whatever order (`UnitsConserved`, `MoneyConserved`).

`SumFacts` is what makes such statements provable. A recursive function is a `CHOOSE` in
TLA+, and the induction theorems of the library cannot be used by the installed provers. Its
facts are proved by contradiction instead: if a sum, or a replay, failed to exist, to be
unique or to have its value, it would fail on a smallest set, or a
shortest sequence, and taking one element out of that gives the contradiction. In this way
`SigmaFold` (a sum exists), `FoldUnique`, `SigmaTake` (any element may
be taken out first) and `SigmaSplit` (a sum over two parts) hold for all finite sets.

`IngestProofs`, for any mail, mailboxes, batch and number of crashes: `TypeCorrect`,
`IdsAreTheirOwn`, `CorrectLinksHold` (`CorrectLinksStay`) and `DeletedRowsStayDeleted`
(`DeletedStaysDeleted`). The invariant joins the types with `Ledgered` (no two rows share an id,
none has an id that was not given, and ids are left for what is still
without a row), `Labelled` (a link with a transaction's id is labelled as one) and, for each
pass, `Fits`: it works on messages of its own mailbox, has
one in hand whenever it looks at one, and what it has before it was not linked by another
(`Open`), unless it has no Message-ID or a copy with the same one was. `Open` is what keeps
a pass from touching a link that is correct, and from inserting for mail that is accounted for.

`LedgerProofs`, for any accounts, days, amounts, rows and handlers: `TypeCorrect`,
`RecomputesAreExact` (`ExactUnlessOvertaken`) and `BalancesLostOnlyByRace` (`LostOnlyByRace`).
`AnchorIsLatest` shows that the two queries of the code find the latest of all known figures
as the reference `Balance` orders them, `RecomputeIsExact` that the balance a recompute writes is the reference
for the tables it read, and `DueDependsOn` that the reference depends on
the rows of its own account only. The invariant says what a handler has read and still has to recompute
(`Sound`). Every step then `Answers` for every account: it does not touch it, or leaves it
owed to a handler, or writes what is due, unless its reads were overtaken (`Stale`).

`BookkeepingProofs`, for any rows, bills, handlers, goroutines of the pass, scenes and answers of the
model: `TypeCorrect` and all five action properties of the run. The invariant is
`Store` (rows have their columns, a link, a suggestion and a reading are of rows there are,
type and kind agree), `Issued` (one bill per statement once the database is open),
`Locals` (what a handler remembers can be written; its first sum is that of the table it saw)
and `Passes`: no two groups of a pass share a row, whether claimed or not, and none of their rows
has a reading. The last clause is what `PassesOnlyFill` rests on. It survives every handler,
because nothing but the pass gives a row a reading that had none (`StaysUnread`).
`NobodyAbandons` (`OneSidedOnlyByRelink`) goes through the three steps that change links, `DeleteTransactions`,
`LinkLeg` and `UnlinkClear` (`Handled` shows that there is no fourth), and for each through the places
of the row: it is the one written, the one its link names, or neither. `CountedOnce` splits the
sum of each statement (`TotalParts`) into the rows that both see alike and the others, and the
rows alike by type. `SettledNotUndone` compares how many bills come before one that is paid exactly and
before one that is not.

Most of these proofs have the same shape. An invariant joins the tables, what a handler
remembers, and how the two are still related; one lemma per action shows that it is kept; one more says
what a step can do to what the property is about; the theorem puts them together.

### Assumptions

The theorems rest on the assumptions that the modules name, which TLC evaluates in every run.
`HoldingsAssumption` says that deposits
are in rupees and are no broker's instrument, days and rates are naturals and `Now` is after every day,
mails report on known instruments, the bounds of a scene are within those of the module,
and `None` is none of the values it is told apart from. `TradesAssumption` says that a trade
is a purchase or a sale of a natural number of units for a natural amount. Units may be zero: a mail that states
neither units nor a price is recorded so. `DataAssumption` and `NoneAssumption`
say of `Ledger` that days are positive naturals, finitely many, that amounts and figures are integers, and that `None` is no account.
`MailAssumption` says that messages are numbered and finitely many, `BoundAssumption` that there are
as many transaction ids as events. `BookkeepingAssumption` bounds the scenes. `InputAssumption` says
that payments and statements have their fields and that a form has one of the three types. The last is
what the screens offer (`EditTransactionModal.tsx:133`); the handlers take any string. A row of
another type counts as what was spent, but is in no breakdown (`dashboard.go:355`).

### Only model-checked

All liveness properties: `CallerServed`, `DetachedWorkEnds`, `CancelledCallerLeaves`, `IndexSettles`, `MailSettles`,
`RescanHeals` and `BalanceHeals`. They rest on fairness and on `ENABLED`, which TLAPS does not handle.
Every other property of a passing run is a theorem, and `MutexSpec` is one. The
properties of the runs that end in a violation are false, so there is nothing to prove.

## Plan

1. A composition of `MailboxSession` and `MailIndex` in which the pass's exclusion of
   bulk actions comes from the lock, with the refinement proved.
2. That a sale followed by a purchase, or a trade entered late, changes a replay only from its day
   on, as a lemma about the fold.
3. The safety halves of the liveness properties, as theorems: the measure that a calm pass of
   `MailIndex` and a recompute of `Ledger` bring down, and that no step brings up.
4. The login throttle on integer time; that every message is labelled in the end if passes
   are started again and again.

## Not modelled

Parsers, regular expressions of rules, mail parsing, AI prompts and market clients
are functions on text or network clients. Lists, and the dashboard but for its cash flow,
read only. Crypto and tokens are taken to work. The frontend is another program. Demo data is
written once into an empty file. Calls to IMAP are modelled by what the code
relies on: UIDs grow and are never reused while `UIDVALIDITY` stays, which the
code does not check.

Of `Classifier`: what a label says, the model's clients, and the two counts of the status. The login throttle is one mutex around
arithmetic on the clock.

Of `Holdings`: renaming a holding, a trade in another currency than its holding's, notes,
and a quote in another currency, which counts as a failed quote. A deposit that has trades is left out of
`FiguresLostOnlyByRace`, because a summary that is imported again overwrites its figures by design.

Of `Bookkeeping`: classifying chosen transactions again, because the code cannot do it
(see below); progress counters; what a statement import adds (it is among the rows a
scene starts with); the PDF of a bill; due dates and the tolerance of amounts in the
order of the bills offered; net worth, breakdowns and the date range of the dashboard. Balances
are in `Ledger`, and alerts that repeat one another in `Ingest`.

## Seen on the way

Differences between what the code does and what a reader would expect, met while modelling.
No run is about them.

* `loadPending` with explicit ids selects 12 columns and scans 13 (`txnclassify/run.go:290`
  and `:312`), so classifying chosen transactions again always fails.
* `invested_inr` stays 0 after all trades of a holding are deleted and the user enters
  figures.
* A renamed holding no longer matches the name its next trade is looked up by.
* A sale recorded before its buy is replayed against nothing; the cost basis stays that of the buy.
* `SetTradeRate` updates by id what was loaded before the network calls
  (`marketdata/refresh.go:339`), so a trade that was moved meanwhile keeps the rate of its old day.
* Spreading a category compares `TRIM(LOWER(narration))` (`transactions.go:462`) while the
  classifier also collapses inner spaces.
* A scan finds pairs with `a.id < b.id` only, so an inflow that was recorded first is never suggested.
* Two pending suggestions that share a transaction can both be confirmed, which leaves a
  one-sided link; `Dismiss` does not look whether the suggestion was confirmed.
* Merging duplicate bills keeps the paid status of the earliest copy.
* `CurrentStatus` counts messages and labels in two statements (`classifier.go:114` and `:120`), so
  the pending count it reports may be negative for a moment.
* Nothing recomputes a holding after a crash until its next trade or price.
* A mail whose rule reads an amount but neither units nor a price is recorded as a trade of no
  units: a purchase then adds cost without units, and what a sale brought in is in no figure of the holding.
* The transaction handlers take any string for a type (`transactions.go:197` and `:249`).

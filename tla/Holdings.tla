------------------------------- MODULE Holdings -------------------------------
(***************************************************************************)
(* The positions of a portfolio and everything that moves them: trades     *)
(* confirmed by mail or entered by hand, holding statements, deposit       *)
(* summaries, edits, prices typed or fetched, exchange rates.              *)
(*                                                                         *)
(* A position is derived from its trades: handlers change the trades and   *)
(* then call ledger.RecomputeHolding, which replays them, reads the last   *)
(* price and writes the figures, in three statements.  A market refresh    *)
(* reads what it is to work on, asks the network, and writes back.  Every  *)
(* statement is atomic (one SQLite connection); handlers, mail passes and  *)
(* the refresh interleave between statements.                              *)
(***************************************************************************)
EXTENDS Integers, FiniteSetsExt

CONSTANTS Workers, None,
          Instruments,   \* what a broker trades, by identifier or name
          Rupee,         \* those priced in INR; the others share one currency
          Deposit,       \* the instrument that deposit summaries report
          Days,          \* trade and statement dates, as numbers
          Now,           \* the date of a live or typed price
          DayRate,       \* DayRate[d]: the close of the currency on day d
          Mails,         \* Mails[m]: the trade that confirmation m reports
          Line,          \* [units, price, value]: a line of a holding statement
          Forms,         \* [units, cost]: figures the user enters
          Market, Typed, \* a live price, and a price the user types
          MaxHolds, MaxTrades,   \* bounds: rows ever made
          Scenes         \* bounds: the handlers in play, how many of the rows they make, and
                         \* orders: [side, shares, amt] of the trades entered by hand

VARIABLES
  scene,      \* never changes
  up,         \* the process is running
  hold,       \* investments
  trade,      \* investment_trades
  nextHold, nextTrade,   \* ids are AUTOINCREMENT
  rate,       \* fx_rates.source of the currency
  work        \* work[w]: locals of a handler

tables == <<hold, trade, nextHold, nextTrade, rate>>
vars == <<scene, up, tables, work>>

HoldIds == 1..MaxHolds
TradeIds == 1..MaxTrades
Assets == Instruments \cup {Deposit}

ASSUME HoldingsAssumption ==
  /\ Rupee \subseteq Assets /\ Deposit \in Rupee /\ Deposit \notin Instruments /\ None \notin Assets \cup {"auto", "manual", "statement"}
  /\ Days \subseteq Nat \ {0} /\ Now \in Nat /\ \A d \in Days : d < Now
  /\ DayRate \in [Days -> Nat] /\ \A m \in DOMAIN Mails : Mails[m].inst \in Instruments
  /\ {MaxHolds, MaxTrades} \subseteq Nat
  /\ \A s \in Scenes : s.holds \in 0..MaxHolds /\ s.trades \in 0..MaxTrades
\* A trade has a side, units and an amount, none of them negative.  Only a mail that states
\* neither units nor price gives no units.
ASSUME TradesAssumption ==
  /\ \A o \in {Mails[m] : m \in DOMAIN Mails} \cup UNION {s.orders : s \in Scenes} :
       o.side \in {"buy", "sell"} /\ o.shares \in Nat /\ o.amt \in Nat
  /\ \A m \in DOMAIN Mails : Mails[m].day \in Days
  /\ Line.units \in Nat /\ Line.value \in Nat

\* "": to be detected, "none": never priced, "auto": found by a search, "own": the user's.
Symbols == {"", "none", "auto", "own"}
NoPrice == [by |-> None, at |-> 0, val |-> 0]
Price(by, at, val) == [by |-> by, at |-> at, val |-> val]

\* The derived columns: inr and gainInr are NULL while a rate is missing.
Blank == [units |-> 0, cost |-> 0, inr |-> None, gain |-> 0, gainInr |-> None,
          value |-> 0, status |-> "active"]
NoHold == [inst |-> None, sym |-> "", err |-> FALSE, price |-> NoPrice, fig |-> Blank]

\* src: the mail or the statement a trade was read from, if any.
NoTrade == [of |-> 0, day |-> 0, side |-> "buy", shares |-> 0, amt |-> 0, rate |-> None, src |-> None]
Seed(inst) == <<"seed", inst>>

Exists(h) == h \in HoldIds /\ hold[h].inst # None
Of(T, h) == {t \in TradeIds : T[t].of = h}
Rows(T, h) == [t \in Of(T, h) |-> T[t]]
Backed(h) == h # 0 /\ Of(trade, h) # {}
Count(h) == IF Backed(h) THEN "trades" ELSE "none"

\* row: the trade to record; saw: what the handler has read and acts on; fig: figures
\* to write; bid: price to write; sym: symbol or rate source to write; then: what
\* follows a recompute.  A refresh (live) has snap: what it has loaded of each holding,
\* due: the trades due a rate, and todo.
Off == [pc |-> "idle", then |-> "idle", h |-> 0, row |-> NoTrade, inst |-> None, saw |-> None,
        fig |-> Blank, bid |-> NoPrice, sym |-> None,
        live |-> FALSE, snap |-> <<>>, due |-> <<>>, todo |-> {}]

Init ==
  /\ scene \in Scenes /\ up = TRUE
  /\ hold = [h \in HoldIds |-> NoHold] /\ trade = [t \in TradeIds |-> NoTrade]
  /\ nextHold = 1 /\ nextTrade = 1
  /\ rate = None
  /\ work = [w \in Workers |-> Off]

-----------------------------------------------------------------------------
(* replayTrades, over a given table.                                       *)

Flat == [units |-> 0, cost |-> 0, inr |-> 0, gain |-> 0, gainInr |-> 0, known |-> TRUE, sold |-> FALSE]
Lesser(a, b) == IF a < b THEN a ELSE b
Positive(a) == IF a > 0 THEN a ELSE 0

\* Mutation: the cost of what is sold stays in the position.
ReplayKeepingCost(p, t) ==
  LET r == IF t.rate = None THEN 0 ELSE t.rate
      m == IF t.side = "buy" THEN 0 ELSE Lesser(t.shares, p.units)
      q == [p EXCEPT !.known = @ /\ t.rate # None, !.sold = @ \/ t.side # "buy"]
  IN CASE t.side = "buy" ->
            [q EXCEPT !.units = @ + t.shares, !.cost = @ + t.amt, !.inr = @ + t.amt * r]
       [] t.side # "buy" /\ m <= 0 -> [q EXCEPT !.units = @ - t.shares]
       [] OTHER -> [q EXCEPT !.units = @ - t.shares, !.gain = @ + (t.amt * m) \div t.shares]

\* A buy adds to the position.  A sale takes its share of the cost at the average of
\* the moment; of a sale of more than there is, the part that is there.
Replay(p, t) ==
  LET r == IF t.rate = None THEN 0 ELSE t.rate
      m == IF t.side = "buy" THEN 0 ELSE Lesser(t.shares, p.units)
      cost == (p.cost * m) \div p.units
      inr == (p.inr * m) \div p.units
      got == (t.amt * m) \div t.shares
      q == [p EXCEPT !.known = @ /\ t.rate # None, !.sold = @ \/ t.side # "buy"]
  IN CASE t.side = "buy" ->
            [q EXCEPT !.units = @ + t.shares, !.cost = @ + t.amt, !.inr = @ + t.amt * r]
       [] t.side # "buy" /\ m <= 0 -> [q EXCEPT !.units = @ - t.shares]
       [] OTHER -> [q EXCEPT !.units = @ - t.shares, !.cost = @ - cost, !.inr = @ - inr,
                             !.gain = @ + got - cost, !.gainInr = @ + got * r - inr]

\* By date and then id.
Before(T, t, u) == T[t].day < T[u].day \/ (T[t].day = T[u].day /\ t < u)
LastOf(T, S) == CHOOSE t \in S : \A u \in S \ {t} : Before(T, u, t)
ReplayAll(T) ==
  LET pos[S \in SUBSET DOMAIN T] ==
        IF S = {} THEN Flat ELSE LET t == LastOf(T, S) IN Replay(pos[S \ {t}], T[t])
  IN pos[DOMAIN T]

\* What RecomputeHolding makes of a replay, before it knows the price.
Figures(p) ==
  LET cost == Positive(p.cost) IN
  [units |-> p.units, cost |-> cost, inr |-> IF p.known THEN Positive(p.inr) ELSE None,
   gain |-> p.gain, gainInr |-> IF p.known THEN p.gainInr ELSE None, value |-> cost,
   status |-> IF p.units <= 0 /\ p.sold THEN "closed" ELSE "active"]

\* The last known price, or the cost.
Valued(f, price) ==
  IF price.val > 0 /\ f.units > 0 THEN [f EXCEPT !.value = price.val * f.units] ELSE f

Derived(T, row, h) == Valued(Figures(ReplayAll(Rows(T, h))), row.price)

-----------------------------------------------------------------------------
(* Steps.  A worker's next locals are a function of its present ones.      *)

Set(w, me) == work' = [work EXCEPT ![w] = me]
Local(w, me) == Set(w, me) /\ UNCHANGED <<scene, up, tables>>
Begin(w, op) == up /\ op \in scene.on /\ work[w].pc = "idle"

\* UPDATE investments ... WHERE id = ?
Put(h, row) == hold' = [hold EXCEPT ![h] = IF @.inst = None THEN @ ELSE row]

Recompute(me, then) == [me EXCEPT !.pc = "replay", !.then = then]

\* Where a refresh goes when a phase has no more to do.
ToRates(me) == [me EXCEPT !.pc = "currencies", !.todo = {}, !.h = 0]
ToPrices(me) ==
  LET todo == {h \in DOMAIN me.snap : me.snap[h].sym # "" /\ me.snap[h].units > 0}
  IN IF todo = {} THEN ToRates(me) ELSE [me EXCEPT !.pc = "quote", !.todo = todo, !.due = <<>>, !.h = 0]
ToTouched(me) ==
  IF me.todo = {} THEN ToPrices(me) ELSE [me EXCEPT !.pc = "touched"]
NextPrice(me) == IF me.todo = {} THEN ToRates(me) ELSE [me EXCEPT !.pc = "quote", !.h = 0]

\* After RecomputeHolding or SetHoldingPrice.
Resume(me) ==
  LET done == [me EXCEPT !.then = "idle", !.fig = Blank, !.saw = None]
  IN CASE me.then = "idle" \/ (me.then = "symbol" /\ me.sym = None) -> Off
       [] me.then = "touched" -> ToTouched([done EXCEPT !.h = 0])
       [] OTHER -> [done EXCEPT !.pc = me.then]

ReplayStep(w) ==
  LET me == work[w] IN
  /\ me.pc = "replay"
  /\ Local(w, [me EXCEPT !.pc = "lastPrice", !.fig = Figures(ReplayAll(Rows(trade, me.h)))])

LastPrice(w) ==
  LET me == work[w] IN
  /\ me.pc = "lastPrice"
  /\ Local(w, [me EXCEPT !.pc = "figures", !.fig = Valued(@, hold[me.h].price)])

WriteFigures(w) ==
  LET me == work[w] IN
  /\ me.pc = "figures"
  /\ Put(me.h, [hold[me.h] EXCEPT !.fig = me.fig])
  /\ Set(w, Resume(me))
  /\ UNCHANGED <<scene, up, trade, nextHold, nextTrade, rate>>

\* SetHoldingPrice after its UPDATE: a holding without trades keeps its cost.
CountTrades(w) ==
  LET me == work[w] IN
  /\ me.pc = "priced"
  /\ Local(w, [me EXCEPT !.pc = IF Backed(me.h) THEN "replay" ELSE "revalue", !.saw = Count(me.h)])

Revalue(w) ==
  LET me == work[w]
      f == hold[me.h].fig
  IN /\ me.pc = "revalue"
     /\ Put(me.h, [hold[me.h] EXCEPT !.fig.value = IF f.units > 0 THEN me.bid.val * f.units ELSE @])
     /\ Set(w, Resume(me))
     /\ UNCHANGED <<scene, up, trade, nextHold, nextTrade, rate>>

Accounting(w) ==
  ReplayStep(w) \/ LastPrice(w) \/ WriteFigures(w) \/ CountTrades(w) \/ Revalue(w)

-----------------------------------------------------------------------------
(* Trades and positions entered, edited and deleted by the user.           *)

OpenHold(row) ==
  /\ nextHold <= scene.holds
  /\ hold' = [hold EXCEPT ![nextHold] = row]
  /\ nextHold' = nextHold + 1

InsertTrade(row) ==
  /\ nextTrade <= scene.trades
  /\ trade' = [trade EXCEPT ![nextTrade] = row]
  /\ nextTrade' = nextTrade + 1

\* Only foreign trades wait for a rate.
FreshRate(inst) == IF inst \in Rupee THEN 1 ELSE None

Entered(f, form) == [f EXCEPT !.units = form.units, !.cost = form.cost, !.value = form.cost,
                              !.status = "active"]

CreateInvestment(w, inst, form, sym) ==
  /\ Begin(w, "create")
  /\ OpenHold([NoHold EXCEPT !.inst = inst, !.sym = sym, !.fig = Entered(Blank, form)])
  /\ UNCHANGED <<scene, up, trade, nextTrade, rate, work>>

\* handleUpdateInvestment counts the trades first.  The form may leave out the symbol.
UpdateInvestment(w, h, form, sym) ==
  /\ Begin(w, "edit") /\ Exists(h)
  /\ Local(w, [Off EXCEPT !.pc = "edit", !.h = h, !.saw = Count(h), !.then = "symbol",
                          !.fig = Entered(Blank, form), !.sym = sym])

EditWrite(w) ==
  LET me == work[w]
      row == hold[me.h]
      f == me.fig
  IN /\ me.pc = "edit"
     /\ IF me.saw = "trades"
        THEN Set(w, Recompute(me, "symbol")) /\ UNCHANGED hold
        ELSE /\ Put(me.h, [row EXCEPT !.fig = [@ EXCEPT !.units = f.units, !.cost = f.cost,
                                                       !.value = f.value, !.status = f.status]])
             /\ Set(w, Resume(me))
     /\ UNCHANGED <<scene, up, trade, nextHold, nextTrade, rate>>

\* A changed symbol starts clean.
EditSymbol(w) ==
  LET me == work[w]
      row == hold[me.h]
  IN /\ me.pc = "symbol"
     /\ Put(me.h, [row EXCEPT !.sym = me.sym, !.err = @ /\ row.sym = me.sym])
     /\ Set(w, Off)
     /\ UNCHANGED <<scene, up, trade, nextHold, nextTrade, rate>>

\* Mutation: the trades are left behind.
DeleteInvestmentOnly(w, h) ==
  /\ Begin(w, "delete") /\ Exists(h)
  /\ hold' = [hold EXCEPT ![h] = NoHold]
  /\ UNCHANGED <<scene, up, trade, nextHold, nextTrade, rate, work>>

\* Its trades go with it (ON DELETE CASCADE).
DeleteInvestment(w, h) ==
  /\ Begin(w, "delete") /\ Exists(h)
  /\ hold' = [hold EXCEPT ![h] = NoHold]
  /\ trade' = [t \in TradeIds |-> IF trade[t].of = h THEN NoTrade ELSE trade[t]]
  /\ UNCHANGED <<scene, up, nextHold, nextTrade, rate, work>>

\* handleSetInvestmentPrice up to the UPDATE of SetHoldingPrice.
SetInvestmentPrice(w, h, day) ==
  LET price == Price("manual", day, Typed) IN
  /\ Begin(w, "price") /\ Exists(h)
  /\ Put(h, [hold[h] EXCEPT !.price = price])
  /\ Set(w, [Off EXCEPT !.pc = "priced", !.h = h, !.bid = price])
  /\ UNCHANGED <<scene, up, trade, nextHold, nextTrade, rate>>

Ordered(h, day, o) ==
  [of |-> h, day |-> day, side |-> o.side, shares |-> o.shares, amt |-> o.amt,
   rate |-> FreshRate(hold[h].inst), src |-> None]

AddInvestmentTrade(w, h, day, o) ==
  /\ Begin(w, "add") /\ Exists(h)
  /\ InsertTrade(Ordered(h, day, o))
  /\ Set(w, Recompute([Off EXCEPT !.h = h], "idle"))
  /\ UNCHANGED <<scene, up, hold, nextHold, rate>>

\* Mutation: the figures stay as they are.
UpdateInvestmentTradeOnly(w, t, day, o) ==
  LET old == trade[t] IN
  /\ Begin(w, "amend") /\ old.of # 0
  /\ trade' = [trade EXCEPT ![t] = [Ordered(old.of, day, o) EXCEPT
       !.src = old.src, !.rate = IF day = old.day THEN old.rate ELSE @]]
  /\ UNCHANGED <<scene, up, hold, nextHold, nextTrade, rate, work>>

\* Mutation: a moved trade keeps its exchange rate.
UpdateInvestmentTradeKeepingRate(w, t, day, o) ==
  LET old == trade[t] IN
  /\ Begin(w, "amend") /\ old.of # 0
  /\ trade' = [trade EXCEPT ![t] = [Ordered(old.of, day, o) EXCEPT !.src = old.src, !.rate = old.rate]]
  /\ Set(w, Recompute([Off EXCEPT !.h = old.of], "idle"))
  /\ UNCHANGED <<scene, up, hold, nextHold, nextTrade, rate>>

\* A moved trade loses its exchange rate.
UpdateInvestmentTrade(w, t, day, o) ==
  LET old == trade[t] IN
  /\ Begin(w, "amend") /\ old.of # 0
  /\ trade' = [trade EXCEPT ![t] = [Ordered(old.of, day, o) EXCEPT
       !.src = old.src, !.rate = IF day = old.day THEN old.rate ELSE @]]
  /\ Set(w, Recompute([Off EXCEPT !.h = old.of], "idle"))
  /\ UNCHANGED <<scene, up, hold, nextHold, nextTrade, rate>>

DeleteInvestmentTrade(w, t) ==
  /\ Begin(w, "drop") /\ trade[t].of # 0
  /\ trade' = [trade EXCEPT ![t] = NoTrade]
  /\ Set(w, Recompute([Off EXCEPT !.h = trade[t].of], "idle"))
  /\ UNCHANGED <<scene, up, hold, nextHold, nextTrade, rate>>

-----------------------------------------------------------------------------
(* Confirmations by mail, holding statements and deposit summaries.        *)

\* Mutation: closed positions are not looked at.
MatchActive(inst) == {h \in HoldIds : hold[h].inst = inst /\ hold[h].fig.status = "active"}

\* ResolveHolding's lookup, by identifier or else by normalized name.
Match(inst) == {h \in HoldIds : hold[h].inst = inst}

\* The holding is found: a statement counts its trades, a trade is recorded.
Found(me, h) == [me EXCEPT !.pc = IF me.bid = NoPrice THEN "record" ELSE "count", !.h = h]

LookUp(w, me) ==
  Local(w, IF Match(me.inst) # {} THEN Found(me, Min(Match(me.inst)))
           ELSE [me EXCEPT !.pc = "open", !.saw = nextHold])

\* persistTrade; the same mail may be read any number of times.
TradeMail(w, m) ==
  LET t == Mails[m] IN
  /\ Begin(w, "mail")
  /\ LookUp(w, [Off EXCEPT !.inst = t.inst, !.row =
       [of |-> 0, day |-> t.day, side |-> t.side, shares |-> t.shares, amt |-> t.amt,
        rate |-> FreshRate(t.inst), src |-> m]])

\* RecordHoldingSnapshot, for one line of handleImportZerodhaCommit.
Statement(w, inst, day) ==
  /\ Begin(w, "statement") /\ inst \in Rupee
  /\ LookUp(w, [Off EXCEPT !.inst = inst, !.bid = Price("statement", day, Line.price), !.row =
       [of |-> 0, day |-> day, side |-> "buy", shares |-> Line.units, amt |-> Line.value,
        rate |-> FreshRate(inst), src |-> Seed(inst)]])

OpenForTrade(w) ==
  LET me == work[w] IN
  /\ me.pc = "open"
  /\ OpenHold([NoHold EXCEPT !.inst = me.inst])
  /\ Set(w, Found(me, nextHold))
  /\ UNCHANGED <<scene, up, trade, nextTrade, rate>>

\* Mutation: the count is not looked at.
SnapshotCountIgnored(w) ==
  LET me == work[w] IN
  /\ me.pc = "count"
  /\ Local(w, [me EXCEPT !.pc = "record", !.saw = nextTrade])

\* Only a holding without trades is seeded.
SnapshotCount(w) ==
  LET me == work[w] IN
  /\ me.pc = "count"
  /\ Local(w, [me EXCEPT !.pc = IF Backed(me.h) THEN "forward" ELSE "record", !.saw = nextTrade])

\* Mutation: a trade of another day is another trade.
KnownThatDay(row) == \E t \in TradeIds : trade[t].src = row.src /\ trade[t].day = row.day

\* The UNIQUE index on dedupe_key.
Known(row) == \E t \in TradeIds : trade[t].src = row.src

\* RecordTrade's INSERT OR IGNORE.  It fails if the holding is gone.
RecordTrade(w) ==
  LET me == work[w]
      row == [me.row EXCEPT !.of = me.h]
      then == IF me.bid = NoPrice THEN "idle" ELSE "forward"
  IN /\ me.pc = "record"
     /\ \/ /\ Exists(me.h) /\ ~Known(row)
           /\ InsertTrade(row)
           /\ Set(w, Recompute(me, then))
        \/ /\ Known(row)
           /\ Set(w, Recompute(me, then))
           /\ UNCHANGED <<trade, nextTrade>>
        \/ /\ ~Exists(me.h) /\ ~Known(row)
           /\ Set(w, Off)
           /\ UNCHANGED <<trade, nextTrade>>
     /\ UNCHANGED <<scene, up, hold, nextHold, rate>>

\* Mutation: the statement's price is taken whatever its date.
ForwardAlways(w) ==
  LET me == work[w] IN
  /\ me.pc = "forward"
  /\ Local(w, [me EXCEPT !.pc = "price", !.saw = hold[me.h].price])

\* The price moves forward only.
Forward(w) ==
  LET me == work[w] IN
  /\ me.pc = "forward"
  /\ Local(w, IF me.bid.at < hold[me.h].price.at THEN Off
              ELSE [me EXCEPT !.pc = "price", !.saw = hold[me.h].price])

StatementPrice(w) ==
  LET me == work[w] IN
  /\ me.pc = "price"
  /\ Put(me.h, [hold[me.h] EXCEPT !.price = me.bid])
  /\ Set(w, [me EXCEPT !.pc = "priced", !.then = "idle", !.saw = None])
  /\ UNCHANGED <<scene, up, trade, nextHold, nextTrade, rate>>

\* handleImportDepositsCommit, for one line; its transaction makes several look like
\* several imports.
ImportDeposit(w, form) ==
  LET known == Match(Deposit) IN
  /\ Begin(w, "deposit")
  /\ \/ /\ known = {}
        /\ OpenHold([NoHold EXCEPT !.inst = Deposit, !.fig.cost = form.cost, !.fig.value = form.cost])
     \/ /\ known # {}
        /\ \E h \in known : Put(h, [hold[h] EXCEPT !.fig.cost = form.cost, !.fig.value = form.cost])
        /\ UNCHANGED nextHold
  /\ UNCHANGED <<scene, up, trade, nextTrade, rate, work>>

-----------------------------------------------------------------------------
(* The exchange rate.                                                      *)

SetFXRate(w) ==
  /\ Begin(w, "rate")
  /\ rate' = "manual"
  /\ UNCHANGED <<scene, up, hold, trade, nextHold, nextTrade, work>>

\* EnsureRate, when nothing is known and a remittance of the user states a rate.
EnsureRate(w) ==
  /\ Begin(w, "derive") /\ rate = None
  /\ Local(w, [Off EXCEPT !.pc = "setRate", !.saw = rate, !.sym = "derived"])

SetRate(w) ==
  LET me == work[w] IN
  /\ me.pc = "setRate"
  /\ rate' = me.sym
  /\ Set(w, Off)
  /\ UNCHANGED <<scene, up, hold, trade, nextHold, nextTrade>>

-----------------------------------------------------------------------------
(* The refresh of prices and rates.                                        *)

Loaded(h) == Exists(h) /\ hold[h].fig.status = "active" /\ hold[h].sym # "none"
             /\ (hold[h].inst # Deposit \/ hold[h].sym # "")

\* Mutation: a symbol is searched for whether there is one or not.
UnresolvedAny(snap, force) == {h \in DOMAIN snap : ~snap[h].err \/ force}

\* resolve: what to search a symbol for.
Unresolved(snap, force) == {h \in DOMAIN snap : snap[h].sym = "" /\ (~snap[h].err \/ force)}

ToTrades(me) == [me EXCEPT !.pc = IF me.todo = {} THEN "backfill" ELSE "resolve"]

\* Run, one at a time: it loads the holdings, or only one if that is not 0.
Refresh(w, only) ==
  LET snap == [h \in {g \in HoldIds : Loaded(g) /\ only \in {0, g}} |->
                 [sym |-> hold[h].sym, err |-> hold[h].err, units |-> hold[h].fig.units]]
  IN /\ Begin(w, "refresh") /\ \A v \in Workers : ~work[v].live
     /\ Local(w, ToTrades([Off EXCEPT !.live = TRUE, !.snap = snap,
                                      !.todo = Unresolved(snap, only # 0)]))

\* runPeriodicPriceRefresh, and handleRefreshPrices, which may be for one holding.
RefreshAll(w) == Refresh(w, 0)
RefreshOne(w, h) == Refresh(w, h)

\* A search finds a symbol, finds none, or fails.
ResolveSymbol(w) ==
  LET me == work[w]
      h == Min(me.todo)
      next == [me EXCEPT !.todo = @ \ {h}]
  IN /\ me.pc = "resolve"
     /\ \/ /\ Put(h, [hold[h] EXCEPT !.sym = "auto", !.err = FALSE])
           /\ Set(w, ToTrades([next EXCEPT !.snap[h].sym = "auto"]))
        \/ /\ Put(h, [hold[h] EXCEPT !.err = TRUE])
           /\ Set(w, ToTrades(next))
        \/ /\ Set(w, ToTrades(next))
           /\ UNCHANGED hold
     /\ UNCHANGED <<scene, up, trade, nextHold, nextTrade, rate>>

\* TradesNeedingRate, and the closes of the currency, which may not be had.
Backfill(w) ==
  LET me == work[w]
      due == {t \in TradeIds : trade[t].of # 0 /\ trade[t].rate = None}
  IN /\ me.pc = "backfill"
     /\ \/ /\ due # {}
           /\ Local(w, [me EXCEPT !.pc = "tradeRate", !.due = [t \in due |-> trade[t]]])
        \/ Local(w, ToPrices(me))

\* SetTradeRate: an UPDATE by id, on what was loaded.
SetTradeRate(w) ==
  LET me == work[w]
      t == Min(DOMAIN me.due)
      old == me.due[t]
      rest == [u \in DOMAIN me.due \ {t} |-> me.due[u]]
      next == [me EXCEPT !.due = rest, !.todo = IF DayRate[old.day] = 0 THEN @ ELSE @ \cup {old.of}]
  IN /\ me.pc = "tradeRate"
     /\ trade' = [trade EXCEPT ![t] = IF @.of = 0 \/ DayRate[old.day] = 0 THEN @
                                      ELSE [@ EXCEPT !.rate = DayRate[old.day]]]
     /\ Set(w, IF DOMAIN rest = {} THEN ToTouched(next) ELSE next)
     /\ UNCHANGED <<scene, up, hold, nextHold, nextTrade, rate>>

\* The order of a Go map.
RecomputeTouched(w) ==
  LET me == work[w] IN
  /\ me.pc = "touched"
  /\ \E h \in me.todo : Local(w, Recompute([me EXCEPT !.h = h, !.todo = @ \ {h}], "touched"))

\* price: a quote, and SetHoldingPrice; or no usable quote.
Quote(w) ==
  LET me == work[w]
      h == Min(me.todo)
      next == [me EXCEPT !.todo = @ \ {h}, !.h = h]
      price == Price("market", Now, Market)
  IN /\ me.pc = "quote"
     /\ \/ /\ Put(h, [hold[h] EXCEPT !.price = price])
           /\ Set(w, [next EXCEPT !.pc = "priced", !.then = "quoted", !.bid = price])
        \/ /\ Put(h, [hold[h] EXCEPT !.err = TRUE])
           /\ Set(w, NextPrice(next))
     /\ UNCHANGED <<scene, up, trade, nextHold, nextTrade, rate>>

Quoted(w) ==
  LET me == work[w] IN
  /\ me.pc = "quoted"
  /\ Put(me.h, [hold[me.h] EXCEPT !.err = FALSE])
  /\ Set(w, NextPrice([me EXCEPT !.bid = NoPrice]))
  /\ UNCHANGED <<scene, up, trade, nextHold, nextTrade, rate>>

\* refreshRates: the currencies of active holdings, and a quote, which may fail.
Currencies(w) ==
  LET foreign == \E h \in HoldIds : Exists(h) /\ hold[h].inst \notin Rupee /\ hold[h].fig.status = "active"
  IN /\ work[w].pc = "currencies"
     /\ \/ foreign /\ Local(w, [work[w] EXCEPT !.pc = "source"])
        \/ Local(w, Off)

\* Mutation: the user's rate is not looked for.
SetMarketRateAlways(w) ==
  /\ work[w].pc = "source"
  /\ Local(w, [work[w] EXCEPT !.pc = "setRate", !.saw = rate, !.sym = "market"])

\* SetMarketRate's check.
SetMarketRate(w) ==
  /\ work[w].pc = "source"
  /\ Local(w, IF rate = "manual" THEN Off
              ELSE [work[w] EXCEPT !.pc = "setRate", !.saw = rate, !.sym = "market"])

-----------------------------------------------------------------------------
Crash ==
  /\ up /\ \E w \in Workers : work[w].pc # "idle"
  /\ up' = FALSE
  /\ work' = [w \in Workers |-> Off]
  /\ UNCHANGED <<scene, tables>>

Restart ==
  /\ ~up /\ up' = TRUE
  /\ UNCHANGED <<scene, tables, work>>

Step(w) ==
  \/ Accounting(w) \/ EditWrite(w) \/ EditSymbol(w)
  \/ OpenForTrade(w) \/ SnapshotCount(w) \/ RecordTrade(w) \/ Forward(w) \/ StatementPrice(w)
  \/ SetRate(w)
  \/ ResolveSymbol(w) \/ Backfill(w) \/ SetTradeRate(w) \/ RecomputeTouched(w)
  \/ Quote(w) \/ Quoted(w) \/ Currencies(w) \/ SetMarketRate(w)

Request(w) ==
  \/ \E inst \in Instruments, form \in Forms, sym \in {"", "own"} : CreateInvestment(w, inst, form, sym)
  \/ \E h \in HoldIds, form \in Forms, sym \in Symbols \cup {None} :
       sym # "auto" /\ UpdateInvestment(w, h, form, sym)
  \/ \E h \in HoldIds : DeleteInvestment(w, h) \/ RefreshOne(w, h)
                       \/ \E day \in Days \cup {Now} : SetInvestmentPrice(w, h, day)
  \/ \E h \in HoldIds, day \in Days, o \in scene.orders : AddInvestmentTrade(w, h, day, o)
  \/ \E t \in TradeIds, day \in Days, o \in scene.orders : UpdateInvestmentTrade(w, t, day, o)
  \/ \E t \in TradeIds : DeleteInvestmentTrade(w, t)
  \/ \E m \in DOMAIN Mails : TradeMail(w, m)
  \/ \E inst \in Instruments, day \in Days : Statement(w, inst, day)
  \/ \E form \in Forms : ImportDeposit(w, form)
  \/ SetFXRate(w) \/ EnsureRate(w) \/ RefreshAll(w)

Next == (\E w \in Workers : Request(w) \/ Step(w)) \/ Crash \/ Restart

Spec == Init /\ [][Next]_vars

-----------------------------------------------------------------------------
(* Properties.                                                             *)

\* Every trade belongs to a position there is.
TypeOK ==
  /\ scene \in Scenes /\ up \in BOOLEAN
  /\ nextHold \in 1..scene.holds + 1 /\ nextTrade \in 1..scene.trades + 1
  /\ \A h \in HoldIds : Exists(h) => /\ hold[h].inst \in Assets /\ hold[h].sym \in Symbols
                                     /\ hold[h].fig.status \in {"active", "closed"}
  /\ \A t \in TradeIds : trade[t] # NoTrade => Exists(trade[t].of) /\ trade[t].day \in Days
  /\ rate \in {None, "manual", "derived", "market"}
  /\ Cardinality({w \in Workers : work[w].live}) <= 1

\* holdings.go: the replay loses and invents nothing.  Units are what was bought less
\* what was sold; what the buys cost is in the position or came back with the sales,
\* less the gain; a position that is sold out carries no cost.  Money is only conserved
\* if nothing was sold that was not there and every trade says how many units it is about.
Sides(h, side) == {t \in Of(trade, h) : trade[t].side = side}
ReplayConserves ==
  \A h \in HoldIds :
    LET p == ReplayAll(Rows(trade, h))
        Sum(f(_), side) == MapThenSumSet(f, Sides(h, side))
        Shares(t) == trade[t].shares
        Amt(t) == trade[t].amt
        oversold == \E t \in Sides(h, "sell") :
          ReplayAll([u \in {u \in Of(trade, h) : u = t \/ Before(trade, u, t)} |-> trade[u]]).units < 0
        whole == \A t \in Of(trade, h) : trade[t].shares > 0
    IN /\ p.units = Sum(Shares, "buy") - Sum(Shares, "sell")
       /\ ~oversold /\ whole =>
                       /\ p.cost + Sum(Amt, "sell") - p.gain = Sum(Amt, "buy")
                       /\ p.cost >= 0 /\ (p.units = 0 => p.cost = 0)

\* holdings.go: re-reading the mailbox must not buy it again, nor a second statement
\* seed it again, whatever was edited, retried or interrupted in between.
OncePerSource ==
  \A t, u \in TradeIds : t # u /\ trade[t].src # None => trade[t].src # trade[u].src

\* Whoever changes the trades or the price of a position owes it a recompute.
Owes(me, h) ==
  \/ me.h = h /\ me.pc \in {"replay", "lastPrice", "figures", "priced"}
  \/ h \in me.todo /\ (me.then = "touched" \/ me.pc \in {"tradeRate", "touched"})

\* In given tables: figures are not what they should be, and nobody owes it to them.
Lost(T, H, W, h) ==
  /\ H[h].inst \notin {None, Deposit} /\ Of(T, h) # {} /\ \A w \in Workers : ~Owes(W[w], h)
  /\ H[h].fig # Derived(T, H[h], h)

\* What a handler is about to write comes from reads that others have overtaken.
Stale(w) ==
  LET me == work[w] IN
  \/ me.pc = "figures" /\ me.fig # Derived(trade, hold[me.h], me.h)
  \/ me.pc \in {"edit", "revalue"} /\ me.saw # Count(me.h)

\* holdings.go: a position is derived from its trades.  Its figures stop being what
\* the trades and the price make them only by a crash, or a write on overtaken reads.
\* (A deposit that has trades is left out: a summary overwrites it.)
FiguresLostOnlyByRace ==
  [][\A h \in HoldIds : Lost(trade', hold', work', h) /\ ~Lost(trade, hold, work, h) =>
       ~up' \/ \E w \in Workers : Stale(w) /\ work'[w] # work[w]]_vars

\* holdings.go: one holding per instrument.  A mail or a statement opens a second
\* position only if nobody had one when it looked.
SecondOnlyIfOvertaken ==
  [][\A w \in Workers : work[w].pc = "open" /\ nextHold' # nextHold /\ work'[w] # work[w] =>
       \A h \in HoldIds : hold[h].inst = work[w].inst => h >= work[w].saw]_vars

\* holdings.go: a holding that already has trades is never seeded.  A seed meets only
\* trades recorded since the statement counted.
SeedsOnlyEmpty ==
  [][\A w \in Workers : work[w].pc = "record" /\ work[w].bid # NoPrice /\ nextTrade' # nextTrade
                         /\ work'[w] # work[w] =>
       \A t \in Of(trade, work[w].h) : t >= work[w].saw]_vars

\* holdings.go: an older statement must not drag the price backwards: it replaces a
\* newer price only if that came after the look at its date.
StatementMovesForward ==
  [][\A h \in HoldIds :
       hold'[h].price.by = "statement" /\ hold'[h].price.at < hold[h].price.at =>
         \E w \in Workers : work[w].pc = "price" /\ work[w].saw # hold[h].price]_vars

\* fx.go: a rate the user typed is never replaced, unless typed after the look at it.
ManualRateStays ==
  [][rate = "manual" /\ rate' # "manual" =>
       \E w \in Workers : work[w].pc = "setRate" /\ work[w].saw # "manual"]_vars

\* refresh.go: each trade has the rate of its own date, unless it is moved or replaced
\* while a refresh that has loaded it is fetching the rates.
WrongRate(t) ==
  LET r == trade[t].rate IN trade[t].of # 0 /\ hold[trade[t].of].inst \notin Rupee /\ r # None /\ r # DayRate[trade[t].day]
TradeRateOfItsDay ==
  [][\A t \in TradeIds : WrongRate(t)' /\ ~WrongRate(t) =>
       \E w \in Workers : t \in DOMAIN work[w].due /\ work[w].due[t].day # trade[t].day]_vars

\* refresh.go: a symbol the user has set is not replaced by one that is searched for,
\* unless set after the refresh loaded the holding.
UserSymbolStays ==
  [][\A h \in HoldIds :
       hold[h].sym \in {"own", "none"} /\ hold'[h].sym = "auto" =>
         \E w \in Workers : h \in DOMAIN work[w].snap /\ work[w].snap[h].sym # hold[h].sym]_vars
=============================================================================

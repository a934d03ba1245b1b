---------------------------- MODULE HoldingsProofs ----------------------------
(***************************************************************************)
(* Proofs about Holdings for any instruments, trades, workers and scenes.  *)
(*                                                                         *)
(* Inv is inductive.  It says that rows are well formed and point at rows  *)
(* that are there, and, place by place, what a handler that has looked and *)
(* not yet written may rely on although others write in between (Knows).   *)
(* Each action is shown to keep the tables well formed, to give or take    *)
(* away rows only (Grows) and to leave its worker with true knowledge;     *)
(* rows that only come and go cannot falsify what the others know.         *)
(***************************************************************************)
EXTENDS Holdings, SumFacts

\* Rows and locals have their fields.
IsTrade(r) == DOMAIN r = {"of", "day", "side", "shares", "amt", "rate", "src"}
IsPrice(r) == DOMAIN r = {"by", "at", "val"} /\ r.at \in Int
IsHold(r) == DOMAIN r = {"inst", "sym", "err", "price", "fig"} /\ IsPrice(r.price)
IsLocal(me) ==
  /\ DOMAIN me = {"pc", "then", "h", "row", "inst", "saw", "fig", "bid", "sym", "live", "snap", "due", "todo"}
  /\ IsTrade(me.row) /\ IsPrice(me.bid)

Shaped ==
  /\ scene \in Scenes /\ nextHold \in Nat \ {0} /\ nextTrade \in Nat \ {0}
  /\ DOMAIN hold = HoldIds /\ \A h \in HoldIds : IsHold(hold[h])
  /\ DOMAIN trade = TradeIds /\ \A t \in TradeIds : IsTrade(trade[t])
  /\ work = [w \in Workers |-> work[w]] /\ \A w \in Workers : IsLocal(work[w])

\* Ids are handed out in order, and a trade belongs to a holding there is.
Ordinal ==
  /\ \A h \in HoldIds : hold[h].inst # None => h < nextHold
  /\ \A t \in TradeIds : trade[t].of # 0 => t < nextTrade /\ Exists(trade[t].of)

\* What may follow a recompute.
Replaying == {"replay", "lastPrice", "figures"}
Plain == {"idle", "symbol", "forward", "quoted"}
Thens == Plain \cup {"touched"}

\* What a handler may rely on at each place, given the tables.
Relies(me, H, T, nh, nt) ==
  /\ me.then \in Thens /\ me.sym # "auto"
  /\ me.then = "touched" => me.pc \in Replaying
  /\ me.pc = "setRate" => me.saw # "manual"
  /\ me.pc \in {"open", "count", "record"} => me.inst \in Assets /\ me.row.rate = FreshRate(me.inst)
  /\ me.pc = "open" => /\ me.saw \in Nat /\ me.saw <= nh
                       /\ \A h \in HoldIds : H[h].inst = me.inst => h >= me.saw
  /\ me.pc \in {"count", "record"} => me.h # 0
  /\ me.pc \in {"count", "record"} /\ me.h \in HoldIds =>
       me.h < nh /\ H[me.h].inst \in {me.inst, None}
  /\ me.pc = "record" /\ me.bid # NoPrice =>
       /\ me.saw \in Nat /\ me.saw <= nt
       /\ \A t \in TradeIds : T[t].of = me.h => t >= me.saw
  /\ me.pc = "price" /\ me.h \in HoldIds => IsPrice(me.saw) /\ me.saw.at <= me.bid.at
  /\ me.pc = "resolve" =>
       me.todo # {} /\ \A h \in me.todo : h \in HoldIds /\ h \in DOMAIN me.snap /\ me.snap[h].sym = ""
  /\ me.pc = "tradeRate" =>
       /\ DOMAIN me.due # {}
       /\ \A t \in DOMAIN me.due : t \in TradeIds /\ t < nt /\ T[t].of \in {0, me.due[t].of}
  /\ me.pc = "revalue" => me.saw = "none"
Knows(me) == Relies(me, hold, trade, nextHold, nextTrade)

Inv == Shaped /\ Ordinal /\ (\A w \in Workers : Knows(work[w])) /\ OncePerSource

\* Rows are new, stay, or go.
Grows ==
  /\ nextHold' >= nextHold /\ nextTrade' >= nextTrade
  /\ \A h \in HoldIds : hold'[h].inst \in {hold[h].inst, None} \/ (h = nextHold /\ nextHold' > nextHold)
  /\ \A t \in TradeIds : trade'[t].of \in {trade[t].of, 0} \/ (t = nextTrade /\ nextTrade' > nextTrade)

\* What every step of w achieves.
Good(w) ==
  /\ Shaped' /\ Ordinal' /\ OncePerSource' /\ Grows /\ Knows(work[w])'
  /\ \A v \in Workers \ {w} : work'[v] = work[v]

\* Row ids are positive numbers.
LEMMA IdsAreNat == HoldIds \subseteq Nat \ {0} /\ TradeIds \subseteq Nat \ {0} /\ 0 \notin HoldIds
  BY HoldingsAssumption DEF HoldIds, TradeIds

\* An id there is room for is an id.
LEMMA RoomIsReal ==
  ASSUME scene \in Scenes
  PROVE /\ nextHold \in Nat \ {0} /\ nextHold <= scene.holds => nextHold \in HoldIds
        /\ nextTrade \in Nat \ {0} /\ nextTrade <= scene.trades => nextTrade \in TradeIds
  BY HoldingsAssumption DEF HoldIds, TradeIds

\* What it means that w goes on as me.
LEMMA SetStep ==
  ASSUME Shaped, NEW w \in Workers, NEW me, IsLocal(me), Set(w, me)
  PROVE  /\ work' = [v \in Workers |-> work'[v]] /\ work'[w] = me
         /\ \A v \in Workers \ {w} : work'[v] = work[v]
         /\ \A v \in Workers : IsLocal(work'[v])
  BY DEF Shaped, Set

\* A step of w that leaves the tables alone.
LEMMA LocalStep ==
  ASSUME Inv, NEW w \in Workers, NEW me, IsLocal(me), Knows(me), Set(w, me),
         UNCHANGED <<scene, hold, trade, nextHold, nextTrade>>
  PROVE  Good(w)
<1>1. /\ work' = [v \in Workers |-> work'[v]] /\ work'[w] = me
      /\ \A v \in Workers \ {w} : work'[v] = work[v]
      /\ \A v \in Workers : IsLocal(work'[v])
  BY SetStep DEF Inv
<1>2. Shaped'
  BY <1>1 DEF Inv, Shaped
<1>3. Ordinal' /\ OncePerSource' /\ Grows
  BY <1>1 DEF Inv, Shaped, Ordinal, OncePerSource, Exists, Grows
<1>4. Knows(work[w])'
  <2>1. Knows(me)'
    BY <1>1 DEF Knows, Relies, FreshRate
  <2> QED
    BY <1>1, <2>1 DEF Knows
<1> QED
  BY <1>1, <1>2, <1>3, <1>4 DEF Good

\* A step of w that writes a row of investments and leaves its instrument.
LEMMA PutStep ==
  ASSUME Inv, NEW w \in Workers, NEW me, IsLocal(me), Knows(me), Set(w, me),
         NEW h, NEW row, Put(h, row), h \in HoldIds => IsHold(row) /\ row.inst = hold[h].inst,
         UNCHANGED <<scene, trade, nextHold, nextTrade>>
  PROVE  Good(w)
<1>1. /\ work' = [v \in Workers |-> work'[v]] /\ work'[w] = me
      /\ \A v \in Workers \ {w} : work'[v] = work[v]
      /\ \A v \in Workers : IsLocal(work'[v])
  BY SetStep DEF Inv
<1>2. DOMAIN hold' = HoldIds /\ \A g \in HoldIds : IsHold(hold'[g]) /\ hold'[g].inst = hold[g].inst
  BY DEF Inv, Shaped, Put
<1>3. Shaped'
  BY <1>1, <1>2 DEF Inv, Shaped
<1>4. Ordinal' /\ OncePerSource' /\ Grows
  BY <1>1, <1>2 DEF Inv, Shaped, Ordinal, OncePerSource, Exists, Grows
<1>5. Knows(work[w])'
  <2>1. Knows(me)'
    BY <1>2 DEF Knows, Relies, FreshRate
  <2> QED
    BY <1>1, <2>1 DEF Knows
<1> QED
  BY <1>1, <1>3, <1>4, <1>5 DEF Good

\* A step of w that writes a row of investment_trades and leaves its owner and source.
LEMMA TradeStep ==
  ASSUME Inv, NEW w \in Workers, NEW me, IsLocal(me), Knows(me), Set(w, me),
         NEW t \in TradeIds, NEW row, trade' = [trade EXCEPT ![t] = row],
         IsTrade(row) /\ row.of = trade[t].of /\ row.src = trade[t].src,
         UNCHANGED <<scene, hold, nextHold, nextTrade>>
  PROVE  Good(w)
<1>1. /\ work' = [v \in Workers |-> work'[v]] /\ work'[w] = me
      /\ \A v \in Workers \ {w} : work'[v] = work[v]
      /\ \A v \in Workers : IsLocal(work'[v])
  BY SetStep DEF Inv
<1>2. DOMAIN trade' = TradeIds /\ \A u \in TradeIds : IsTrade(trade'[u]) /\ trade'[u].of = trade[u].of /\ trade'[u].src = trade[u].src
  BY DEF Inv, Shaped
<1>3. Shaped'
  BY <1>1, <1>2 DEF Inv, Shaped
<1>4. Ordinal' /\ OncePerSource' /\ Grows
  BY <1>1, <1>2 DEF Inv, Shaped, Ordinal, OncePerSource, Exists, Grows
<1>5. Knows(work[w])'
  <2>1. Knows(me)'
    BY <1>2 DEF Knows, Relies, FreshRate
  <2> QED
    BY <1>1, <2>1 DEF Knows
<1> QED
  BY <1>1, <1>3, <1>4, <1>5 DEF Good

\* A step of w that opens a position.
LEMMA OpenStep ==
  ASSUME Inv, NEW w \in Workers, NEW me, IsLocal(me), Set(w, me), Knows(me)',
         NEW row, OpenHold(row), IsHold(row),
         UNCHANGED <<scene, trade, nextTrade>>
  PROVE  Good(w)
<1>1. /\ work' = [v \in Workers |-> work'[v]] /\ work'[w] = me
      /\ \A v \in Workers \ {w} : work'[v] = work[v]
      /\ \A v \in Workers : IsLocal(work'[v])
  BY SetStep DEF Inv
<1>2. DOMAIN hold' = HoldIds /\ \A g \in HoldIds : IsHold(hold'[g]) /\ (g # nextHold => hold'[g] = hold[g])
  BY DEF Inv, Shaped, OpenHold
<1>0. nextHold \in Nat /\ nextHold' = nextHold + 1
  BY DEF Inv, Shaped, OpenHold
<1>3. Shaped'
  BY <1>0, <1>1, <1>2 DEF Inv, Shaped
<1>4. OncePerSource' /\ Grows
  BY <1>0, <1>1, <1>2 DEF Inv, Shaped, OncePerSource, Grows
<1>5. Ordinal'
  <2>1. ASSUME NEW g \in HoldIds, hold'[g].inst # None PROVE g < nextHold'
    <3>1. g \in Nat
      BY IdsAreNat
    <3>2. g = nextHold \/ g < nextHold
      BY <1>2, <2>1 DEF Inv, Ordinal
    <3> QED
      BY <1>0, <3>1, <3>2
  <2>2. \A t \in TradeIds : trade[t].of # 0 => t < nextTrade /\ Exists(trade[t].of)'
    <3> SUFFICES ASSUME NEW t \in TradeIds, trade[t].of # 0 PROVE t < nextTrade /\ Exists(trade[t].of)'
      OBVIOUS
    <3>1. trade[t].of \in HoldIds /\ hold[trade[t].of].inst # None /\ t < nextTrade
      BY DEF Inv, Ordinal, Exists
    <3>2. trade[t].of < nextHold /\ trade[t].of \in Nat
      BY <3>1, IdsAreNat DEF Inv, Ordinal
    <3> QED
      BY <1>0, <1>2, <3>1, <3>2 DEF Exists
  <2> QED
    BY <2>1, <2>2 DEF Ordinal, Exists
<1>6. Knows(work[w])'
  BY <1>1 DEF Knows
<1> QED
  BY <1>1, <1>3, <1>4, <1>5, <1>6 DEF Good

\* A step of w that inserts a trade.
LEMMA InsertStep ==
  ASSUME Inv, NEW w \in Workers, NEW me, IsLocal(me), Set(w, me), Knows(me)',
         NEW row, InsertTrade(row), IsTrade(row), Exists(row.of), row.src = None \/ ~Known(row),
         UNCHANGED <<scene, hold, nextHold>>
  PROVE  Good(w)
<1>1. /\ work' = [v \in Workers |-> work'[v]] /\ work'[w] = me
      /\ \A v \in Workers \ {w} : work'[v] = work[v]
      /\ \A v \in Workers : IsLocal(work'[v])
  BY SetStep DEF Inv
<1>0. nextTrade \in Nat /\ nextTrade' = nextTrade + 1
  BY DEF Inv, Shaped, InsertTrade
<1>2. DOMAIN trade' = TradeIds /\ \A u \in TradeIds : IsTrade(trade'[u]) /\ trade'[u] = IF u = nextTrade THEN row ELSE trade[u]
  BY DEF Inv, Shaped, InsertTrade
<1>3. Shaped'
  BY <1>0, <1>1, <1>2 DEF Inv, Shaped
<1>4. Grows
  BY <1>0, <1>1, <1>2 DEF Inv, Shaped, Grows
<1>5. Ordinal'
  <2>1. ASSUME NEW t \in TradeIds, trade'[t].of # 0
        PROVE  t < nextTrade' /\ trade'[t].of \in HoldIds /\ hold[trade'[t].of].inst # None
    <3>1. t \in Nat
      BY IdsAreNat
    <3>2. CASE t = nextTrade
      BY <1>0, <1>2, <3>2 DEF Exists
    <3>3. CASE t # nextTrade
      <4>1. trade'[t] = trade[t]
        BY <1>2, <3>3
      <4>2. t < nextTrade /\ Exists(trade[t].of)
        BY <2>1, <4>1 DEF Inv, Ordinal
      <4> QED
        BY <1>0, <3>1, <4>1, <4>2 DEF Exists
    <3> QED
      BY <3>2, <3>3
  <2> QED
    BY <2>1 DEF Inv, Ordinal, Exists
<1>6. OncePerSource'
  BY <1>2 DEF Inv, OncePerSource, Known
<1>7. Knows(work[w])'
  BY <1>1 DEF Knows
<1> QED
  BY <1>1, <1>3, <1>4, <1>5, <1>6, <1>7 DEF Good

-----------------------------------------------------------------------------
\* Min is the least of a set of naturals that is not empty.
LEMMA LeastNatural ==
  ASSUME NEW T \in SUBSET Nat, T # {}
  PROVE  Min(T) \in T /\ \A y \in T : Min(T) <= y
<1> DEFINE R == {ss \in Nat \X Nat : ss[1] < ss[2]}
<1>1. IsWellFoundedOn(R, Nat)
  BY NatLessThanWellFounded, Zenon DEF OpToRel
<1>2. PICK x \in T : \A y \in T : <<y, x>> \notin R
  <2> HIDE DEF R
  <2> QED
    BY <1>1, WFMin
<1>3. \A y \in T : <<y, x>> \in Nat \X Nat /\ <<y, x>>[1] = y /\ <<y, x>>[2] = x
  OBVIOUS
<1>4. \A y \in T : ~(y < x)
  BY <1>2, <1>3
<1>5. \A y \in T : x <= y
  BY <1>4
<1> QED
  BY <1>5 DEF Min

\* Most places remember nothing that others could invalidate.
Calm(me) ==
  /\ me.pc \notin {"setRate", "open", "count", "record", "price", "resolve", "tradeRate", "revalue"}
  /\ me.then \in Thens /\ me.sym # "auto"
  /\ me.then = "touched" => me.pc \in Replaying

\* A worker that owes nothing knows all it has to: the clauses of Knows speak of the others.
LEMMA CalmKnows == ASSUME NEW me, Calm(me) PROVE Knows(me)
  BY DEF Calm, Knows, Relies

\* What every worker knows, wherever it is.
LEMMA KnowsHead == ASSUME Inv, NEW w \in Workers
  PROVE  /\ IsLocal(work[w]) /\ work[w].then \in Thens /\ work[w].sym # "auto"
         /\ work[w].then = "touched" => work[w].pc \in Replaying
  BY DEF Inv, Shaped, Knows, Relies

\* A recompute for a refresh is under way only between replay and figures.
LEMMA NotTouched == ASSUME Inv, NEW w \in Workers, work[w].pc \notin Replaying PROVE work[w].then \in Plain
  BY KnowsHead DEF Thens

\* An idle worker remembers nothing.
LEMMA OffCalm == IsLocal(Off) /\ Calm(Off)
  BY HoldingsAssumption DEF IsLocal, Calm, Off, NoTrade, NoPrice, IsTrade, IsPrice, Plain, Thens

\* A worker that stays as it is.
LEMMA SameTables == ASSUME Shaped, NEW w \in Workers, UNCHANGED work PROVE Set(w, work[w])
  BY DEF Shaped, Set

\* Where a refresh goes, and what follows a recompute.
LEMMA PhaseCalm ==
  ASSUME NEW me, IsLocal(me), me.then \in Plain, me.sym # "auto"
  PROVE  /\ IsLocal(ToRates(me)) /\ Calm(ToRates(me))
         /\ IsLocal(ToPrices(me)) /\ Calm(ToPrices(me))
         /\ IsLocal(NextPrice(me)) /\ Calm(NextPrice(me))
         /\ IsLocal(ToTouched(me)) /\ Calm(ToTouched(me))
<1>1. IsLocal(ToRates(me)) /\ Calm(ToRates(me))
  BY DEF ToRates, IsLocal, Calm, Plain, Thens
<1>2. IsLocal(ToPrices(me)) /\ Calm(ToPrices(me))
  BY <1>1 DEF ToPrices, IsLocal, Calm, Plain, Thens
<1>3. IsLocal(NextPrice(me)) /\ Calm(NextPrice(me))
  BY <1>1 DEF NextPrice, IsLocal, Calm, Plain, Thens
<1>4. IsLocal(ToTouched(me)) /\ Calm(ToTouched(me))
  BY <1>2 DEF ToTouched, IsLocal, Calm, Plain, Thens
<1> QED
  BY <1>1, <1>2, <1>3, <1>4

\* A price write that returns to the price sweep is calm again.
LEMMA ResumeCalm ==
  ASSUME NEW me, IsLocal(me), me.then \in Thens, me.sym # "auto"
  PROVE  IsLocal(Resume(me)) /\ Calm(Resume(me))
<1> DEFINE done == [me EXCEPT !.then = "idle", !.fig = Blank, !.saw = None]
           home == [done EXCEPT !.h = 0]
<1>1. IsLocal(home) /\ home.then \in Plain /\ home.sym # "auto"
  BY DEF IsLocal, Plain, Thens
<1>2. IsLocal(ToTouched(home)) /\ Calm(ToTouched(home))
  <2> HIDE DEF home
  <2> QED
    BY <1>1, PhaseCalm
<1>3. CASE me.then = "touched"
  <2>1. Resume(me) = ToTouched(home)
    BY <1>3 DEF Resume
  <2> HIDE DEF home
  <2> QED
    BY <1>2, <2>1
<1>4. CASE me.then \in {"symbol", "forward", "quoted"} /\ Resume(me) # Off
  <2>1. Resume(me) = [done EXCEPT !.pc = me.then]
    BY <1>4 DEF Resume
  <2> QED
    BY <1>4, <2>1 DEF IsLocal, Calm, Plain, Thens
<1>5. CASE me.then = "idle" \/ Resume(me) = Off
  <2>1. Resume(me) = Off
    BY <1>5 DEF Resume
  <2> QED
    BY <2>1, OffCalm
<1> QED
  BY <1>3, <1>4, <1>5 DEF Plain, Thens

-----------------------------------------------------------------------------
\* The statements of RecomputeHolding and SetHoldingPrice keep the invariant.
LEMMA ReplayGood == ASSUME Inv, NEW w \in Workers, ReplayStep(w) PROVE Good(w)
<1> DEFINE me == [work[w] EXCEPT !.pc = "lastPrice", !.fig = Figures(ReplayAll(Rows(trade, work[w].h)))]
<1>1. IsLocal(me) /\ Calm(me)
  BY KnowsHead DEF IsLocal, Calm, ReplayStep, Replaying
<1>2. Set(w, me) /\ UNCHANGED tables /\ UNCHANGED scene
  BY DEF ReplayStep, Local
<1> HIDE DEF me
<1> QED
  BY <1>1, <1>2, CalmKnows, LocalStep DEF tables

\* LastPrice preserves the invariant.
LEMMA LastPriceGood == ASSUME Inv, NEW w \in Workers, LastPrice(w) PROVE Good(w)
<1> DEFINE me == [work[w] EXCEPT !.pc = "figures", !.fig = Valued(@, hold[work[w].h].price)]
<1>1. IsLocal(me) /\ Calm(me)
  BY KnowsHead DEF IsLocal, Calm, LastPrice, Replaying
<1>2. Set(w, me) /\ UNCHANGED tables /\ UNCHANGED scene
  BY DEF LastPrice, Local
<1> HIDE DEF me
<1> QED
  BY <1>1, <1>2, CalmKnows, LocalStep DEF tables

\* WriteFigures preserves the invariant.
LEMMA WriteFiguresGood == ASSUME Inv, NEW w \in Workers, WriteFigures(w) PROVE Good(w)
<1> DEFINE me == Resume(work[w])
           row == [hold[work[w].h] EXCEPT !.fig = work[w].fig]
<1>1. IsLocal(me) /\ Calm(me)
  BY ResumeCalm, KnowsHead
<1>2. work[w].h \in HoldIds => IsHold(row) /\ row.inst = hold[work[w].h].inst
  BY DEF Inv, Shaped, IsHold
<1>3. Set(w, me) /\ Put(work[w].h, row)
  BY DEF WriteFigures
<1> HIDE DEF me, row
<1> QED
  BY <1>1, <1>2, <1>3, CalmKnows, PutStep DEF WriteFigures

\* SetHoldingPrice remembers "none" only of a holding without trades.
LEMMA CountTradesGood == ASSUME Inv, NEW w \in Workers, CountTrades(w) PROVE Good(w)
<1> DEFINE me == [work[w] EXCEPT !.pc = IF Backed(work[w].h) THEN "replay" ELSE "revalue", !.saw = Count(work[w].h)]
<1>1. IsLocal(me)
  BY KnowsHead DEF IsLocal
<1>2. Knows(me)
  <2>1. work[w].then \in Plain /\ work[w].sym # "auto"
    BY NotTouched, KnowsHead DEF CountTrades, Replaying
  <2> QED
    BY <2>1, KnowsHead DEF IsLocal, Knows, Relies, Count, Plain, Thens
<1>3. Set(w, me) /\ UNCHANGED tables /\ UNCHANGED scene
  BY DEF CountTrades, Local
<1> HIDE DEF me
<1> QED
  BY <1>1, <1>2, <1>3, LocalStep DEF tables

\* Revalue preserves the invariant.
LEMMA RevalueGood == ASSUME Inv, NEW w \in Workers, Revalue(w) PROVE Good(w)
<1> DEFINE me == Resume(work[w])
           h == work[w].h
           row == [hold[h] EXCEPT !.fig.value = IF hold[h].fig.units > 0 THEN work[w].bid.val * hold[h].fig.units ELSE @]
<1>1. IsLocal(me) /\ Calm(me)
  BY ResumeCalm, KnowsHead
<1>2. h \in HoldIds => IsHold(row) /\ row.inst = hold[h].inst
  BY DEF Inv, Shaped, IsHold
<1>3. Set(w, me) /\ Put(h, row)
  BY DEF Revalue
<1> HIDE DEF me, row
<1> QED
  BY <1>1, <1>2, <1>3, CalmKnows, PutStep DEF Revalue

\* What the user enters keeps the invariant.
LEMMA CreateGood ==
  ASSUME Inv, NEW w \in Workers, NEW inst \in Instruments, NEW form, NEW sym, CreateInvestment(w, inst, form, sym)
  PROVE  Good(w)
<1> DEFINE row == [NoHold EXCEPT !.inst = inst, !.sym = sym, !.fig = Entered(Blank, form)]
<1>1. IsLocal(work[w]) /\ Calm(work[w])
  BY KnowsHead DEF Calm, CreateInvestment, Begin
<1>3. IsHold(row)
  BY DEF IsHold, NoHold, NoPrice, IsPrice
<1>2. UNCHANGED work
  BY DEF CreateInvestment
<1>4. Set(w, work[w])
  BY <1>2, SameTables DEF Inv
<1>5. OpenHold(row) /\ UNCHANGED <<scene, trade, nextTrade, work>>
  BY DEF CreateInvestment
<1> HIDE DEF row
<1>6. ASSUME NEW me, me = work[w] PROVE Knows(me)'
  BY <1>1, <1>5, <1>6 DEF Calm, Knows, Relies
<1> QED
  BY <1>1, <1>3, <1>4, <1>5, <1>6, OpenStep

\* UpdateInvestment preserves the invariant.
LEMMA UpdateInvestmentGood ==
  ASSUME Inv, NEW w \in Workers, NEW h, NEW form, NEW sym, sym # "auto", UpdateInvestment(w, h, form, sym)
  PROVE  Good(w)
<1> DEFINE f == Entered(Blank, form)
           n == Count(h)
           me == [Off EXCEPT !.pc = "edit", !.h = h, !.saw = n, !.then = "symbol", !.fig = f, !.sym = sym]
<1>1. IsLocal(me) /\ Calm(me)
  <2> HIDE DEF f, n
  <2> QED
    BY OffCalm DEF IsLocal, Calm, Off, Plain, Thens
<1>2. Set(w, me) /\ UNCHANGED tables /\ UNCHANGED scene
  BY DEF UpdateInvestment, Local
<1> HIDE DEF me
<1> QED
  BY <1>1, <1>2, CalmKnows, LocalStep DEF tables

\* EditWrite preserves the invariant.
LEMMA EditWriteGood == ASSUME Inv, NEW w \in Workers, EditWrite(w) PROVE Good(w)
<1> DEFINE me == work[w]
           f == me.fig
           row == [hold[me.h] EXCEPT !.fig = [@ EXCEPT !.units = f.units, !.cost = f.cost,
                                                       !.value = f.value, !.status = f.status]]
<1>1. CASE me.saw = "trades"
  <2>1. IsLocal(Recompute(me, "symbol")) /\ Calm(Recompute(me, "symbol"))
    BY KnowsHead DEF IsLocal, Calm, Recompute, Plain, Thens
  <2>2. Set(w, Recompute(me, "symbol")) /\ UNCHANGED <<scene, hold, trade, nextHold, nextTrade>>
    BY <1>1 DEF EditWrite
  <2> QED
    BY <2>1, <2>2, CalmKnows, LocalStep
<1>2. CASE me.saw # "trades"
  <2>1. IsLocal(Resume(me)) /\ Calm(Resume(me))
    BY ResumeCalm, KnowsHead
  <2>2. me.h \in HoldIds => IsHold(row) /\ row.inst = hold[me.h].inst
    BY DEF Inv, Shaped, IsHold
  <2>3. Set(w, Resume(me)) /\ Put(me.h, row) /\ UNCHANGED <<scene, trade, nextHold, nextTrade>>
    BY <1>2 DEF EditWrite
  <2> HIDE DEF row
  <2> QED
    BY <2>1, <2>2, <2>3, CalmKnows, PutStep
<1> QED
  BY <1>1, <1>2

\* EditSymbol preserves the invariant.
LEMMA EditSymbolGood == ASSUME Inv, NEW w \in Workers, EditSymbol(w) PROVE Good(w)
<1> DEFINE h == work[w].h
           row == [hold[h] EXCEPT !.sym = work[w].sym, !.err = @ /\ hold[h].sym = work[w].sym]
<1>1. h \in HoldIds => IsHold(row) /\ row.inst = hold[h].inst
  BY DEF Inv, Shaped, IsHold
<1>2. Set(w, Off) /\ Put(h, row) /\ UNCHANGED <<scene, trade, nextHold, nextTrade>>
  BY DEF EditSymbol
<1> HIDE DEF row
<1> QED
  BY <1>1, <1>2, OffCalm, CalmKnows, PutStep

\* A deleted position takes its trades along: none is left without its holding.
LEMMA DeleteInvestmentGood ==
  ASSUME Inv, NEW w \in Workers, NEW h \in HoldIds, DeleteInvestment(w, h) PROVE Good(w)
<1>0. IsHold(NoHold) /\ NoHold.inst = None /\ IsTrade(NoTrade) /\ NoTrade.of = 0 /\ NoTrade.src = None
  BY DEF IsHold, NoHold, NoPrice, IsPrice, IsTrade, NoTrade
<1>1. /\ work' = work /\ work[w].pc = "idle"
      /\ DOMAIN hold' = HoldIds /\ \A g \in HoldIds : IsHold(hold'[g]) /\ hold'[g] = IF g = h THEN NoHold ELSE hold[g]
      /\ DOMAIN trade' = TradeIds
      /\ \A t \in TradeIds : IsTrade(trade'[t]) /\ trade'[t] = IF trade[t].of = h THEN NoTrade ELSE trade[t]
      /\ UNCHANGED <<scene, nextHold, nextTrade>>
  BY <1>0 DEF Inv, Shaped, DeleteInvestment, Begin
<1>2. Shaped'
  BY <1>1 DEF Inv, Shaped
<1>3. Ordinal' /\ Grows
  <2>1. Ordinal'
    BY <1>0, <1>1 DEF Inv, Ordinal, Exists
  <2>2. Grows
    BY <1>0, <1>1 DEF Inv, Shaped, Grows
  <2> QED
    BY <2>1, <2>2
<1>4. OncePerSource'
  BY <1>0, <1>1 DEF Inv, OncePerSource
<1>5. Knows(work[w])'
  BY <1>1, KnowsHead DEF Knows, Relies
<1> QED
  BY <1>1, <1>2, <1>3, <1>4, <1>5 DEF Good

\* SetPrice preserves the invariant.
LEMMA SetPriceGood ==
  ASSUME Inv, NEW w \in Workers, NEW h, NEW day \in Days \cup {Now}, SetInvestmentPrice(w, h, day) PROVE Good(w)
<1> DEFINE price == Price("manual", day, Typed)
           me == [Off EXCEPT !.pc = "priced", !.h = h, !.bid = price]
           row == [hold[h] EXCEPT !.price = price]
<1>1. IsPrice(price)
  <2>1. Days \subseteq Int /\ Now \in Int
    BY HoldingsAssumption
  <2>2. day \in Int
    BY <2>1
  <2> QED
    BY <2>2 DEF IsPrice, Price
<1>2. IsLocal(me) /\ Calm(me)
  <2> HIDE DEF price
  <2> QED
    BY <1>1, OffCalm DEF IsLocal, Calm, Off
<1>3. h \in HoldIds => IsHold(row) /\ row.inst = hold[h].inst
  <2> HIDE DEF price
  <2> QED
    BY <1>1 DEF Inv, Shaped, IsHold
<1>4. Set(w, me) /\ Put(h, row) /\ UNCHANGED <<scene, trade, nextHold, nextTrade>>
  BY DEF SetInvestmentPrice
<1> HIDE DEF me, row
<1> QED
  BY <1>2, <1>3, <1>4, CalmKnows, PutStep

\* AddTrade preserves the invariant.
LEMMA AddTradeGood ==
  ASSUME Inv, NEW w \in Workers, NEW h, NEW day, NEW o, AddInvestmentTrade(w, h, day, o) PROVE Good(w)
<1> DEFINE me == Recompute([Off EXCEPT !.h = h], "idle")
           row == Ordered(h, day, o)
<1>1. IsLocal(me) /\ Calm(me)
  BY OffCalm DEF IsLocal, Calm, Off, Recompute, Plain, Thens
<1>2. IsTrade(row) /\ row.of = h /\ row.src = None
  BY DEF Ordered, IsTrade
<1>3. Set(w, me) /\ InsertTrade(row) /\ Exists(h) /\ UNCHANGED <<scene, hold, nextHold>>
  BY DEF AddInvestmentTrade
<1> HIDE DEF me, row
<1>4. Knows(me)'
  BY <1>1 DEF Calm, Knows, Relies
<1> QED
  BY <1>1, <1>2, <1>3, <1>4, InsertStep

\* UpdateTrade preserves the invariant.
LEMMA UpdateTradeGood ==
  ASSUME Inv, NEW w \in Workers, NEW t \in TradeIds, NEW day, NEW o, UpdateInvestmentTrade(w, t, day, o)
  PROVE  Good(w)
<1> DEFINE old == trade[t]
           me == Recompute([Off EXCEPT !.h = old.of], "idle")
           row == [Ordered(old.of, day, o) EXCEPT !.src = old.src, !.rate = IF day = old.day THEN old.rate ELSE @]
<1>1. IsLocal(me) /\ Calm(me)
  BY OffCalm DEF IsLocal, Calm, Off, Recompute, Plain, Thens
<1>2. IsTrade(row) /\ row.of = old.of /\ row.src = old.src
  BY DEF Ordered, IsTrade
<1>3. Set(w, me) /\ trade' = [trade EXCEPT ![t] = row] /\ UNCHANGED <<scene, hold, nextHold, nextTrade>>
  BY DEF UpdateInvestmentTrade
<1> HIDE DEF me, row
<1> QED
  BY <1>1, <1>2, <1>3, CalmKnows, TradeStep

\* DropTrade preserves the invariant.
LEMMA DropTradeGood ==
  ASSUME Inv, NEW w \in Workers, NEW t \in TradeIds, DeleteInvestmentTrade(w, t) PROVE Good(w)
<1> DEFINE me == Recompute([Off EXCEPT !.h = trade[t].of], "idle")
<1>1. IsLocal(me) /\ Calm(me)
  BY OffCalm DEF IsLocal, Calm, Off, Recompute, Plain, Thens
<1>2. Set(w, me) /\ trade' = [trade EXCEPT ![t] = NoTrade] /\ UNCHANGED <<scene, hold, nextHold, nextTrade>>
  BY DEF DeleteInvestmentTrade
<1> HIDE DEF me
<1>3. /\ work' = [v \in Workers |-> work'[v]] /\ work'[w] = me
      /\ \A v \in Workers \ {w} : work'[v] = work[v]
      /\ \A v \in Workers : IsLocal(work'[v])
  BY <1>1, <1>2, SetStep DEF Inv
<1>4. /\ DOMAIN trade' = TradeIds
      /\ \A u \in TradeIds : IsTrade(trade'[u]) /\ trade'[u] = IF u = t THEN NoTrade ELSE trade[u]
  BY <1>2 DEF Inv, Shaped, IsTrade, NoTrade
<1>5. Shaped'
  BY <1>2, <1>3, <1>4 DEF Inv, Shaped
<1>6. Ordinal' /\ Grows
  BY <1>2, <1>4 DEF Inv, Shaped, Ordinal, Exists, NoTrade, Grows
<1>7. OncePerSource'
  BY <1>4 DEF Inv, OncePerSource, NoTrade
<1>8. Knows(work[w])'
  BY <1>1, <1>3 DEF Calm, Knows, Relies
<1> QED
  BY <1>3, <1>5, <1>6, <1>7, <1>8 DEF Good

-----------------------------------------------------------------------------
\* ResolveHolding finds the holding of the instrument, or saw that there is none.
LEMMA LookUpGood ==
  ASSUME Inv, NEW w \in Workers, NEW me, IsLocal(me), me.then \in Plain, me.sym # "auto",
         me.inst \in Assets, me.row.rate = FreshRate(me.inst), LookUp(w, me)
  PROVE  Good(w)
<1> DEFINE h == Min(Match(me.inst))
           found == Found(me, h)
           open == [me EXCEPT !.pc = "open", !.saw = nextHold]
<1>1. UNCHANGED tables /\ UNCHANGED scene
  BY DEF LookUp, Local
<1>2. CASE Match(me.inst) # {}
  <2>1. Match(me.inst) \in SUBSET Nat
    BY IdsAreNat DEF Match
  <2>2. h \in Match(me.inst)
    BY <1>2, <2>1, LeastNatural
  <2>3. h \in HoldIds /\ hold[h].inst = me.inst /\ h # 0 /\ h < nextHold
    <3> HIDE DEF h
    <3> QED
      BY <2>2, IdsAreNat, HoldingsAssumption DEF Match, Inv, Ordinal
  <2>4. Set(w, found)
    BY <1>2 DEF LookUp, Local
  <2>5. IsLocal(found) /\ Knows(found)
    <3> HIDE DEF h
    <3>1. IsLocal(found)
      BY DEF IsLocal, Found
    <3>2. /\ found.pc = IF me.bid = NoPrice THEN "record" ELSE "count"
          /\ found.h = h /\ found.inst = me.inst /\ found.row = me.row /\ found.bid = me.bid
          /\ found.then = me.then /\ found.sym = me.sym
      BY DEF IsLocal, Found
    <3> HIDE DEF found
    <3> QED
      BY <2>3, <3>1, <3>2 DEF Knows, Relies, Plain, Thens
  <2> HIDE DEF found
  <2> QED
    BY <1>1, <2>4, <2>5, LocalStep DEF tables
<1>3. CASE Match(me.inst) = {}
  <2>1. Set(w, open)
    BY <1>3 DEF LookUp, Local
  <2>2. IsLocal(open)
    BY DEF IsLocal
  <2>3. /\ open.pc = "open" /\ open.saw = nextHold /\ open.inst = me.inst /\ open.row = me.row
        /\ open.then = me.then /\ open.sym = me.sym
    BY DEF IsLocal
  <2>4. nextHold \in Nat /\ \A g \in HoldIds : hold[g].inst # me.inst
    BY <1>3 DEF Inv, Shaped, Match
  <2> HIDE DEF open
  <2>5. Knows(open)
    BY <2>3, <2>4 DEF Knows, Relies, Plain, Thens
  <2> QED
    BY <1>1, <2>1, <2>2, <2>5, LocalStep DEF tables
<1> QED
  BY <1>2, <1>3

\* TradeMail preserves the invariant.
LEMMA TradeMailGood == ASSUME Inv, NEW w \in Workers, NEW m \in DOMAIN Mails, TradeMail(w, m) PROVE Good(w)
<1> DEFINE t == Mails[m]
           row == [of |-> 0, day |-> t.day, side |-> t.side, shares |-> t.shares, amt |-> t.amt,
                   rate |-> FreshRate(t.inst), src |-> m]
           me == [Off EXCEPT !.inst = t.inst, !.row = row]
<1>1. IsTrade(row) /\ row.rate = FreshRate(t.inst)
  BY DEF IsTrade
<1>2. IsLocal(me) /\ me.then \in Plain /\ me.sym # "auto" /\ me.inst = t.inst /\ me.row = row
  <2> HIDE DEF row
  <2> QED
    BY <1>1, OffCalm DEF IsLocal, Calm, Off, Plain, Thens
<1>3. LookUp(w, me)
  BY DEF TradeMail
<1>4. t.inst \in Assets
  BY HoldingsAssumption DEF Assets
<1> HIDE DEF me, row
<1> QED
  BY <1>1, <1>2, <1>3, <1>4, LookUpGood

\* Statement preserves the invariant.
LEMMA StatementGood ==
  ASSUME Inv, NEW w \in Workers, NEW inst \in Instruments, NEW day \in Days, Statement(w, inst, day)
  PROVE  Good(w)
<1> DEFINE row == [of |-> 0, day |-> day, side |-> "buy", shares |-> Line.units, amt |-> Line.value,
                   rate |-> FreshRate(inst), src |-> Seed(inst)]
           price == Price("statement", day, Line.price)
           me == [Off EXCEPT !.inst = inst, !.bid = price, !.row = row]
<1>1. IsTrade(row) /\ row.rate = FreshRate(inst)
  BY DEF IsTrade
<1>2. IsPrice(price)
  <2>1. day \in Int
    BY HoldingsAssumption
  <2> QED
    BY <2>1 DEF IsPrice, Price
<1>3. IsLocal(me) /\ me.then \in Plain /\ me.sym # "auto" /\ me.inst = inst /\ me.row = row
  <2> HIDE DEF row, price
  <2> QED
    BY <1>1, <1>2, OffCalm DEF IsLocal, Calm, Off, Plain, Thens
<1>4. LookUp(w, me)
  BY DEF Statement
<1>5. inst \in Assets
  BY DEF Assets
<1> HIDE DEF me, row, price
<1> QED
  BY <1>1, <1>3, <1>4, <1>5, LookUpGood

\* The new position is of the instrument that was looked for.
LEMMA OpenForTradeGood == ASSUME Inv, NEW w \in Workers, OpenForTrade(w) PROVE Good(w)
<1> DEFINE me == work[w]
           row == [NoHold EXCEPT !.inst = me.inst]
           next == Found(me, nextHold)
<1>1. IsHold(row) /\ row.inst = me.inst
  BY DEF IsHold, NoHold, NoPrice, IsPrice
<1>2. OpenHold(row) /\ Set(w, next) /\ UNCHANGED <<scene, trade, nextTrade>>
  BY DEF OpenForTrade
<1>3. /\ IsLocal(next)
      /\ next.pc = IF me.bid = NoPrice THEN "record" ELSE "count"
      /\ next.h = nextHold /\ next.inst = me.inst /\ next.row = me.row /\ next.bid = me.bid
      /\ next.then = me.then /\ next.sym = me.sym
  BY KnowsHead DEF IsLocal, Found
<1>4. me.inst \in Assets /\ me.row.rate = FreshRate(me.inst) /\ me.then \in Plain /\ me.sym # "auto"
  BY NotTouched DEF Inv, Knows, Relies, OpenForTrade, Replaying
<1> HIDE DEF row, next
<1>5. nextHold # 0 /\ nextHold < nextHold' /\ (nextHold \in HoldIds => hold'[nextHold].inst = me.inst)
  BY <1>1, <1>2 DEF OpenHold, Inv, Shaped
<1>6. ASSUME NEW x, x = next PROVE Knows(x)'
  BY <1>3, <1>4, <1>5, <1>6 DEF Knows, Relies, FreshRate, Plain, Thens
<1> QED
  BY <1>1, <1>2, <1>3, <1>6, OpenStep

\* A statement goes on to seed only a holding it found without trades.
LEMMA SnapshotCountGood == ASSUME Inv, NEW w \in Workers, SnapshotCount(w) PROVE Good(w)
<1> DEFINE next == [work[w] EXCEPT !.pc = IF Backed(work[w].h) THEN "forward" ELSE "record", !.saw = nextTrade]
<1>1. IsLocal(next)
  BY KnowsHead DEF IsLocal
<1>2. Knows(next)
  <2>0. work[w].then \in Plain /\ work[w].sym # "auto"
    BY NotTouched, KnowsHead DEF SnapshotCount, Replaying
  <2>1. CASE Backed(work[w].h)
    BY <2>0, <2>1, KnowsHead, CalmKnows DEF IsLocal, Calm, Plain, Thens
  <2>2. CASE ~Backed(work[w].h)
    <3>1. Knows(work[w]) /\ work[w].pc = "count" /\ nextTrade \in Nat
      BY DEF SnapshotCount, Inv, Shaped
    <3>2. \A t \in TradeIds : trade[t].of # work[w].h
      BY <2>2, <3>1 DEF Backed, Of, Knows, Relies
    <3> QED
      BY <2>0, <2>2, <3>1, <3>2, KnowsHead DEF IsLocal, Knows, Relies, Plain, Thens
  <2> QED
    BY <2>1, <2>2
<1>3. Set(w, next) /\ UNCHANGED tables /\ UNCHANGED scene
  BY DEF SnapshotCount, Local
<1> HIDE DEF next
<1> QED
  BY <1>1, <1>2, <1>3, LocalStep DEF tables

\* The UNIQUE index keeps a source from being recorded twice.
LEMMA RecordTradeGood == ASSUME Inv, NEW w \in Workers, RecordTrade(w) PROVE Good(w)
<1> DEFINE me == work[w]
           row == [me.row EXCEPT !.of = me.h]
           then == IF me.bid = NoPrice THEN "idle" ELSE "forward"
           next == Recompute(me, then)
<1>1. IsLocal(next) /\ Calm(next)
  BY KnowsHead DEF IsLocal, Calm, Recompute, Plain, Thens
<1>2. IsTrade(row) /\ row.of = me.h /\ row.src = me.row.src
  BY KnowsHead DEF IsLocal, IsTrade
<1>3. UNCHANGED <<scene, hold, nextHold>>
  BY DEF RecordTrade
<1>4. \/ Exists(me.h) /\ ~Known(row) /\ InsertTrade(row) /\ Set(w, next)
      \/ Set(w, next) /\ UNCHANGED <<trade, nextTrade>>
      \/ Set(w, Off) /\ UNCHANGED <<trade, nextTrade>>
  BY DEF RecordTrade
<1> HIDE DEF row, next
<1>5. ASSUME NEW x, x = next PROVE Knows(x)'
  BY <1>1, <1>5 DEF Calm, Knows, Relies
<1>6. CASE Exists(me.h) /\ ~Known(row) /\ InsertTrade(row) /\ Set(w, next)
  BY <1>1, <1>2, <1>3, <1>5, <1>6, InsertStep
<1>7. CASE Set(w, next) /\ UNCHANGED <<trade, nextTrade>>
  BY <1>1, <1>3, <1>7, CalmKnows, LocalStep
<1>8. CASE Set(w, Off) /\ UNCHANGED <<trade, nextTrade>>
  BY <1>3, <1>8, OffCalm, CalmKnows, LocalStep
<1> QED
  BY <1>4, <1>6, <1>7, <1>8

\* A statement goes on to its price only past one that is not newer.
LEMMA ForwardGood == ASSUME Inv, NEW w \in Workers, Forward(w) PROVE Good(w)
<1> DEFINE me == work[w]
           price == hold[me.h].price
           next == [me EXCEPT !.pc = "price", !.saw = price]
<1>1. UNCHANGED tables /\ UNCHANGED scene
  BY DEF Forward, Local
<1>2. CASE me.bid.at < price.at
  <2>1. Set(w, Off)
    BY <1>2 DEF Forward, Local
  <2> QED
    BY <1>1, <2>1, OffCalm, CalmKnows, LocalStep DEF tables
<1>3. CASE ~(me.bid.at < price.at)
  <2>1. Set(w, next)
    BY <1>3 DEF Forward, Local
  <2>2. IsLocal(next)
    BY KnowsHead DEF IsLocal
  <2>3. me.h \in HoldIds => IsPrice(price) /\ price.at <= me.bid.at
    BY <1>3, KnowsHead DEF Inv, Shaped, IsHold, IsPrice, IsLocal
  <2>4. Knows(next)
    <3> HIDE DEF price
    <3>1. me.then \in Plain /\ me.sym # "auto"
      BY NotTouched, KnowsHead DEF Forward, Replaying
    <3> QED
      BY <2>3, <3>1, KnowsHead DEF Knows, Relies, IsLocal, Plain, Thens
  <2> HIDE DEF next
  <2> QED
    BY <1>1, <2>1, <2>2, <2>4, LocalStep DEF tables
<1> QED
  BY <1>2, <1>3

\* StatementPrice preserves the invariant.
LEMMA StatementPriceGood == ASSUME Inv, NEW w \in Workers, StatementPrice(w) PROVE Good(w)
<1> DEFINE me == work[w]
           row == [hold[me.h] EXCEPT !.price = me.bid]
           next == [me EXCEPT !.pc = "priced", !.then = "idle", !.saw = None]
<1>1. IsLocal(next) /\ Calm(next)
  BY KnowsHead DEF IsLocal, Calm, Plain, Thens
<1>2. me.h \in HoldIds => IsHold(row) /\ row.inst = hold[me.h].inst
  BY KnowsHead DEF Inv, Shaped, IsHold, IsLocal
<1>3. Set(w, next) /\ Put(me.h, row) /\ UNCHANGED <<scene, trade, nextHold, nextTrade>>
  BY DEF StatementPrice
<1> HIDE DEF next, row
<1> QED
  BY <1>1, <1>2, <1>3, CalmKnows, PutStep

\* ImportDeposit preserves the invariant.
LEMMA ImportDepositGood == ASSUME Inv, NEW w \in Workers, NEW form, ImportDeposit(w, form) PROVE Good(w)
<1> DEFINE fresh == [NoHold EXCEPT !.inst = Deposit, !.fig.cost = form.cost, !.fig.value = form.cost]
           row(h) == [hold[h] EXCEPT !.fig.cost = form.cost, !.fig.value = form.cost]
<1>1. work[w].pc = "idle" /\ UNCHANGED work /\ UNCHANGED <<scene, trade, nextTrade>>
  BY DEF ImportDeposit, Begin
<1>2. IsLocal(work[w]) /\ Calm(work[w]) /\ Set(w, work[w])
  BY <1>1, KnowsHead, SameTables DEF Calm, Inv
<1>3. \/ OpenHold(fresh)
      \/ \E h \in HoldIds : Put(h, row(h)) /\ UNCHANGED nextHold
  BY DEF ImportDeposit, Match
<1>4. IsHold(fresh)
  BY DEF IsHold, NoHold, NoPrice, IsPrice
<1>5. \A h \in HoldIds : IsHold(row(h)) /\ row(h).inst = hold[h].inst
  BY DEF Inv, Shaped, IsHold
<1> HIDE DEF fresh, row
<1>6. ASSUME NEW me, me = work[w] PROVE Knows(me)'
  BY <1>1, <1>2, <1>6 DEF Calm, Knows, Relies
<1>7. CASE OpenHold(fresh)
  BY <1>1, <1>2, <1>4, <1>6, <1>7, OpenStep
<1>8. ASSUME NEW h \in HoldIds, Put(h, row(h)), UNCHANGED nextHold PROVE Good(w)
  BY <1>1, <1>2, <1>5, <1>8, CalmKnows, PutStep
<1> QED
  BY <1>3, <1>7, <1>8

-----------------------------------------------------------------------------
\* Nobody is on its way to write the rate who has seen the user's.
LEMMA RateGood ==
  ASSUME Inv, NEW w \in Workers, SetFXRate(w) \/ EnsureRate(w) \/ SetRate(w) \/ SetMarketRate(w)
  PROVE  Good(w)
<1> DEFINE derive == [Off EXCEPT !.pc = "setRate", !.saw = rate, !.sym = "derived"]
           fetch == [work[w] EXCEPT !.pc = "setRate", !.saw = rate, !.sym = "market"]
<1>1. UNCHANGED <<scene, hold, trade, nextHold, nextTrade>>
  BY DEF SetFXRate, EnsureRate, SetRate, SetMarketRate, Local, tables
<1>2. CASE SetFXRate(w)
  <2>1. work[w].pc = "idle" /\ UNCHANGED work
    BY <1>2 DEF SetFXRate, Begin
  <2>2. IsLocal(work[w]) /\ Calm(work[w]) /\ Set(w, work[w])
    BY <2>1, KnowsHead, SameTables DEF Calm, Inv
  <2> QED
    BY <1>1, <2>2, CalmKnows, LocalStep
<1>3. CASE EnsureRate(w)
  <2>1. Set(w, derive) /\ rate # "manual"
    BY <1>3, HoldingsAssumption DEF EnsureRate, Local
  <2>2. IsLocal(derive) /\ Knows(derive)
    BY <2>1, OffCalm DEF IsLocal, Knows, Relies, Calm, Off, Plain, Thens
  <2> HIDE DEF derive
  <2> QED
    BY <1>1, <2>1, <2>2, LocalStep
<1>4. CASE SetRate(w) \/ Set(w, Off)
  BY <1>1, <1>4, OffCalm, CalmKnows, LocalStep DEF SetRate
<1>5. CASE SetMarketRate(w) /\ ~Set(w, Off)
  <2>1. Set(w, fetch) /\ rate # "manual"
    BY <1>5 DEF SetMarketRate, Local
  <2>3. work[w].then \in Plain
    BY <1>5, NotTouched DEF SetMarketRate, Replaying
  <2>2. IsLocal(fetch) /\ Knows(fetch)
    BY <2>1, <2>3, KnowsHead DEF IsLocal, Knows, Relies, Plain, Thens
  <2> HIDE DEF fetch
  <2> QED
    BY <1>1, <2>1, <2>2, LocalStep
<1> QED
  BY <1>2, <1>3, <1>4, <1>5

\* A search goes on with what is left of it.
LEMMA ToTradesKnows ==
  ASSUME NEW me, IsLocal(me), me.then \in Plain, me.sym # "auto",
         \A h \in me.todo : h \in HoldIds /\ h \in DOMAIN me.snap /\ me.snap[h].sym = ""
  PROVE  IsLocal(ToTrades(me)) /\ Knows(ToTrades(me))
<1>1. IsLocal(ToTrades(me))
  BY DEF IsLocal, ToTrades
<1>2. CASE me.todo = {}
  BY <1>1, <1>2, CalmKnows DEF IsLocal, ToTrades, Calm, Plain, Thens
<1>3. CASE me.todo # {}
  BY <1>1, <1>3 DEF IsLocal, ToTrades, Knows, Relies, Plain, Thens
<1> QED
  BY <1>1, <1>2, <1>3

\* What a refresh means to search had no symbol when it was loaded.
LEMMA RefreshGood ==
  ASSUME Inv, NEW w \in Workers, NEW only, Refresh(w, only) PROVE Good(w)
<1> DEFINE snap == [h \in {g \in HoldIds : Loaded(g) /\ only \in {0, g}} |->
                      [sym |-> hold[h].sym, err |-> hold[h].err, units |-> hold[h].fig.units]]
           todo == Unresolved(snap, only # 0)
           me == [Off EXCEPT !.live = TRUE, !.snap = snap, !.todo = todo]
<1>1. \A h \in todo : h \in HoldIds /\ h \in DOMAIN snap /\ snap[h].sym = ""
  BY DEF Unresolved
<1>2. IsLocal(me) /\ me.then \in Plain /\ me.sym # "auto" /\ me.todo = todo /\ me.snap = snap
  <2> HIDE DEF snap, todo
  <2> QED
    BY OffCalm DEF IsLocal, Calm, Off, Plain, Thens
<1>3. Set(w, ToTrades(me)) /\ UNCHANGED tables /\ UNCHANGED scene
  BY DEF Refresh, Local
<1> HIDE DEF snap, todo, me
<1>4. IsLocal(ToTrades(me)) /\ Knows(ToTrades(me))
  BY <1>1, <1>2, ToTradesKnows
<1> QED
  BY <1>3, <1>4, LocalStep DEF tables

\* ResolveSymbol preserves the invariant.
LEMMA ResolveSymbolGood == ASSUME Inv, NEW w \in Workers, ResolveSymbol(w) PROVE Good(w)
<1> DEFINE me == work[w]
           h == Min(me.todo)
           next == [me EXCEPT !.todo = @ \ {h}]
           named == [next EXCEPT !.snap[h].sym = "auto"]
           row1 == [hold[h] EXCEPT !.sym = "auto", !.err = FALSE]
           row2 == [hold[h] EXCEPT !.err = TRUE]
<1>1. me.todo # {} /\ \A g \in me.todo : g \in HoldIds /\ g \in DOMAIN me.snap /\ me.snap[g].sym = ""
  BY DEF Inv, Knows, Relies, ResolveSymbol
<1>2. \/ Put(h, row1) /\ Set(w, ToTrades(named))
      \/ Put(h, row2) /\ Set(w, ToTrades(next))
      \/ UNCHANGED hold /\ Set(w, ToTrades(next))
  BY DEF ResolveSymbol
<1>3. UNCHANGED <<scene, trade, nextHold, nextTrade>>
  BY DEF ResolveSymbol
<1>4. h \in HoldIds => /\ IsHold(row1) /\ row1.inst = hold[h].inst
                       /\ IsHold(row2) /\ row2.inst = hold[h].inst
  <2> HIDE DEF h
  <2> QED
    BY DEF Inv, Shaped, IsHold
<1> HIDE DEF h
<1>5. /\ IsLocal(next) /\ next.then \in Plain /\ next.sym # "auto"
      /\ next.todo = me.todo \ {h} /\ next.snap = me.snap
  BY NotTouched, KnowsHead DEF IsLocal, ResolveSymbol, Replaying
<1>6. /\ IsLocal(named) /\ named.then \in Plain /\ named.sym # "auto"
      /\ named.todo = me.todo \ {h}
      /\ \A g \in DOMAIN me.snap \ {h} : g \in DOMAIN named.snap /\ named.snap[g] = me.snap[g]
  <2> HIDE DEF next
  <2> QED
    BY <1>5 DEF IsLocal
<1> HIDE DEF next, named, row1, row2
<1>7. IsLocal(ToTrades(next)) /\ Knows(ToTrades(next))
  BY <1>1, <1>5, ToTradesKnows
<1>8. IsLocal(ToTrades(named)) /\ Knows(ToTrades(named))
  BY <1>1, <1>6, ToTradesKnows
<1>9. CASE Put(h, row1) /\ Set(w, ToTrades(named))
  BY <1>3, <1>4, <1>8, <1>9, PutStep
<1>10. CASE Put(h, row2) /\ Set(w, ToTrades(next))
  BY <1>3, <1>4, <1>7, <1>10, PutStep
<1>11. CASE UNCHANGED hold /\ Set(w, ToTrades(next))
  BY <1>3, <1>7, <1>11, LocalStep
<1> QED
  BY <1>2, <1>9, <1>10, <1>11

\* The trades due a rate are there, and remember their holding.
LEMMA BackfillGood == ASSUME Inv, NEW w \in Workers, Backfill(w) PROVE Good(w)
<1> DEFINE me == work[w]
           due == {t \in TradeIds : trade[t].of # 0 /\ trade[t].rate = None}
           rows == [t \in due |-> trade[t]]
           next == [me EXCEPT !.pc = "tradeRate", !.due = rows]
<1>0. me.then \in Plain
  BY NotTouched DEF Backfill, Replaying
<1>1. UNCHANGED tables /\ UNCHANGED scene
  BY DEF Backfill, Local
<1>2. (due # {} /\ Set(w, next)) \/ Set(w, ToPrices(me))
  BY DEF Backfill, Local
<1>3. CASE Set(w, ToPrices(me))
  BY <1>0, <1>1, <1>3, KnowsHead, PhaseCalm, CalmKnows, LocalStep DEF tables
<1>4. CASE due # {} /\ Set(w, next)
  <2>1. /\ DOMAIN rows # {}
        /\ \A t \in DOMAIN rows : t \in TradeIds /\ t < nextTrade /\ rows[t].of = trade[t].of
    BY <1>4 DEF Inv, Ordinal
  <2>2. /\ IsLocal(next) /\ next.pc = "tradeRate" /\ next.due = rows
        /\ next.then \in Plain /\ next.sym # "auto"
    <3> HIDE DEF rows
    <3> QED
      BY <1>0, KnowsHead DEF IsLocal
  <2> HIDE DEF rows, next
  <2>3. Knows(next)
    BY <2>1, <2>2 DEF Knows, Relies, Plain, Thens
  <2> QED
    BY <1>1, <1>4, <2>2, <2>3, LocalStep DEF tables
<1> QED
  BY <1>2, <1>3, <1>4

\* A rate is written into the row it was loaded from.
LEMMA SetTradeRateGood == ASSUME Inv, NEW w \in Workers, SetTradeRate(w) PROVE Good(w)
<1> DEFINE me == work[w]
           t == Min(DOMAIN me.due)
           old == me.due[t]
           rest == [u \in DOMAIN me.due \ {t} |-> me.due[u]]
           todo == IF DayRate[old.day] = 0 THEN me.todo ELSE me.todo \cup {old.of}
           next == [me EXCEPT !.due = rest, !.todo = todo]
           row == IF trade[t].of = 0 \/ DayRate[old.day] = 0 THEN trade[t]
                  ELSE [trade[t] EXCEPT !.rate = DayRate[old.day]]
           after == IF DOMAIN rest = {} THEN ToTouched(next) ELSE next
<1>1. /\ me.pc = "tradeRate" /\ DOMAIN me.due # {}
      /\ \A u \in DOMAIN me.due : u \in TradeIds /\ u < nextTrade /\ trade[u].of \in {0, me.due[u].of}
  BY DEF Inv, Knows, Relies, SetTradeRate
<1>2. t \in TradeIds
  <2>1. DOMAIN me.due \in SUBSET Nat
    BY <1>1, IdsAreNat
  <2> QED
    BY <1>1, <2>1, LeastNatural
<1>3. trade' = [trade EXCEPT ![t] = row] /\ UNCHANGED <<scene, hold, nextHold, nextTrade>>
  BY DEF SetTradeRate
<1>4. Set(w, after)
  BY DEF SetTradeRate
<1>5. IsTrade(row) /\ row.of = trade[t].of /\ row.src = trade[t].src
  <2> HIDE DEF t
  <2> QED
    BY <1>2 DEF Inv, Shaped, IsTrade
<1>6. \A u \in DOMAIN rest : u \in DOMAIN me.due /\ rest[u] = me.due[u]
  OBVIOUS
<1> HIDE DEF row, rest, todo
<1>7. IsLocal(next) /\ next.then \in Plain /\ next.sym # "auto" /\ next.due = rest /\ next.pc = "tradeRate"
  BY <1>1, NotTouched, KnowsHead DEF IsLocal, Replaying
<1> HIDE DEF next, t
<1>8. IsLocal(after) /\ Knows(after)
  <2>1. CASE DOMAIN rest = {}
    BY <1>7, <2>1, PhaseCalm, CalmKnows
  <2>2. CASE DOMAIN rest # {}
    BY <1>1, <1>6, <1>7, <2>2 DEF Knows, Relies, Plain, Thens
  <2> QED
    BY <2>1, <2>2
<1> HIDE DEF after
<1> QED
  BY <1>2, <1>3, <1>4, <1>5, <1>8, TradeStep

\* RecomputeTouched preserves the invariant.
LEMMA RecomputeTouchedGood == ASSUME Inv, NEW w \in Workers, RecomputeTouched(w) PROVE Good(w)
<1>1. PICK h : Local(w, Recompute([work[w] EXCEPT !.h = h, !.todo = @ \ {h}], "touched"))
  BY DEF RecomputeTouched
<1> DEFINE next == Recompute([work[w] EXCEPT !.h = h, !.todo = @ \ {h}], "touched")
<1>2. IsLocal(next) /\ Calm(next)
  BY KnowsHead DEF IsLocal, Calm, Replaying, Recompute, Plain, Thens
<1>3. Set(w, next) /\ UNCHANGED tables /\ UNCHANGED scene
  BY <1>1 DEF Local
<1> HIDE DEF next
<1> QED
  BY <1>2, <1>3, CalmKnows, LocalStep DEF tables

\* Quote preserves the invariant.
LEMMA QuoteGood == ASSUME Inv, NEW w \in Workers, Quote(w) PROVE Good(w)
<1> DEFINE me == work[w]
           h == Min(me.todo)
           next == [me EXCEPT !.todo = @ \ {h}, !.h = h]
           price == Price("market", Now, Market)
           had == [next EXCEPT !.pc = "priced", !.then = "quoted", !.bid = price]
           row1 == [hold[h] EXCEPT !.price = price]
           row2 == [hold[h] EXCEPT !.err = TRUE]
<1>1. UNCHANGED <<scene, trade, nextHold, nextTrade>>
  BY DEF Quote
<1>2. \/ Put(h, row1) /\ Set(w, had)
      \/ Put(h, row2) /\ Set(w, NextPrice(next))
  BY DEF Quote
<1>3. IsPrice(price)
  <2>1. Now \in Int
    BY HoldingsAssumption
  <2> QED
    BY <2>1 DEF IsPrice, Price
<1> HIDE DEF h, price
<1>4. h \in HoldIds => /\ IsHold(row1) /\ row1.inst = hold[h].inst
                       /\ IsHold(row2) /\ row2.inst = hold[h].inst
  BY <1>3 DEF Inv, Shaped, IsHold
<1>5. IsLocal(next) /\ next.then \in Plain /\ next.sym # "auto"
  BY NotTouched, KnowsHead DEF IsLocal, Quote, Replaying
<1>6. IsLocal(had) /\ Calm(had)
  <2> HIDE DEF next
  <2> QED
    BY <1>3, <1>5 DEF IsLocal, Calm, Plain, Thens
<1> HIDE DEF next, had, row1, row2
<1>7. CASE Put(h, row1) /\ Set(w, had)
  BY <1>1, <1>4, <1>6, <1>7, CalmKnows, PutStep
<1>8. CASE Put(h, row2) /\ Set(w, NextPrice(next))
  BY <1>1, <1>4, <1>5, <1>8, PhaseCalm, CalmKnows, PutStep
<1> QED
  BY <1>2, <1>7, <1>8

\* Quoted preserves the invariant.
LEMMA QuotedGood == ASSUME Inv, NEW w \in Workers, Quoted(w) PROVE Good(w)
<1> DEFINE me == work[w]
           row == [hold[me.h] EXCEPT !.err = FALSE]
           next == [me EXCEPT !.bid = NoPrice]
<1>1. Put(me.h, row) /\ Set(w, NextPrice(next)) /\ UNCHANGED <<scene, trade, nextHold, nextTrade>>
  BY DEF Quoted
<1>2. me.h \in HoldIds => IsHold(row) /\ row.inst = hold[me.h].inst
  BY DEF Inv, Shaped, IsHold
<1>3. IsLocal(next) /\ next.then \in Plain /\ next.sym # "auto"
  BY NotTouched, KnowsHead, OffCalm DEF IsLocal, Off, Quoted, Replaying
<1> HIDE DEF row, next
<1> QED
  BY <1>1, <1>2, <1>3, PhaseCalm, CalmKnows, PutStep

\* Currencies preserves the invariant.
LEMMA CurrenciesGood == ASSUME Inv, NEW w \in Workers, Currencies(w) PROVE Good(w)
<1> DEFINE next == [work[w] EXCEPT !.pc = "source"]
<1>1. UNCHANGED tables /\ UNCHANGED scene /\ (Set(w, next) \/ Set(w, Off))
  BY DEF Currencies, Local
<1>2. IsLocal(next) /\ Calm(next)
  BY NotTouched, KnowsHead DEF IsLocal, Calm, Currencies, Plain, Thens, Replaying
<1> HIDE DEF next
<1> QED
  BY <1>1, <1>2, OffCalm, CalmKnows, LocalStep DEF tables

-----------------------------------------------------------------------------
\* What a handler at rest knows is not disturbed by a step of another.
LEMMA OthersKeep ==
  ASSUME Inv, Grows, Shaped', NEW v \in Workers, work'[v] = work[v]
  PROVE  Knows(work[v])'
<1>0. PICK me : me = work[v]
  OBVIOUS
<1>1. Knows(me) /\ nextHold \in Nat /\ nextTrade \in Nat /\ HoldIds \subseteq Nat /\ TradeIds \subseteq Nat
  BY <1>0, IdsAreNat DEF Inv, Shaped
<1>2. /\ nextHold' \in Nat /\ nextTrade' \in Nat /\ nextHold' >= nextHold /\ nextTrade' >= nextTrade
      /\ \A h \in HoldIds : hold'[h].inst \in {hold[h].inst, None} \/ h = nextHold
      /\ \A t \in TradeIds : trade'[t].of \in {trade[t].of, 0} \/ t = nextTrade
  BY DEF Grows, Shaped
<1>4. me.pc = "open" => /\ me.saw \in Nat /\ me.saw <= nextHold'
                        /\ \A h \in HoldIds : hold'[h].inst = me.inst => h >= me.saw
  <2> SUFFICES ASSUME me.pc = "open"
               PROVE  /\ me.saw \in Nat /\ me.saw <= nextHold'
                      /\ \A h \in HoldIds : hold'[h].inst = me.inst => h >= me.saw
    OBVIOUS
  <2>1. me.saw \in Nat /\ me.saw <= nextHold /\ me.inst \in Assets /\ \A h \in HoldIds : hold[h].inst = me.inst => h >= me.saw
    BY <1>1 DEF Knows, Relies
  <2>2. me.inst # None
    BY <2>1, HoldingsAssumption
  <2> QED
    BY <1>1, <1>2, <2>1, <2>2
<1>5. me.pc \in {"count", "record"} /\ me.h \in HoldIds => me.h < nextHold' /\ hold'[me.h].inst \in {me.inst, None}
  <2> SUFFICES ASSUME me.pc \in {"count", "record"}, me.h \in HoldIds
               PROVE  me.h < nextHold' /\ hold'[me.h].inst \in {me.inst, None}
    OBVIOUS
  <2>1. me.h < nextHold /\ hold[me.h].inst \in {me.inst, None}
    BY <1>1 DEF Knows, Relies
  <2>2. me.h \in Nat
    BY <1>1
  <2>3. me.h < nextHold' /\ me.h # nextHold
    BY <1>1, <1>2, <2>1, <2>2
  <2> QED
    BY <1>2, <2>1, <2>3
<1>6. me.pc = "record" /\ me.bid # NoPrice =>
        /\ me.saw \in Nat /\ me.saw <= nextTrade'
        /\ \A t \in TradeIds : trade'[t].of = me.h => t >= me.saw
  <2> SUFFICES ASSUME me.pc = "record", me.bid # NoPrice
               PROVE  /\ me.saw \in Nat /\ me.saw <= nextTrade'
                      /\ \A t \in TradeIds : trade'[t].of = me.h => t >= me.saw
    OBVIOUS
  <2>1. /\ me.h # 0 /\ me.saw \in Nat /\ me.saw <= nextTrade
        /\ \A t \in TradeIds : trade[t].of = me.h => t >= me.saw
    BY <1>1 DEF Knows, Relies
  <2>2. me.saw <= nextTrade'
    BY <1>1, <1>2, <2>1
  <2>3. ASSUME NEW t \in TradeIds, trade'[t].of = me.h PROVE t >= me.saw
    <3>1. trade[t].of = me.h \/ t = nextTrade
      BY <1>2, <2>1, <2>3
    <3> QED
      BY <1>1, <2>1, <3>1
  <2> QED
    BY <2>1, <2>2, <2>3
<1>7. me.pc = "tradeRate" =>
        \A t \in DOMAIN me.due : t \in TradeIds /\ t < nextTrade' /\ trade'[t].of \in {0, me.due[t].of}
  <2> SUFFICES ASSUME me.pc = "tradeRate", NEW t \in DOMAIN me.due
               PROVE  t \in TradeIds /\ t < nextTrade' /\ trade'[t].of \in {0, me.due[t].of}
    OBVIOUS
  <2>1. t \in TradeIds /\ t < nextTrade /\ trade[t].of \in {0, me.due[t].of}
    BY <1>1 DEF Knows, Relies
  <2>2. t \in Nat
    BY <1>1, <2>1
  <2>3. t < nextTrade' /\ t # nextTrade
    BY <1>1, <1>2, <2>1, <2>2
  <2> QED
    BY <1>2, <2>1, <2>3
<1>8. Knows(me)'
  BY <1>1, <1>4, <1>5, <1>6, <1>7 DEF Knows, Relies, FreshRate
<1> QED
  BY <1>0, <1>8 DEF Knows

\* Every request keeps the invariant.
LEMMA RequestGood == ASSUME Inv, NEW w \in Workers, Request(w) PROVE Good(w)
<1>1. ASSUME NEW inst \in Instruments, NEW form \in Forms, NEW sym \in {"", "own"}, CreateInvestment(w, inst, form, sym)
      PROVE  Good(w)
  BY <1>1, CreateGood
<1>2. ASSUME NEW h \in HoldIds, NEW form \in Forms, NEW sym \in Symbols \cup {None}, sym # "auto",
             UpdateInvestment(w, h, form, sym)
      PROVE  Good(w)
  BY <1>2, UpdateInvestmentGood
<1>3. ASSUME NEW h \in HoldIds, DeleteInvestment(w, h) \/ RefreshOne(w, h) PROVE Good(w)
  BY <1>3, DeleteInvestmentGood, RefreshGood DEF RefreshOne
<1>4. ASSUME NEW h \in HoldIds, NEW day \in Days \cup {Now}, SetInvestmentPrice(w, h, day) PROVE Good(w)
  BY <1>4, SetPriceGood
<1>5. ASSUME NEW h \in HoldIds, NEW day \in Days, NEW o \in scene.orders, AddInvestmentTrade(w, h, day, o) PROVE Good(w)
  BY <1>5, AddTradeGood
<1>6. ASSUME NEW t \in TradeIds, NEW day \in Days, NEW o \in scene.orders, UpdateInvestmentTrade(w, t, day, o) PROVE Good(w)
  BY <1>6, UpdateTradeGood
<1>7. ASSUME NEW t \in TradeIds, DeleteInvestmentTrade(w, t) PROVE Good(w)
  BY <1>7, DropTradeGood
<1>8. ASSUME NEW m \in DOMAIN Mails, TradeMail(w, m) PROVE Good(w)
  BY <1>8, TradeMailGood
<1>9. ASSUME NEW inst \in Instruments, NEW day \in Days, Statement(w, inst, day) PROVE Good(w)
  BY <1>9, StatementGood
<1>10. ASSUME NEW form \in Forms, ImportDeposit(w, form) PROVE Good(w)
  BY <1>10, ImportDepositGood
<1>11. CASE SetFXRate(w) \/ EnsureRate(w) \/ RefreshAll(w)
  BY <1>11, RateGood, RefreshGood DEF RefreshAll
<1> QED
  BY <1>1, <1>2, <1>3, <1>4, <1>5, <1>6, <1>7, <1>8, <1>9, <1>10, <1>11, Zenon DEF Request

\* Every further statement keeps the invariant.
LEMMA StepGood == ASSUME Inv, NEW w \in Workers, Step(w) PROVE Good(w)
<1>1. Accounting(w) => Good(w)
  BY ReplayGood, LastPriceGood, WriteFiguresGood, CountTradesGood, RevalueGood DEF Accounting
<1> QED
  BY <1>1, EditWriteGood, EditSymbolGood, OpenForTradeGood, SnapshotCountGood, RecordTradeGood,
     ForwardGood, StatementPriceGood, RateGood, ResolveSymbolGood, BackfillGood, SetTradeRateGood,
     RecomputeTouchedGood, QuoteGood, QuotedGood, CurrenciesGood, Zenon DEF Step

\* An idle worker knows all it has to.
LEMMA OffKnows == Knows(Off)
  BY OffCalm, CalmKnows

\* The invariant holds of an empty portfolio.
LEMMA InitInv == Init => Inv
<1> SUFFICES ASSUME Init PROVE Inv
  OBVIOUS
<1>1. IsHold(NoHold) /\ NoHold.inst = None /\ IsTrade(NoTrade) /\ NoTrade.of = 0 /\ NoTrade.src = None
  BY DEF IsHold, NoHold, NoPrice, IsPrice, IsTrade, NoTrade
<1>2. Shaped
  BY <1>1, OffCalm DEF Init, Shaped
<1>3. Ordinal /\ OncePerSource
  BY <1>1 DEF Init, Ordinal, OncePerSource
<1>4. \A w \in Workers : Knows(work[w])
  <2> SUFFICES ASSUME NEW w \in Workers PROVE Knows(work[w])
    OBVIOUS
  <2>1. work[w] = Off
    BY DEF Init
  <2> QED
    BY <2>1, OffKnows
<1> QED
  BY <1>2, <1>3, <1>4 DEF Inv

\* Whatever happens, rows only come and go.
LEMMA StepInv == Inv /\ [Next]_vars => Inv' /\ Grows
<1> SUFFICES ASSUME Inv, [Next]_vars PROVE Inv' /\ Grows
  OBVIOUS
<1>1. ASSUME NEW w \in Workers, Good(w) PROVE Inv' /\ Grows
  <2>1. Shaped' /\ Ordinal' /\ OncePerSource' /\ Grows /\ Knows(work[w])'
    BY <1>1 DEF Good
  <2>2. ASSUME NEW v \in Workers \ {w} PROVE Knows(work[v])'
    BY <1>1, <2>1, <2>2, OthersKeep DEF Good
  <2>3. \A v \in Workers : Knows(work[v])'
    BY <2>1, <2>2
  <2> QED
    BY <2>1, <2>3 DEF Inv
<1>2. CASE Crash
  <2>1. UNCHANGED <<scene, hold, trade, nextHold, nextTrade>> /\ work' = [w \in Workers |-> Off]
    BY <1>2 DEF Crash, tables
  <2>2. Shaped'
    BY <2>1, OffCalm DEF Inv, Shaped
  <2>3. Ordinal' /\ OncePerSource' /\ Grows
    BY <2>1 DEF Inv, Shaped, Ordinal, OncePerSource, Exists, Grows
  <2>4. ASSUME NEW w \in Workers PROVE Knows(work[w])'
    <3>1. work'[w] = Off
      BY <2>1
    <3> QED
      BY <3>1, OffCalm DEF Calm, Knows, Relies
  <2> QED
    BY <2>2, <2>3, <2>4 DEF Inv
<1>3. CASE Restart \/ UNCHANGED vars
  <2>1. UNCHANGED <<scene, hold, trade, nextHold, nextTrade, work>>
    BY <1>3 DEF Restart, vars, tables
  <2>2. Shaped'
    BY <2>1 DEF Inv, Shaped
  <2>3. Ordinal' /\ OncePerSource' /\ Grows
    BY <2>1 DEF Inv, Shaped, Ordinal, OncePerSource, Exists, Grows
  <2>4. ASSUME NEW w \in Workers PROVE Knows(work[w])'
    BY <2>1, <2>2, <2>3, OthersKeep
  <2> QED
    BY <2>2, <2>3, <2>4 DEF Inv
<1> QED
  BY <1>1, <1>2, <1>3, RequestGood, StepGood DEF Next

\* The invariant holds of every reachable state: rows are well formed, every trade has
\* its holding, sources are recorded once, and what each handler remembers is true.
THEOREM Invariant == Spec => []Inv
<1>1. Inv /\ [Next]_vars => Inv'
  BY StepInv
<1> QED
  BY InitInv, <1>1, PTL DEF Spec

\* One trade per mail and one seed per instrument, whatever was retried.
THEOREM SourcesOnce == Spec => []OncePerSource
<1>1. Inv => OncePerSource
  BY DEF Inv
<1> QED
  BY Invariant, <1>1, PTL

\* A second position is opened only when the first came after the look.
THEOREM SecondPositionOvertaken == Spec => SecondOnlyIfOvertaken
<1>1. ASSUME Inv
      PROVE  \A w \in Workers : work[w].pc = "open" /\ nextHold' # nextHold /\ work'[w] # work[w] =>
               \A h \in HoldIds : hold[h].inst = work[w].inst => h >= work[w].saw
  BY <1>1 DEF Inv, Knows, Relies
<1> QED
  BY Invariant, <1>1, PTL DEF SecondOnlyIfOvertaken

\* A holding that has trades is not seeded, but for trades that came after the count.
THEOREM SeedsOnlyTheEmpty == Spec => SeedsOnlyEmpty
<1>1. ASSUME Inv
      PROVE  \A w \in Workers : work[w].pc = "record" /\ work[w].bid # NoPrice /\ nextTrade' # nextTrade
                                  /\ work'[w] # work[w] =>
               \A t \in Of(trade, work[w].h) : t >= work[w].saw
  BY <1>1 DEF Inv, Knows, Relies, Of
<1> QED
  BY Invariant, <1>1, PTL DEF SeedsOnlyEmpty

-----------------------------------------------------------------------------
(* Prices, symbols and the rate: what each step does to them.              *)

KeepsPrices == \A h \in HoldIds : hold'[h].price \in {hold[h].price, NoPrice}
KeepsSymbols == \A h \in HoldIds : hold'[h].sym = hold[h].sym \/ hold'[h].sym # "auto"
Reprices(w, h, price) == Put(h, [hold[h] EXCEPT !.price = price]) /\ UNCHANGED rate

\* Writes that leave price and symbol alone.
LEMMA PutKeeps ==
  ASSUME Shaped, NEW h, NEW row, Put(h, row),
         h \in HoldIds => row.price = hold[h].price /\ row.sym = hold[h].sym
  PROVE  KeepsPrices /\ KeepsSymbols
  BY DEF Shaped, Put, KeepsPrices, KeepsSymbols

\* Opening a position changes the price and the symbol of no other.
LEMMA OpenKeeps ==
  ASSUME Shaped, NEW row, OpenHold(row), row.price = NoPrice, row.sym # "auto"
  PROVE  KeepsPrices /\ KeepsSymbols
  BY DEF Shaped, OpenHold, KeepsPrices, KeepsSymbols

\* What leaves the positions alone leaves their prices and symbols alone.
LEMMA SameKeeps == ASSUME UNCHANGED hold PROVE KeepsPrices /\ KeepsSymbols
  BY DEF KeepsPrices, KeepsSymbols

\* A write of figures only keeps prices and symbols.
LEMMA RepriceKeeps ==
  ASSUME Shaped, NEW w, NEW h, NEW price, Reprices(w, h, price)
  PROVE  KeepsSymbols /\ UNCHANGED rate
  BY DEF Shaped, IsHold, Put, KeepsSymbols, Reprices

\* Who changes prices, who finds symbols, who sets the rate.
Effect(w) ==
  /\ UNCHANGED rate \/ SetFXRate(w) \/ SetRate(w)
  /\ KeepsSymbols \/ ResolveSymbol(w)
  /\ \/ KeepsPrices
     \/ \E h, price : Reprices(w, h, price) /\ price.by # "statement"
     \/ StatementPrice(w)

\* Among the requests, only a typed price and a typed rate change prices and rates.
LEMMA RequestEffect == ASSUME Inv, NEW w \in Workers, Request(w) PROVE Effect(w)
<1>0. Shaped
  BY DEF Inv
<1>1. ASSUME NEW inst \in Instruments, NEW form \in Forms, NEW sym \in {"", "own"}, CreateInvestment(w, inst, form, sym)
      PROVE  Effect(w)
  <2> DEFINE row == [NoHold EXCEPT !.inst = inst, !.sym = sym, !.fig = Entered(Blank, form)]
  <2>1. OpenHold(row) /\ UNCHANGED rate
    BY <1>1 DEF CreateInvestment
  <2>2. row.price = NoPrice /\ row.sym # "auto"
    BY DEF NoHold
  <2> HIDE DEF row
  <2> QED
    BY <1>0, <2>1, <2>2, OpenKeeps DEF Effect
<1>2. ASSUME NEW h \in HoldIds, DeleteInvestment(w, h) PROVE Effect(w)
  <2>1. NoHold.price = NoPrice /\ NoHold.sym # "auto"
    BY DEF NoHold
  <2>2. hold' = [hold EXCEPT ![h] = NoHold] /\ UNCHANGED rate
    BY <1>2 DEF DeleteInvestment
  <2>3. KeepsPrices /\ KeepsSymbols
    BY <1>0, <2>1, <2>2 DEF Shaped, KeepsPrices, KeepsSymbols
  <2> QED
    BY <2>2, <2>3 DEF Effect
<1>3. ASSUME NEW h \in HoldIds, NEW day \in Days \cup {Now}, SetInvestmentPrice(w, h, day) PROVE Effect(w)
  <2> DEFINE price == Price("manual", day, Typed)
  <2>1. Reprices(w, h, price)
    BY <1>3 DEF SetInvestmentPrice, Reprices
  <2>2. price.by # "statement"
    BY DEF Price
  <2> HIDE DEF price
  <2> QED
    BY <1>0, <2>1, <2>2, RepriceKeeps DEF Effect
<1>4. ASSUME NEW form \in Forms, ImportDeposit(w, form) PROVE Effect(w)
  <2> DEFINE fresh == [NoHold EXCEPT !.inst = Deposit, !.fig.cost = form.cost, !.fig.value = form.cost]
             row(h) == [hold[h] EXCEPT !.fig.cost = form.cost, !.fig.value = form.cost]
  <2>1. UNCHANGED rate /\ (OpenHold(fresh) \/ \E h \in HoldIds : Put(h, row(h)))
    BY <1>4 DEF ImportDeposit, Match
  <2>2. fresh.price = NoPrice /\ fresh.sym # "auto"
    BY DEF NoHold
  <2>3. \A h \in HoldIds : row(h).price = hold[h].price /\ row(h).sym = hold[h].sym
    BY <1>0 DEF Shaped, IsHold
  <2> HIDE DEF fresh, row
  <2> QED
    BY <1>0, <2>1, <2>2, <2>3, OpenKeeps, PutKeeps DEF Effect
<1>5. CASE UNCHANGED <<hold, rate>> \/ SetFXRate(w)
  <2>1. UNCHANGED hold
    BY <1>5 DEF SetFXRate
  <2> QED
    BY <1>5, <2>1, SameKeeps DEF Effect
<1>6. ASSUME NEW h, NEW form, NEW sym, UpdateInvestment(w, h, form, sym) PROVE UNCHANGED <<hold, rate>>
  BY <1>6 DEF UpdateInvestment, Local, tables
<1>7. ASSUME NEW h, RefreshOne(w, h) \/ RefreshAll(w) PROVE UNCHANGED <<hold, rate>>
  BY <1>7 DEF RefreshOne, RefreshAll, Refresh, Local, tables
<1>8. ASSUME NEW h, NEW day, NEW o, AddInvestmentTrade(w, h, day, o) PROVE UNCHANGED <<hold, rate>>
  BY <1>8 DEF AddInvestmentTrade
<1>9. ASSUME NEW t, NEW day, NEW o, UpdateInvestmentTrade(w, t, day, o) PROVE UNCHANGED <<hold, rate>>
  BY <1>9 DEF UpdateInvestmentTrade
<1>10. ASSUME NEW t, DeleteInvestmentTrade(w, t) PROVE UNCHANGED <<hold, rate>>
  BY <1>10 DEF DeleteInvestmentTrade
<1>11. ASSUME NEW m, TradeMail(w, m) PROVE UNCHANGED <<hold, rate>>
  BY <1>11 DEF TradeMail, LookUp, Local, tables
<1>12. ASSUME NEW inst, NEW day, Statement(w, inst, day) PROVE UNCHANGED <<hold, rate>>
  BY <1>12 DEF Statement, LookUp, Local, tables
<1>13. EnsureRate(w) => UNCHANGED <<hold, rate>>
  BY DEF EnsureRate, Local, tables
<1> QED
  BY <1>1, <1>2, <1>3, <1>4, <1>5, <1>6, <1>7, <1>8, <1>9, <1>10, <1>11, <1>12, <1>13, Zenon DEF Request

\* Among the statements, only those of Effect change prices, symbols and the rate.
LEMMA StepEffect == ASSUME Inv, NEW w \in Workers, Step(w) PROVE Effect(w)
<1> DEFINE me == work[w]
           h == me.h
<1>0. Shaped
  BY DEF Inv
<1>1. CASE UNCHANGED <<hold, rate>> \/ SetRate(w)
  <2>1. UNCHANGED hold
    BY <1>1 DEF SetRate
  <2> QED
    BY <1>1, <2>1, SameKeeps DEF Effect
<1>2. ReplayStep(w) \/ LastPrice(w) \/ CountTrades(w) \/ SnapshotCount(w) \/ Forward(w) \/ Backfill(w)
        \/ Currencies(w) \/ SetMarketRate(w) => UNCHANGED <<hold, rate>>
  BY DEF ReplayStep, LastPrice, CountTrades, SnapshotCount, Forward, Backfill, Currencies, SetMarketRate, Local, tables
<1>3. RecordTrade(w) \/ SetTradeRate(w) \/ RecomputeTouched(w) => UNCHANGED <<hold, rate>>
  BY DEF RecordTrade, SetTradeRate, RecomputeTouched, Local, tables
<1>4. CASE WriteFigures(w)
  <2> DEFINE row == [hold[h] EXCEPT !.fig = me.fig]
  <2>1. Put(h, row) /\ UNCHANGED rate
    BY <1>4 DEF WriteFigures
  <2>2. h \in HoldIds => row.price = hold[h].price /\ row.sym = hold[h].sym
    BY <1>0 DEF Shaped, IsHold
  <2> HIDE DEF row
  <2> QED
    BY <1>0, <2>1, <2>2, PutKeeps DEF Effect
<1>5. CASE Revalue(w)
  <2> DEFINE row == [hold[h] EXCEPT !.fig.value = IF hold[h].fig.units > 0 THEN me.bid.val * hold[h].fig.units ELSE @]
  <2>1. Put(h, row) /\ UNCHANGED rate
    BY <1>5 DEF Revalue
  <2>2. h \in HoldIds => row.price = hold[h].price /\ row.sym = hold[h].sym
    BY <1>0 DEF Shaped, IsHold
  <2> HIDE DEF row
  <2> QED
    BY <1>0, <2>1, <2>2, PutKeeps DEF Effect
<1>6. CASE EditWrite(w) /\ ~UNCHANGED hold
  <2> DEFINE f == me.fig
             row == [hold[h] EXCEPT !.fig = [@ EXCEPT !.units = f.units, !.cost = f.cost,
                                                     !.value = f.value, !.status = f.status]]
  <2>1. Put(h, row) /\ UNCHANGED rate
    BY <1>6 DEF EditWrite
  <2>2. h \in HoldIds => row.price = hold[h].price /\ row.sym = hold[h].sym
    BY <1>0 DEF Shaped, IsHold
  <2> HIDE DEF row
  <2> QED
    BY <1>0, <2>1, <2>2, PutKeeps DEF Effect
<1>7. EditWrite(w) /\ UNCHANGED hold => UNCHANGED <<hold, rate>>
  BY DEF EditWrite
<1>8. CASE EditSymbol(w)
  <2> DEFINE row == [hold[h] EXCEPT !.sym = me.sym, !.err = @ /\ hold[h].sym = me.sym]
  <2>1. Put(h, row) /\ UNCHANGED rate
    BY <1>8 DEF EditSymbol
  <2>2. h \in HoldIds => row.price = hold[h].price /\ row.sym = me.sym
    BY <1>0 DEF Shaped, IsHold
  <2> HIDE DEF row
  <2>3. me.sym # "auto"
    BY KnowsHead
  <2>4. KeepsPrices /\ KeepsSymbols
    BY <1>0, <2>1, <2>2, <2>3 DEF Shaped, Put, KeepsPrices, KeepsSymbols
  <2> QED
    BY <2>1, <2>4 DEF Effect
<1>9. CASE OpenForTrade(w)
  <2> DEFINE row == [NoHold EXCEPT !.inst = me.inst]
  <2>1. OpenHold(row) /\ UNCHANGED rate
    BY <1>9 DEF OpenForTrade
  <2>2. row.price = NoPrice /\ row.sym # "auto"
    BY DEF NoHold
  <2> HIDE DEF row
  <2> QED
    BY <1>0, <2>1, <2>2, OpenKeeps DEF Effect
<1>10. CASE StatementPrice(w)
  <2>1. Reprices(w, h, me.bid)
    BY <1>10 DEF StatementPrice, Reprices
  <2> QED
    BY <1>0, <1>10, <2>1, RepriceKeeps DEF Effect
<1>11. CASE ResolveSymbol(w)
  <2> DEFINE g == Min(me.todo)
             row1 == [hold[g] EXCEPT !.sym = "auto", !.err = FALSE]
             row2 == [hold[g] EXCEPT !.err = TRUE]
  <2>1. UNCHANGED rate /\ (Put(g, row1) \/ Put(g, row2) \/ UNCHANGED hold)
    BY <1>11 DEF ResolveSymbol
  <2> HIDE DEF g
  <2>2. g \in HoldIds => row1.price = hold[g].price /\ row2.price = hold[g].price
    BY <1>0 DEF Shaped, IsHold
  <2> HIDE DEF row1, row2
  <2>3. KeepsPrices
    BY <1>0, <2>1, <2>2 DEF Shaped, Put, KeepsPrices
  <2> QED
    BY <1>11, <2>1, <2>3 DEF Effect
<1>12. CASE Quote(w)
  <2> DEFINE g == Min(me.todo)
             price == Price("market", Now, Market)
             row == [hold[g] EXCEPT !.err = TRUE]
  <2>1. UNCHANGED rate /\ (Reprices(w, g, price) \/ Put(g, row))
    BY <1>12 DEF Quote, Reprices
  <2>2. price.by # "statement"
    BY DEF Price
  <2> HIDE DEF g, price
  <2>3. g \in HoldIds => row.price = hold[g].price /\ row.sym = hold[g].sym
    BY <1>0 DEF Shaped, IsHold
  <2> HIDE DEF row
  <2> QED
    BY <1>0, <2>1, <2>2, <2>3, PutKeeps, RepriceKeeps DEF Effect
<1>13. CASE Quoted(w)
  <2> DEFINE row == [hold[h] EXCEPT !.err = FALSE]
  <2>1. Put(h, row) /\ UNCHANGED rate
    BY <1>13 DEF Quoted
  <2>2. h \in HoldIds => row.price = hold[h].price /\ row.sym = hold[h].sym
    BY <1>0 DEF Shaped, IsHold
  <2> HIDE DEF row
  <2> QED
    BY <1>0, <2>1, <2>2, PutKeeps DEF Effect
<1> QED
  BY <1>1, <1>2, <1>3, <1>4, <1>5, <1>6, <1>7, <1>8, <1>9, <1>10, <1>11, <1>12, <1>13, Zenon DEF Step, Accounting

\* Nothing else changes them either.
LEMMA NextEffect ==
  ASSUME Inv, [Next]_vars
  PROVE  UNCHANGED <<hold, rate>> \/ \E w \in Workers : Effect(w)
<1>1. CASE Crash \/ Restart \/ UNCHANGED vars
  BY <1>1 DEF Crash, Restart, vars, tables
<1> QED
  BY <1>1, RequestEffect, StepEffect DEF Next

\* The user's exchange rate is overwritten only by a handler that looked before it.
THEOREM ManualRateStands == Spec => ManualRateStays
<1>1. ASSUME Inv, [Next]_vars, rate = "manual", rate' # "manual"
      PROVE  \E w \in Workers : work[w].pc = "setRate" /\ work[w].saw # "manual"
  <2>1. PICK w \in Workers : SetFXRate(w) \/ SetRate(w)
    BY <1>1, NextEffect DEF Effect
  <2>2. SetRate(w)
    BY <1>1, <2>1 DEF SetFXRate
  <2> QED
    BY <1>1, <2>2 DEF SetRate, Inv, Knows, Relies
<1> QED
  BY Invariant, <1>1, PTL DEF Spec, ManualRateStays

\* A symbol the user set is replaced by a search only if the refresh loaded another.
THEOREM UserSymbolStands == Spec => UserSymbolStays
<1>1. ASSUME Inv, [Next]_vars, NEW h \in HoldIds, hold[h].sym \in {"own", "none"}, hold'[h].sym = "auto"
      PROVE  \E w \in Workers : h \in DOMAIN work[w].snap /\ work[w].snap[h].sym # hold[h].sym
  <2>1. PICK w \in Workers : ResolveSymbol(w)
    BY <1>1, NextEffect DEF Effect, KeepsSymbols
  <2> DEFINE me == work[w]
             g == Min(me.todo)
             row1 == [hold[g] EXCEPT !.sym = "auto", !.err = FALSE]
             row2 == [hold[g] EXCEPT !.err = TRUE]
  <2>2. Put(g, row1) \/ Put(g, row2) \/ UNCHANGED hold
    BY <2>1 DEF ResolveSymbol
  <2>3. me.todo # {} /\ \A u \in me.todo : u \in HoldIds /\ u \in DOMAIN me.snap /\ me.snap[u].sym = ""
    BY <1>1, <2>1 DEF Inv, Knows, Relies, ResolveSymbol
  <2>4. g \in me.todo
    <3>1. me.todo \in SUBSET Nat
      BY <2>3, IdsAreNat
    <3> QED
      BY <2>3, <3>1, LeastNatural
  <2> HIDE DEF g
  <2>5. g \in HoldIds => row2.sym = hold[g].sym
    BY <1>1 DEF Inv, Shaped, IsHold
  <2> HIDE DEF row1, row2
  <2>6. h = g
    BY <1>1, <2>2, <2>3, <2>4, <2>5 DEF Put, Inv, Shaped
  <2> QED
    BY <1>1, <2>3, <2>4, <2>6
<1>2. ASSUME Inv, [Next]_vars
      PROVE  \A h \in HoldIds :
               hold[h].sym \in {"own", "none"} /\ hold'[h].sym = "auto" =>
                 \E w \in Workers : h \in DOMAIN work[w].snap /\ work[w].snap[h].sym # hold[h].sym
  BY <1>1, <1>2
<1> QED
  BY Invariant, <1>2, PTL DEF Spec, UserSymbolStays

\* An older statement replaces a newer price only if that came after its look.
THEOREM StatementsMoveForward == Spec => StatementMovesForward
<1>1. ASSUME Inv, [Next]_vars, NEW h \in HoldIds,
             hold'[h].price.by = "statement", hold'[h].price.at < hold[h].price.at
      PROVE  \E w \in Workers : work[w].pc = "price" /\ work[w].saw # hold[h].price
  <2>0. IsPrice(hold[h].price) /\ NoPrice.by # "statement"
    BY <1>1, HoldingsAssumption DEF Inv, Shaped, IsHold, NoPrice
  <2>1. hold'[h].price # hold[h].price /\ hold'[h].price # NoPrice
    BY <1>1, <2>0 DEF IsPrice
  <2>2. PICK w \in Workers : Effect(w)
    BY <1>1, <2>1, NextEffect
  <2>3. ~KeepsPrices
    BY <2>1 DEF KeepsPrices
  <2>4. ASSUME NEW g, NEW price, Reprices(w, g, price)
        PROVE  g = h /\ hold'[h].price = price
    BY <1>1, <2>1, <2>4 DEF Reprices, Put, Inv, Shaped, IsHold
  <2>5. StatementPrice(w)
    BY <1>1, <2>2, <2>3, <2>4 DEF Effect
  <2>6. work[w].pc = "price" /\ Reprices(w, work[w].h, work[w].bid)
    BY <2>5 DEF StatementPrice, Reprices
  <2>7. work[w].h = h /\ hold'[h].price = work[w].bid
    BY <2>4, <2>6
  <2>8. IsPrice(work[w].saw) /\ work[w].saw.at <= work[w].bid.at /\ IsPrice(work[w].bid)
    BY <1>1, <2>6, <2>7, KnowsHead DEF Inv, Knows, Relies, IsLocal
  <2>9. work[w].saw # hold[h].price
    BY <1>1, <2>0, <2>7, <2>8 DEF IsPrice
  <2> QED
    BY <2>6, <2>9
<1>2. ASSUME Inv, [Next]_vars
      PROVE  \A h \in HoldIds :
               hold'[h].price.by = "statement" /\ hold'[h].price.at < hold[h].price.at =>
                 \E w \in Workers : work[w].pc = "price" /\ work[w].saw # hold[h].price
  BY <1>1, <1>2
<1> QED
  BY Invariant, <1>2, PTL DEF Spec, StatementMovesForward

-----------------------------------------------------------------------------
(* Who writes trades.                                                      *)

WritesTrades(w) ==
  \/ \E h \in HoldIds : DeleteInvestment(w, h)
  \/ \E h \in HoldIds, day \in Days, o \in scene.orders : AddInvestmentTrade(w, h, day, o)
  \/ \E t \in TradeIds, day \in Days, o \in scene.orders : UpdateInvestmentTrade(w, t, day, o)
  \/ \E t \in TradeIds : DeleteInvestmentTrade(w, t)
  \/ RecordTrade(w) \/ SetTradeRate(w)

\* Who writes trades, among requests and statements.
LEMMA RequestTrades == ASSUME NEW w, Request(w) PROVE UNCHANGED trade \/ WritesTrades(w)
<1>1. ASSUME NEW inst, NEW form, NEW sym, CreateInvestment(w, inst, form, sym) PROVE UNCHANGED trade
  BY <1>1 DEF CreateInvestment
<1>2. ASSUME NEW h, NEW form, NEW sym, UpdateInvestment(w, h, form, sym) PROVE UNCHANGED trade
  BY <1>2 DEF UpdateInvestment, Local, tables
<1>3. ASSUME NEW h, RefreshOne(w, h) \/ RefreshAll(w) PROVE UNCHANGED trade
  BY <1>3 DEF RefreshOne, RefreshAll, Refresh, Local, tables
<1>4. ASSUME NEW h, NEW day, SetInvestmentPrice(w, h, day) PROVE UNCHANGED trade
  BY <1>4 DEF SetInvestmentPrice
<1>5. ASSUME NEW m, TradeMail(w, m) PROVE UNCHANGED trade
  BY <1>5 DEF TradeMail, LookUp, Local, tables
<1>6. ASSUME NEW inst, NEW day, Statement(w, inst, day) PROVE UNCHANGED trade
  BY <1>6 DEF Statement, LookUp, Local, tables
<1>7. ASSUME NEW form, ImportDeposit(w, form) PROVE UNCHANGED trade
  BY <1>7 DEF ImportDeposit
<1>8. SetFXRate(w) \/ EnsureRate(w) => UNCHANGED trade
  BY DEF SetFXRate, EnsureRate, Local, tables
<1> QED
  BY <1>1, <1>2, <1>3, <1>4, <1>5, <1>6, <1>7, <1>8, Zenon DEF Request, WritesTrades

\* Every step of a worker leaves the trades alone or is one of the writes of trades.
LEMMA StepTrades == ASSUME NEW w, Step(w) PROVE UNCHANGED trade \/ WritesTrades(w)
<1>1. Accounting(w) => UNCHANGED trade
  BY DEF Accounting, ReplayStep, LastPrice, WriteFigures, CountTrades, Revalue, Local, tables
<1>2. EditWrite(w) \/ EditSymbol(w) \/ OpenForTrade(w) \/ SnapshotCount(w) \/ Forward(w) \/ StatementPrice(w)
        \/ SetRate(w) => UNCHANGED trade
  BY DEF EditWrite, EditSymbol, OpenForTrade, SnapshotCount, Forward, StatementPrice, SetRate, Local, tables
<1>3. ResolveSymbol(w) \/ Backfill(w) \/ RecomputeTouched(w) \/ Quote(w) \/ Quoted(w) \/ Currencies(w)
        \/ SetMarketRate(w) => UNCHANGED trade
  BY DEF ResolveSymbol, Backfill, RecomputeTouched, Quote, Quoted, Currencies, SetMarketRate, Local, tables
<1> QED
  BY <1>1, <1>2, <1>3, Zenon DEF Step, WritesTrades

\* The same of the next-state relation.
LEMMA NextTrades == ASSUME [Next]_vars PROVE UNCHANGED trade \/ \E w \in Workers : WritesTrades(w)
<1>1. CASE Crash \/ Restart \/ UNCHANGED vars
  BY <1>1 DEF Crash, Restart, vars, tables
<1> QED
  BY <1>1, RequestTrades, StepTrades DEF Next

\* A trade that stays keeps the holding it belongs to.
LEMMA UntouchedRate ==
  ASSUME Inv, Inv', Grows, NEW t \in TradeIds, trade'[t] = trade[t], WrongRate(t)'
  PROVE  WrongRate(t)
<1> DEFINE h == trade[t].of
<1>1. h # 0 /\ hold'[h].inst \notin Rupee /\ trade[t].rate # None /\ trade[t].rate # DayRate[trade[t].day]
  BY DEF WrongRate
<1>2. h \in HoldIds /\ hold[h].inst # None /\ hold'[h].inst # None
  BY <1>1 DEF Inv, Ordinal, Exists
<1>3. h < nextHold /\ h \in Nat /\ nextHold \in Nat
  BY <1>2, IdsAreNat DEF Inv, Ordinal, Shaped
<1>4. hold'[h].inst = hold[h].inst
  <2>1. h # nextHold
    BY <1>3
  <2> HIDE DEF h
  <2> QED
    BY <1>2, <2>1 DEF Grows
<1> QED
  BY <1>1, <1>4 DEF WrongRate

\* A trade that is entered or moved waits for a rate, or is in rupees.
LEMMA FreshIsRight ==
  ASSUME NEW t, trade'[t].of # 0 => trade'[t].rate = FreshRate(hold'[trade'[t].of].inst)
  PROVE  ~WrongRate(t)'
  BY DEF WrongRate, FreshRate

\* Each trade has the rate of its own date, but for those moved under a refresh.
THEOREM TradeRatesOfTheirDay == Spec => TradeRateOfItsDay
<1> DEFINE Moved(t) == \E w \in Workers : t \in DOMAIN work[w].due /\ work[w].due[t].day # trade[t].day
<1>1. ASSUME Inv, Inv', Grows, [Next]_vars, NEW t \in TradeIds, WrongRate(t)', ~WrongRate(t)
      PROVE  Moved(t)
  <2>1. trade'[t] # trade[t]
    BY <1>1, UntouchedRate
  <2>2. PICK w \in Workers : WritesTrades(w)
    BY <1>1, <2>1, NextTrades
  <2>3. NoTrade.of = 0
    BY DEF NoTrade
  <2>4. trade'[t].of # 0
    BY <1>1 DEF WrongRate
  <2>5. DOMAIN trade = TradeIds /\ IsTrade(trade[t])
    BY <1>1 DEF Inv, Shaped
  <2>6. ASSUME NEW h \in HoldIds, DeleteInvestment(w, h) PROVE FALSE
    BY <2>1, <2>3, <2>4, <2>6 DEF DeleteInvestment
  <2>7. ASSUME NEW u \in TradeIds, DeleteInvestmentTrade(w, u) PROVE FALSE
    BY <2>1, <2>3, <2>4, <2>5, <2>7 DEF DeleteInvestmentTrade
  <2>8. ASSUME NEW h \in HoldIds, NEW day \in Days, NEW o \in scene.orders, AddInvestmentTrade(w, h, day, o) PROVE FALSE
    <3>1. hold' = hold /\ trade' = [trade EXCEPT ![nextTrade] = Ordered(h, day, o)]
      BY <2>8 DEF AddInvestmentTrade, InsertTrade
    <3>2. Ordered(h, day, o).of = h /\ Ordered(h, day, o).rate = FreshRate(hold[h].inst)
      BY DEF Ordered
    <3>3. trade'[t] = Ordered(h, day, o)
      BY <2>1, <2>5, <3>1
    <3> QED
      BY <1>1, <3>1, <3>2, <3>3, FreshIsRight
  <2>9. ASSUME NEW u \in TradeIds, NEW day \in Days, NEW o \in scene.orders, UpdateInvestmentTrade(w, u, day, o) PROVE FALSE
    <3> DEFINE old == trade[u]
               fresh == Ordered(old.of, day, o)
               row == [fresh EXCEPT !.src = old.src, !.rate = IF day = old.day THEN old.rate ELSE @]
    <3>1. hold' = hold /\ trade' = [trade EXCEPT ![u] = row]
      BY <2>9 DEF UpdateInvestmentTrade
    <3>2. /\ row.of = old.of /\ row.day = day
          /\ row.rate = IF day = old.day THEN old.rate ELSE FreshRate(hold[old.of].inst)
      BY DEF Ordered
    <3> HIDE DEF row
    <3>3. t = u /\ trade'[t] = row
      BY <2>1, <2>5, <3>1
    <3>4. CASE day = old.day
      BY <1>1, <3>1, <3>2, <3>3, <3>4 DEF WrongRate
    <3>5. CASE day # old.day
      BY <1>1, <3>1, <3>2, <3>3, <3>5, FreshIsRight
    <3> QED
      BY <3>4, <3>5
  <2>10. CASE RecordTrade(w)
    <3> DEFINE me == work[w]
               row == [me.row EXCEPT !.of = me.h]
    <3>1. hold' = hold /\ Exists(me.h) /\ trade' = [trade EXCEPT ![nextTrade] = row] /\ me.pc = "record"
      BY <2>1, <2>10 DEF RecordTrade, InsertTrade
    <3>2. me.row.rate = FreshRate(me.inst) /\ hold[me.h].inst = me.inst
      BY <1>1, <3>1 DEF Inv, Knows, Relies, Exists
    <3>3. row.of = me.h /\ row.rate = me.row.rate
      BY <1>1, KnowsHead DEF IsLocal, IsTrade
    <3> HIDE DEF row
    <3>4. trade'[t] = row
      BY <2>1, <2>5, <3>1
    <3> QED
      BY <1>1, <3>1, <3>2, <3>3, <3>4, FreshIsRight
  <2>11. CASE SetTradeRate(w)
    <3> DEFINE me == work[w]
               u == Min(DOMAIN me.due)
               old == me.due[u]
               row == IF trade[u].of = 0 \/ DayRate[old.day] = 0 THEN trade[u]
                      ELSE [trade[u] EXCEPT !.rate = DayRate[old.day]]
    <3>1. hold' = hold /\ trade' = [trade EXCEPT ![u] = row] /\ me.pc = "tradeRate"
      BY <2>11 DEF SetTradeRate
    <3>2. DOMAIN me.due # {} /\ DOMAIN me.due \in SUBSET Nat
      BY <1>1, <3>1, IdsAreNat DEF Inv, Knows, Relies
    <3>3. u \in DOMAIN me.due
      BY <3>2, LeastNatural
    <3> HIDE DEF u
    <3>4. t = u /\ trade'[t] = row
      <4> HIDE DEF row
      <4> QED
        BY <2>1, <2>5, <3>1
    <3>5. row.day = trade[t].day /\ row.rate = DayRate[old.day]
      BY <2>1, <2>5, <3>4 DEF IsTrade
    <3> HIDE DEF row
    <3>6. old.day # trade[t].day
      BY <1>1, <3>4, <3>5 DEF WrongRate
    <3> QED
      BY <3>3, <3>4, <3>6
  <2> HIDE DEF Moved
  <2> QED
    BY <2>2, <2>6, <2>7, <2>8, <2>9, <2>10, <2>11, Zenon DEF WritesTrades
<1>2. ASSUME Inv, Inv', Grows, [Next]_vars
      PROVE  \A t \in TradeIds : WrongRate(t)' /\ ~WrongRate(t) =>
               \E w \in Workers : t \in DOMAIN work[w].due /\ work[w].due[t].day # trade[t].day
  BY <1>1, <1>2
<1>3. Inv /\ [Next]_vars => Inv' /\ Grows
  BY StepInv
<1> QED
  BY Invariant, <1>2, <1>3, PTL DEF Spec, TradeRateOfItsDay

-----------------------------------------------------------------------------
(* The figures of a position are those its trades and its price make, but  *)
(* for a crash or a write on overtaken reads.                              *)
(*                                                                         *)
(* A step either leaves what the figures of h are made of alone, and keeps *)
(* whatever debt its worker has to h; or it leaves its worker owing h a    *)
(* recompute; or h has nothing to be derived from; or it writes figures,   *)
(* which are the derived ones unless the write is stale.                   *)

Loses(h) == Lost(trade', hold', work', h) /\ ~Lost(trade, hold, work, h)
Excused(w) == Stale(w) /\ work'[w] # work[w]
Cares(w) == \A h \in HoldIds : Loses(h) => Excused(w)

\* What the figures of h are made of stays as it is.
SameAt(h) == /\ hold'[h].inst = hold[h].inst /\ hold'[h].price = hold[h].price /\ hold'[h].fig = hold[h].fig
             /\ Rows(trade', h) = Rows(trade, h)

\* A debt is kept or paid.
LEMMA KeptDebt ==
  ASSUME NEW w \in Workers, Good(w), NEW h \in HoldIds, SameAt(h), Owes(work[w], h) => Owes(work'[w], h)
  PROVE  ~Loses(h)
<1> SUFFICES ASSUME Lost(trade', hold', work', h) PROVE Lost(trade, hold, work, h)
  BY DEF Loses
<1>1. /\ hold'[h].inst \notin {None, Deposit} /\ Of(trade', h) # {}
      /\ \A v \in Workers : ~Owes(work'[v], h)
      /\ hold'[h].fig # Derived(trade', hold'[h], h)
  BY DEF Lost
<1>2. Of(trade', h) = DOMAIN Rows(trade', h) /\ Of(trade, h) = DOMAIN Rows(trade, h)
  BY DEF Rows
<1>3. Derived(trade', hold'[h], h) = Derived(trade, hold[h], h)
  BY DEF Derived, SameAt
<1>4. \A v \in Workers : ~Owes(work[v], h)
  BY <1>1 DEF Good
<1> QED
  BY <1>1, <1>2, <1>3, <1>4 DEF Lost, SameAt

\* Nothing is lost that somebody owes, nor where there is nothing to derive from.
LEMMA Indebted == ASSUME NEW w \in Workers, NEW h, Owes(work'[w], h) PROVE ~Loses(h)
  BY DEF Loses, Lost

\* A holding without trades has no figures to derive, whatever they are.
LEMMA NothingToDerive ==
  ASSUME NEW h, Of(trade', h) = {} \/ hold'[h].inst \in {None, Deposit} PROVE ~Loses(h)
  BY DEF Loses, Lost

\* The trades of h are the same rows.
LEMMA SameRows ==
  ASSUME NEW h, \A t \in TradeIds : trade'[t] = trade[t] \/ (trade[t].of # h /\ trade'[t].of # h)
  PROVE  Rows(trade', h) = Rows(trade, h)
  BY DEF Rows, Of

Owing == Replaying \cup {"priced", "tradeRate", "touched"}

\* Outside the recompute, the price and the backfill nobody owes anything.
LEMMA NoDebt == ASSUME Inv, NEW w \in Workers, work[w].pc \notin Owing, NEW h PROVE ~Owes(work[w], h)
  BY KnowsHead DEF Owing, Replaying, Owes

\* A step that touches neither trades nor figures, and leaves no debt.
LEMMA Harmless ==
  ASSUME Inv, NEW w \in Workers, Good(w), work[w].pc \notin Owing, UNCHANGED trade,
         \A h \in HoldIds : /\ hold'[h].inst = hold[h].inst /\ hold'[h].price = hold[h].price
                            /\ hold'[h].fig = hold[h].fig
  PROVE  Cares(w)
<1> SUFFICES ASSUME NEW h \in HoldIds PROVE ~Loses(h)
  BY DEF Cares
<1>1. SameAt(h)
  BY SameRows DEF SameAt
<1> QED
  BY <1>1, NoDebt, KeptDebt

\* A step that writes one row of investments without a debt; h0 is looked at apart.
LEMMA HarmlessPut ==
  ASSUME Inv, NEW w \in Workers, Good(w), work[w].pc \notin Owing, UNCHANGED trade,
         NEW h0, NEW row, Put(h0, row),
         h0 \in HoldIds => (Loses(h0) => Excused(w))
  PROVE  Cares(w)
<1> SUFFICES ASSUME NEW h \in HoldIds, h # h0 PROVE ~Loses(h)
  BY DEF Cares
<1>1. SameAt(h)
  BY SameRows DEF SameAt, Put, Inv, Shaped
<1> QED
  BY <1>1, NoDebt, KeptDebt

\* No trade belongs to a position that is not there yet.
LEMMA FreshIsBare == ASSUME Inv, UNCHANGED trade PROVE Of(trade', nextHold) = {}
<1>1. ASSUME NEW t \in TradeIds, trade[t].of = nextHold PROVE FALSE
  <2>1. nextHold # 0 /\ nextHold \in Nat
    BY DEF Inv, Shaped
  <2>2. Exists(nextHold)
    BY <1>1, <2>1 DEF Inv, Ordinal
  <2> QED
    BY <2>1, <2>2 DEF Inv, Ordinal, Exists
<1> QED
  BY <1>1 DEF Of

\* A new position has no trades to derive from.
LEMMA OpenCares ==
  ASSUME Inv, NEW w \in Workers, Good(w), work[w].pc \notin Owing, UNCHANGED trade, NEW row, OpenHold(row)
  PROVE  Cares(w)
<1> SUFFICES ASSUME NEW h \in HoldIds PROVE ~Loses(h)
  BY DEF Cares
<1>1. CASE h = nextHold
  BY <1>1, FreshIsBare, NothingToDerive
<1>2. CASE h # nextHold
  <2>1. SameAt(h)
    BY <1>2, SameRows DEF SameAt, OpenHold, Inv, Shaped
  <2> QED
    BY <2>1, NoDebt, KeptDebt
<1> QED
  BY <1>1, <1>2

\* A step that writes trades of h0, and owes h0 a recompute.
LEMMA TradeCares ==
  ASSUME Inv, NEW w \in Workers, Good(w), work[w].pc \notin Owing, UNCHANGED hold,
         NEW h0, Owes(work'[w], h0),
         \A t \in TradeIds : trade'[t] = trade[t] \/ (trade[t].of \in {0, h0} /\ trade'[t].of \in {0, h0})
  PROVE  Cares(w)
<1> SUFFICES ASSUME NEW h \in HoldIds PROVE ~Loses(h)
  BY DEF Cares
<1>1. CASE h = h0
  BY <1>1, Indebted
<1>2. CASE h # h0
  <2>1. h # 0
    BY IdsAreNat
  <2>2. \A t \in TradeIds : trade'[t] = trade[t] \/ (trade[t].of # h /\ trade'[t].of # h)
    BY <1>2, <2>1 DEF Inv, Shaped
  <2>3. SameAt(h)
    BY <2>2, SameRows DEF SameAt
  <2> QED
    BY <2>3, NoDebt, KeptDebt
<1> QED
  BY <1>1, <1>2

\* Whatever follows a recompute leaves its place, and keeps the holdings still touched.
LEMMA ResumeMoves ==
  ASSUME NEW me, IsLocal(me), me.then \in Thens
  PROVE  /\ Resume(me).pc \notin {"edit", "revalue", "figures"}
         /\ \A h \in me.todo : me.then = "touched" => Owes(Resume(me), h)
<1> DEFINE done == [me EXCEPT !.then = "idle", !.fig = Blank, !.saw = None]
           home == [done EXCEPT !.h = 0]
<1>1. CASE me.then = "touched"
  <2>1. Resume(me) = ToTouched(home)
    BY <1>1 DEF Resume
  <2>2. IsLocal(home) /\ home.todo = me.todo
    BY DEF IsLocal
  <2> HIDE DEF home
  <2>3. CASE me.todo = {}
    <3>1. ToTouched(home) = ToPrices(home)
      BY <2>2, <2>3 DEF ToTouched
    <3>2. ToPrices(home).pc \in {"currencies", "quote"}
      BY <2>2 DEF ToPrices, ToRates, IsLocal
    <3> QED
      BY <2>1, <2>3, <3>1, <3>2
  <2>4. CASE me.todo # {}
    <3>1. ToTouched(home).pc = "touched" /\ ToTouched(home).todo = me.todo
      BY <2>2, <2>4 DEF ToTouched, IsLocal
    <3> QED
      BY <2>1, <3>1 DEF Owes
  <2> QED
    BY <2>3, <2>4
<1>2. CASE me.then # "touched" /\ Resume(me) = Off
  BY <1>2 DEF Off
<1>3. CASE me.then # "touched" /\ Resume(me) # Off
  <2>1. Resume(me) = [done EXCEPT !.pc = me.then] /\ me.then # "idle"
    BY <1>3 DEF Resume
  <2> QED
    BY <1>3, <2>1 DEF IsLocal, Thens, Plain
<1> QED
  BY <1>1, <1>2, <1>3

\* Figures that are not stale are the derived ones.
LEMMA WriteFiguresCares == ASSUME Inv, NEW w \in Workers, WriteFigures(w) PROVE Cares(w)
<1> DEFINE me == work[w]
           row == [hold[me.h] EXCEPT !.fig = me.fig]
<1>1. /\ me.pc = "figures" /\ Put(me.h, row) /\ Set(w, Resume(me)) /\ UNCHANGED trade
      /\ Good(w) /\ IsLocal(me) /\ me.then \in Thens
  BY WriteFiguresGood, KnowsHead DEF WriteFigures
<1>2. work'[w] = Resume(me)
  BY <1>1 DEF Set, Inv, Shaped
<1>3. ~Excused(w) => me.fig = Derived(trade, hold[me.h], me.h)
  <2>1. work'[w] # work[w]
    BY <1>1, <1>2, ResumeMoves
  <2> QED
    BY <1>1, <2>1 DEF Excused, Stale
<1> SUFFICES ASSUME NEW h \in HoldIds, ~Excused(w) PROVE ~Loses(h)
  BY DEF Cares
<1>4. CASE h = me.h /\ hold[h].inst # None
  <2>1. hold'[h] = row /\ row.fig = me.fig /\ row.price = hold[h].price
    BY <1>1, <1>4 DEF Put, Inv, Shaped, IsHold
  <2>2. Rows(trade', h) = Rows(trade, h)
    BY <1>1
  <2>3. hold'[h].fig = Derived(trade', hold'[h], h)
    <3> HIDE DEF row
    <3> QED
      BY <1>3, <1>4, <2>1, <2>2 DEF Derived
  <2> QED
    BY <2>3 DEF Loses, Lost
<1>5. CASE h # me.h \/ hold[h].inst = None
  <2>1. SameAt(h)
    BY <1>1, <1>5, SameRows DEF SameAt, Put, Inv, Shaped
  <2>2. CASE hold[h].inst = None
    BY <2>1, <2>2, NothingToDerive DEF SameAt
  <2>3. CASE h # me.h
    <3>1. Owes(me, h) => h \in me.todo /\ me.then = "touched"
      BY <1>1, <2>3 DEF Owes
    <3>2. Owes(me, h) => Owes(work'[w], h)
      BY <1>1, <1>2, <3>1, ResumeMoves
    <3> QED
      BY <1>1, <2>1, <3>2, KeptDebt
  <2> QED
    BY <1>5, <2>2, <2>3
<1> QED
  BY <1>4, <1>5

\* The debt lasts from the replay to the write.
LEMMA ReplayCares ==
  ASSUME Inv, NEW w \in Workers, ReplayStep(w) \/ LastPrice(w) PROVE Cares(w)
<1> DEFINE me == work[w]
<1> SUFFICES ASSUME NEW h \in HoldIds PROVE ~Loses(h)
  BY DEF Cares
<1>1. UNCHANGED <<hold, trade>> /\ Good(w)
  BY ReplayGood, LastPriceGood DEF ReplayStep, LastPrice, Local, tables
<1>2. /\ work'[w].h = me.h /\ work'[w].todo = me.todo /\ work'[w].then = me.then
      /\ me.pc \in Replaying /\ work'[w].pc \in {"lastPrice", "figures"}
  <2>1. ASSUME NEW x, NEW y, Set(w, [me EXCEPT !.pc = x, !.fig = y])
        PROVE  /\ work'[w].h = me.h /\ work'[w].todo = me.todo /\ work'[w].then = me.then
               /\ work'[w].pc = x
    BY <2>1, KnowsHead DEF Set, Inv, Shaped, IsLocal
  <2>2. CASE ReplayStep(w)
    <3> DEFINE f == Figures(ReplayAll(Rows(trade, me.h)))
    <3>1. Set(w, [me EXCEPT !.pc = "lastPrice", !.fig = f]) /\ me.pc = "replay"
      BY <2>2 DEF ReplayStep, Local
    <3> HIDE DEF f
    <3> QED
      BY <2>1, <3>1 DEF Replaying
  <2>3. CASE LastPrice(w)
    <3> DEFINE f == Valued(me.fig, hold[me.h].price)
    <3>1. Set(w, [me EXCEPT !.pc = "figures", !.fig = f]) /\ me.pc = "lastPrice"
      BY <2>3 DEF LastPrice, Local
    <3> HIDE DEF f
    <3> QED
      BY <2>1, <3>1 DEF Replaying
  <2> QED
    BY <2>2, <2>3
<1>3. SameAt(h)
  BY <1>1, SameRows DEF SameAt
<1>4. Owes(me, h) => Owes(work'[w], h)
  BY <1>2 DEF Owes, Replaying
<1> QED
  BY <1>1, <1>3, <1>4, KeptDebt

\* A price without trades owes nothing.
LEMMA CountTradesCares == ASSUME Inv, NEW w \in Workers, CountTrades(w) PROVE Cares(w)
<1> DEFINE me == work[w]
<1> SUFFICES ASSUME NEW h \in HoldIds PROVE ~Loses(h)
  BY DEF Cares
<1>1. UNCHANGED <<hold, trade>> /\ Good(w) /\ me.pc = "priced"
  BY CountTradesGood DEF CountTrades, Local, tables
<1>2. work'[w].h = me.h /\ work'[w].pc = IF Backed(me.h) THEN "replay" ELSE "revalue"
  BY KnowsHead DEF CountTrades, Local, Set, Inv, Shaped, IsLocal
<1>3. SameAt(h)
  BY <1>1, SameRows DEF SameAt
<1>4. Owes(me, h) => h = me.h
  BY <1>1, KnowsHead DEF Owes, Replaying
<1>5. CASE Owes(me, h) /\ Backed(h)
  BY <1>2, <1>4, <1>5, Indebted DEF Owes
<1>6. CASE Owes(me, h) /\ ~Backed(h)
  BY <1>1, <1>6, IdsAreNat, NothingToDerive DEF Backed, Of
<1>7. CASE ~Owes(me, h)
  BY <1>1, <1>3, <1>7, KeptDebt
<1> QED
  BY <1>5, <1>6, <1>7

\* A revaluation meets trades only if they came after the count.
LEMMA RevalueCares == ASSUME Inv, NEW w \in Workers, Revalue(w) PROVE Cares(w)
<1> DEFINE me == work[w]
           h == me.h
           row == [hold[h] EXCEPT !.fig.value = IF hold[h].fig.units > 0 THEN me.bid.val * hold[h].fig.units ELSE @]
<1>1. Put(h, row) /\ Set(w, Resume(me)) /\ UNCHANGED trade /\ Good(w) /\ me.pc = "revalue"
  BY RevalueGood DEF Revalue
<1> HIDE DEF row
<1>2. me.saw = "none"
  BY <1>1 DEF Inv, Knows, Relies
<1>3. work'[w] # work[w]
  <2>1. work'[w] = Resume(me)
    BY <1>1 DEF Set, Inv, Shaped
  <2> QED
    BY <1>1, <2>1, KnowsHead, ResumeMoves
<1>4. ASSUME h \in HoldIds, Loses(h) PROVE Excused(w)
  <2>1. CASE Backed(h)
    BY <1>1, <1>2, <1>3, <2>1 DEF Excused, Stale, Count
  <2>2. CASE ~Backed(h)
    BY <1>1, <1>4, <2>2, IdsAreNat, NothingToDerive DEF Backed, Of
  <2> QED
    BY <2>1, <2>2
<1>5. me.pc \notin Owing
  BY <1>1 DEF Owing, Replaying
<1> QED
  BY <1>1, <1>4, <1>5, HarmlessPut

\* The user's figures meet trades only if they came after the count.
LEMMA EditWriteCares == ASSUME Inv, NEW w \in Workers, EditWrite(w) PROVE Cares(w)
<1> DEFINE me == work[w]
           h == me.h
           f == me.fig
           row == [hold[h] EXCEPT !.fig = [@ EXCEPT !.units = f.units, !.cost = f.cost,
                                                    !.value = f.value, !.status = f.status]]
<1>1. UNCHANGED trade /\ Good(w) /\ me.pc = "edit"
  BY EditWriteGood DEF EditWrite
<1>2. me.pc \notin Owing
  BY <1>1 DEF Owing, Replaying
<1>3. CASE me.saw = "trades"
  <2>1. UNCHANGED hold
    BY <1>3 DEF EditWrite
  <2> QED
    BY <1>1, <1>2, <2>1, Harmless
<1>4. CASE me.saw # "trades"
  <2>1. Put(h, row) /\ Set(w, Resume(me))
    BY <1>4 DEF EditWrite
  <2> HIDE DEF row
  <2>2. work'[w] # work[w]
    <3>1. work'[w] = Resume(me)
      BY <2>1 DEF Set, Inv, Shaped
    <3> QED
      BY <1>1, <3>1, KnowsHead, ResumeMoves
  <2>3. ASSUME h \in HoldIds, Loses(h) PROVE Excused(w)
    <3>1. CASE Backed(h)
      BY <1>1, <1>4, <2>2, <3>1 DEF Excused, Stale, Count
    <3>2. CASE ~Backed(h)
      BY <1>1, <2>3, <3>2, IdsAreNat, NothingToDerive DEF Backed, Of
    <3> QED
      BY <3>1, <3>2
  <2> QED
    BY <1>1, <1>2, <2>1, <2>3, HarmlessPut
<1> QED
  BY <1>3, <1>4

\* Statements that touch no position.
LEMMA QuietStepCares ==
  ASSUME Inv, NEW w \in Workers,
         SnapshotCount(w) \/ Forward(w) \/ SetRate(w) \/ Backfill(w) \/ Currencies(w) \/ SetMarketRate(w)
  PROVE  Cares(w)
<1>1. Step(w)
  BY DEF Step
<1>2. UNCHANGED hold /\ UNCHANGED trade
  BY DEF SnapshotCount, Forward, SetRate, Backfill, Currencies, SetMarketRate, Local, tables
<1>3. work[w].pc \notin Owing
  BY DEF SnapshotCount, Forward, SetRate, Backfill, Currencies, SetMarketRate, Owing, Replaying
<1> QED
  BY <1>1, <1>2, <1>3, StepGood, Harmless

\* Storing a quote symbol leaves every figure that follows from the trades as it was.
LEMMA SymbolStepCares ==
  ASSUME Inv, NEW w \in Workers, EditSymbol(w) \/ ResolveSymbol(w) \/ Quoted(w) PROVE Cares(w)
<1>0. Step(w)
  BY DEF Step
<1>1. UNCHANGED trade
  BY DEF EditSymbol, ResolveSymbol, Quoted
<1>2. work[w].pc \notin Owing
  BY DEF EditSymbol, ResolveSymbol, Quoted, Owing, Replaying
<1>3. ASSUME NEW h, NEW row, Put(h, row),
             h \in HoldIds => row.inst = hold[h].inst /\ row.price = hold[h].price /\ row.fig = hold[h].fig
      PROVE  \A g \in HoldIds : /\ hold'[g].inst = hold[g].inst /\ hold'[g].price = hold[g].price
                                /\ hold'[g].fig = hold[g].fig
  BY <1>3 DEF Put, Inv, Shaped
<1> DEFINE Agree == \A g \in HoldIds : /\ hold'[g].inst = hold[g].inst /\ hold'[g].price = hold[g].price
                                       /\ hold'[g].fig = hold[g].fig
<1>4. ASSUME NEW h, NEW row, Put(h, row),
             \E sym, err : row = [hold[h] EXCEPT !.sym = sym, !.err = err]
      PROVE  Agree
  <2>1. h \in HoldIds => row.inst = hold[h].inst /\ row.price = hold[h].price /\ row.fig = hold[h].fig
    BY <1>4 DEF Inv, Shaped, IsHold
  <2> QED
    BY <1>3, <1>4, <2>1
<1>5. ASSUME NEW h, NEW row, Put(h, row), \E err : row = [hold[h] EXCEPT !.err = err]
      PROVE  Agree
  <2>1. h \in HoldIds => row.inst = hold[h].inst /\ row.price = hold[h].price /\ row.fig = hold[h].fig
    BY <1>5 DEF Inv, Shaped, IsHold
  <2> QED
    BY <1>3, <1>5, <2>1
<1>6. CASE EditSymbol(w)
  <2> DEFINE h == work[w].h
             err == hold[h].err /\ hold[h].sym = work[w].sym
             row == [hold[h] EXCEPT !.sym = work[w].sym, !.err = err]
  <2>1. Put(h, row)
    BY <1>6 DEF EditSymbol
  <2>2. \E sym, e : row = [hold[h] EXCEPT !.sym = sym, !.err = e]
    OBVIOUS
  <2> HIDE DEF row, Agree
  <2>3. Agree
    BY <1>4, <2>1, <2>2
  <2> QED
    BY <1>0, <1>1, <1>2, <2>3, StepGood, Harmless DEF Agree
<1>7. CASE ResolveSymbol(w)
  <2> DEFINE h == Min(work[w].todo)
             row1 == [hold[h] EXCEPT !.sym = "auto", !.err = FALSE]
             row2 == [hold[h] EXCEPT !.err = TRUE]
  <2>1. Put(h, row1) \/ Put(h, row2) \/ UNCHANGED hold
    BY <1>7 DEF ResolveSymbol
  <2> HIDE DEF h
  <2>2. (\E sym, e : row1 = [hold[h] EXCEPT !.sym = sym, !.err = e]) /\ (\E e : row2 = [hold[h] EXCEPT !.err = e])
    OBVIOUS
  <2> HIDE DEF row1, row2
  <2>3. CASE UNCHANGED hold
    BY <1>0, <1>1, <1>2, <2>3, StepGood, Harmless
  <2>4. CASE Put(h, row1) \/ Put(h, row2)
    <3>1. Agree
      <4> HIDE DEF Agree
      <4> QED
        BY <1>4, <1>5, <2>2, <2>4
    <3> QED
      BY <1>0, <1>1, <1>2, <3>1, StepGood, Harmless
  <2> QED
    BY <2>1, <2>3, <2>4
<1>8. CASE Quoted(w)
  <2> DEFINE h == work[w].h
             row == [hold[h] EXCEPT !.err = FALSE]
  <2>1. Put(h, row)
    BY <1>8 DEF Quoted
  <2>2. \E e : row = [hold[h] EXCEPT !.err = e]
    OBVIOUS
  <2> HIDE DEF row, Agree
  <2>3. Agree
    BY <1>5, <2>1, <2>2
  <2> QED
    BY <1>0, <1>1, <1>2, <2>3, StepGood, Harmless DEF Agree
<1> QED
  BY <1>6, <1>7, <1>8

\* Positions opened and trades recorded by mail or statement.
LEMMA OpenForTradeCares == ASSUME Inv, NEW w \in Workers, OpenForTrade(w) PROVE Cares(w)
<1>1. OpenHold([NoHold EXCEPT !.inst = work[w].inst]) /\ UNCHANGED trade /\ work[w].pc \notin Owing
  BY DEF OpenForTrade, Owing, Replaying
<1> QED
  BY <1>1, OpenForTradeGood, OpenCares

\* RecordTrade loses no figure: it writes them derived or leaves the debt with its worker.
LEMMA RecordTradeCares == ASSUME Inv, NEW w \in Workers, RecordTrade(w) PROVE Cares(w)
<1> DEFINE me == work[w]
           row == [me.row EXCEPT !.of = me.h]
           then == IF me.bid = NoPrice THEN "idle" ELSE "forward"
           next == Recompute(me, then)
<1>1. UNCHANGED hold /\ me.pc \notin Owing /\ Good(w)
  BY RecordTradeGood DEF RecordTrade, Owing, Replaying
<1>2. CASE UNCHANGED trade
  BY <1>1, <1>2, Harmless
<1>3. CASE ~UNCHANGED trade
  <2>1. InsertTrade(row) /\ Set(w, next)
    BY <1>3 DEF RecordTrade
  <2>2. next.h = me.h /\ next.pc = "replay"
    BY KnowsHead DEF IsLocal, Recompute
  <2>3. row.of = me.h
    BY KnowsHead DEF IsLocal, IsTrade
  <2> HIDE DEF row, next
  <2>4. Owes(work'[w], me.h)
    BY <2>1, <2>2 DEF Set, Inv, Shaped, Owes
  <2>5. nextTrade \in TradeIds /\ nextTrade \in Nat /\ trade' = [trade EXCEPT ![nextTrade] = row]
    BY <2>1, RoomIsReal DEF InsertTrade, Inv, Shaped
  <2>6. trade[nextTrade].of = 0
    BY <2>5 DEF Inv, Ordinal
  <2>7. \A t \in TradeIds : trade'[t] = trade[t] \/ (trade[t].of \in {0, me.h} /\ trade'[t].of \in {0, me.h})
    BY <2>3, <2>5, <2>6 DEF Inv, Shaped
  <2> QED
    BY <1>1, <2>4, <2>7, TradeCares
<1> QED
  BY <1>2, <1>3

\* Whoever writes a price owes a recompute.
LEMMA PricedCares ==
  ASSUME Inv, NEW w \in Workers, Good(w), work[w].pc \notin Owing, UNCHANGED trade,
         NEW h, NEW row, Put(h, row), NEW me, Set(w, me), me.pc = "priced", me.h = h
  PROVE  Cares(w)
<1>1. Owes(work'[w], h)
  BY DEF Set, Inv, Shaped, Owes
<1> QED
  BY <1>1, Indebted, HarmlessPut

\* StatementPrice loses no figure: it writes them derived or leaves the debt with its worker.
LEMMA StatementPriceCares == ASSUME Inv, NEW w \in Workers, StatementPrice(w) PROVE Cares(w)
<1> DEFINE me == work[w]
           next == [me EXCEPT !.pc = "priced", !.then = "idle", !.saw = None]
           row == [hold[me.h] EXCEPT !.price = me.bid]
<1>1. Put(me.h, row) /\ Set(w, next) /\ UNCHANGED trade /\ me.pc \notin Owing
  BY DEF StatementPrice, Owing, Replaying
<1>2. next.pc = "priced" /\ next.h = me.h
  BY KnowsHead DEF IsLocal
<1> HIDE DEF row, next
<1> QED
  BY <1>1, <1>2, StatementPriceGood, PricedCares

\* Quote loses no figure: it writes them derived or leaves the debt with its worker.
LEMMA QuoteCares == ASSUME Inv, NEW w \in Workers, Quote(w) PROVE Cares(w)
<1> DEFINE me == work[w]
           h == Min(me.todo)
           price == Price("market", Now, Market)
           next == [me EXCEPT !.todo = @ \ {h}, !.h = h]
           had == [next EXCEPT !.pc = "priced", !.then = "quoted", !.bid = price]
           row1 == [hold[h] EXCEPT !.price = price]
           row2 == [hold[h] EXCEPT !.err = TRUE]
<1>1. UNCHANGED trade /\ me.pc \notin Owing /\ Good(w)
  BY QuoteGood DEF Quote, Owing, Replaying
<1>2. (Put(h, row1) /\ Set(w, had)) \/ Put(h, row2)
  BY DEF Quote
<1> HIDE DEF h, price
<1>3. had.pc = "priced" /\ had.h = h
  BY KnowsHead DEF IsLocal
<1>4. CASE Put(h, row1) /\ Set(w, had)
  <2> HIDE DEF row1, had
  <2> QED
    BY <1>1, <1>3, <1>4, PricedCares
<1>5. CASE Put(h, row2)
  <2>1. h \in HoldIds => row2.inst = hold[h].inst /\ row2.price = hold[h].price /\ row2.fig = hold[h].fig
    BY DEF Inv, Shaped, IsHold
  <2> HIDE DEF row2
  <2>2. \A g \in HoldIds : /\ hold'[g].inst = hold[g].inst /\ hold'[g].price = hold[g].price
                           /\ hold'[g].fig = hold[g].fig
    BY <1>5, <2>1 DEF Put, Inv, Shaped
  <2> QED
    BY <1>1, <2>2, Harmless
<1> QED
  BY <1>2, <1>4, <1>5

\* The refresh recomputes every holding it has given rates to.
LEMMA RecomputeTouchedCares == ASSUME Inv, NEW w \in Workers, RecomputeTouched(w) PROVE Cares(w)
<1> DEFINE me == work[w]
<1>1. /\ me.pc = "touched" /\ UNCHANGED hold /\ UNCHANGED trade /\ Good(w)
      /\ \E g \in me.todo : Set(w, Recompute([me EXCEPT !.h = g, !.todo = @ \ {g}], "touched"))
  BY RecomputeTouchedGood DEF RecomputeTouched, Local, tables
<1>2. PICK g \in me.todo : Set(w, Recompute([me EXCEPT !.h = g, !.todo = @ \ {g}], "touched"))
  BY <1>1
<1>3. work'[w].pc = "replay" /\ work'[w].h = g /\ work'[w].then = "touched" /\ work'[w].todo = me.todo \ {g}
  BY <1>2, KnowsHead DEF Set, Inv, Shaped, IsLocal, Recompute
<1> SUFFICES ASSUME NEW h \in HoldIds PROVE ~Loses(h)
  BY DEF Cares
<1>4. SameAt(h)
  BY <1>1, SameRows DEF SameAt
<1>5. Owes(me, h) => Owes(work'[w], h)
  BY <1>1, <1>3 DEF Owes
<1> QED
  BY <1>1, <1>4, <1>5, KeptDebt

\* SetTradeRate loses no figure: it writes them derived or leaves the debt with its worker.
LEMMA SetTradeRateCares == ASSUME Inv, NEW w \in Workers, SetTradeRate(w) PROVE Cares(w)
<1> DEFINE me == work[w]
           t == Min(DOMAIN me.due)
           old == me.due[t]
           rest == [u \in DOMAIN me.due \ {t} |-> me.due[u]]
           todo == IF DayRate[old.day] = 0 THEN me.todo ELSE me.todo \cup {old.of}
           next == [me EXCEPT !.due = rest, !.todo = todo]
           row == IF trade[t].of = 0 \/ DayRate[old.day] = 0 THEN trade[t]
                  ELSE [trade[t] EXCEPT !.rate = DayRate[old.day]]
           after == IF DOMAIN rest = {} THEN ToTouched(next) ELSE next
<1>1. me.pc = "tradeRate" /\ UNCHANGED hold /\ trade' = [trade EXCEPT ![t] = row] /\ Set(w, after) /\ Good(w)
  BY SetTradeRateGood DEF SetTradeRate
<1>2. /\ DOMAIN me.due # {} /\ DOMAIN me.due \in SUBSET Nat
      /\ \A u \in DOMAIN me.due : u \in TradeIds /\ trade[u].of \in {0, me.due[u].of}
  BY <1>1, IdsAreNat DEF Inv, Knows, Relies
<1>3. t \in TradeIds /\ trade[t].of \in {0, old.of}
  BY <1>2, LeastNatural
<1>4. row = trade[t] \/ (row.of = trade[t].of /\ trade[t].of = old.of /\ old.of \in todo)
  <2> HIDE DEF t
  <2> QED
    BY <1>3 DEF Inv, Shaped, IsTrade
<1>5. me.todo \subseteq todo
  OBVIOUS
<1> HIDE DEF row, todo, rest
<1>6. next.todo = todo /\ next.pc = "tradeRate" /\ IsLocal(next)
  BY <1>1, KnowsHead DEF IsLocal
<1> HIDE DEF next
<1>7. \A h \in todo : Owes(after, h)
  <2>1. todo # {} => ToTouched(next).pc = "touched" /\ ToTouched(next).todo = todo
    BY <1>6 DEF ToTouched, IsLocal
  <2> QED
    BY <1>6, <2>1 DEF Owes
<1>8. work'[w] = after
  BY <1>1 DEF Set, Inv, Shaped
<1> HIDE DEF after, old, t
<1> SUFFICES ASSUME NEW h \in HoldIds PROVE ~Loses(h)
  BY DEF Cares
<1>9. CASE h \in todo
  BY <1>7, <1>8, <1>9, Indebted
<1>10. CASE h \notin todo
  <2>1. \A u \in TradeIds : trade'[u] = trade[u] \/ (trade[u].of # h /\ trade'[u].of # h)
    BY <1>1, <1>3, <1>4, <1>10 DEF Inv, Shaped
  <2>2. SameAt(h)
    BY <1>1, <2>1, SameRows DEF SameAt
  <2>3. ~Owes(me, h)
    BY <1>1, <1>5, <1>10 DEF Owes
  <2> QED
    BY <1>1, <2>2, <2>3, KeptDebt
<1> QED
  BY <1>9, <1>10

\* Every statement and every request pays, keeps or takes on its debt.
LEMMA StepCares == ASSUME Inv, NEW w \in Workers, Step(w) PROVE Cares(w)
  BY WriteFiguresCares, ReplayCares, CountTradesCares, RevalueCares, EditWriteCares, QuietStepCares,
     SymbolStepCares, OpenForTradeCares, RecordTradeCares, StatementPriceCares, QuoteCares,
     RecomputeTouchedCares, SetTradeRateCares, Zenon DEF Step, Accounting

\* A handler begins from idleness, where nothing is owed.
LEMMA IdleOwesNothing == ASSUME NEW w, NEW op, Begin(w, op) PROVE work[w].pc \notin Owing
  BY DEF Begin, Owing, Replaying

\* A handler that starts either changes no trade and no figure or owes the recompute from then on.
LEMMA RequestCares == ASSUME Inv, NEW w \in Workers, Request(w) PROVE Cares(w)
<1>0. Good(w)
  BY RequestGood
<1>1. ASSUME NEW inst \in Instruments, NEW form \in Forms, NEW sym \in {"", "own"}, CreateInvestment(w, inst, form, sym)
      PROVE  Cares(w)
  <2>1. /\ OpenHold([NoHold EXCEPT !.inst = inst, !.sym = sym, !.fig = Entered(Blank, form)]) /\ UNCHANGED trade
        /\ Begin(w, "create")
    BY <1>1 DEF CreateInvestment
  <2> QED
    BY <1>0, <2>1, IdleOwesNothing, OpenCares
<1>2. ASSUME NEW h \in HoldIds, DeleteInvestment(w, h) PROVE Cares(w)
  <2>0. NoHold.inst = None /\ NoTrade.of = 0
    BY DEF NoHold, NoTrade
  <2>1. /\ Begin(w, "delete") /\ hold' = [hold EXCEPT ![h] = NoHold]
        /\ trade' = [t \in TradeIds |-> IF trade[t].of = h THEN NoTrade ELSE trade[t]]
    BY <1>2 DEF DeleteInvestment
  <2>2. ASSUME NEW g \in HoldIds PROVE ~Loses(g)
    <3>1. CASE g = h
      BY <2>0, <2>1, <3>1, NothingToDerive DEF Inv, Shaped
    <3>2. CASE g # h
      <4>1. g # 0
        BY IdsAreNat
      <4>2. \A t \in TradeIds : trade'[t] = trade[t] \/ (trade[t].of # g /\ trade'[t].of # g)
        BY <2>0, <2>1, <3>2, <4>1
      <4>3. SameAt(g)
        BY <2>1, <3>2, <4>2, SameRows DEF SameAt, Inv, Shaped
      <4> QED
        BY <1>0, <2>1, <4>3, IdleOwesNothing, NoDebt, KeptDebt
    <3> QED
      BY <3>1, <3>2
  <2> QED
    BY <2>2 DEF Cares
<1>3. ASSUME NEW h \in HoldIds, NEW day \in Days \cup {Now}, SetInvestmentPrice(w, h, day) PROVE Cares(w)
  <2> DEFINE price == Price("manual", day, Typed)
             me == [Off EXCEPT !.pc = "priced", !.h = h, !.bid = price]
             row == [hold[h] EXCEPT !.price = price]
  <2>1. Begin(w, "price") /\ Put(h, row) /\ Set(w, me) /\ UNCHANGED trade
    BY <1>3 DEF SetInvestmentPrice
  <2> HIDE DEF price
  <2>2. me.pc = "priced" /\ me.h = h
    BY DEF Off
  <2> HIDE DEF me, row
  <2> QED
    BY <1>0, <2>1, <2>2, IdleOwesNothing, PricedCares
<1>4. ASSUME NEW form \in Forms, ImportDeposit(w, form) PROVE Cares(w)
  <2> DEFINE fresh == [NoHold EXCEPT !.inst = Deposit, !.fig.cost = form.cost, !.fig.value = form.cost]
             row(h) == [hold[h] EXCEPT !.fig.cost = form.cost, !.fig.value = form.cost]
  <2>1. /\ Begin(w, "deposit") /\ UNCHANGED trade
        /\ OpenHold(fresh) \/ \E h \in Match(Deposit) : Put(h, row(h))
    BY <1>4 DEF ImportDeposit
  <2>2. work[w].pc \notin Owing
    BY <2>1, IdleOwesNothing
  <2>3. \A h \in HoldIds : row(h).inst = hold[h].inst
    BY DEF Inv, Shaped, IsHold
  <2> HIDE DEF fresh, row
  <2>4. CASE OpenHold(fresh)
    BY <1>0, <2>1, <2>2, <2>4, OpenCares
  <2>5. ASSUME NEW h \in Match(Deposit), Put(h, row(h)) PROVE Cares(w)
    <3>1. h \in HoldIds /\ hold'[h].inst = Deposit
      BY <2>3, <2>5 DEF Match, Put, Inv, Shaped
    <3> QED
      BY <1>0, <2>1, <2>2, <2>5, <3>1, NothingToDerive, HarmlessPut
  <2> QED
    BY <2>1, <2>4, <2>5
<1>5. ASSUME NEW op, Begin(w, op), UNCHANGED <<hold, trade>> PROVE Cares(w)
  BY <1>0, <1>5, IdleOwesNothing, Harmless
<1>6. ASSUME NEW h, NEW form, NEW sym, UpdateInvestment(w, h, form, sym) PROVE Cares(w)
  BY <1>5, <1>6 DEF UpdateInvestment, Local, tables
<1>7. ASSUME NEW h, RefreshOne(w, h) \/ RefreshAll(w) PROVE Cares(w)
  BY <1>5, <1>7 DEF RefreshOne, RefreshAll, Refresh, Local, tables
<1>8. ASSUME NEW h \in HoldIds, NEW day \in Days, NEW o \in scene.orders, AddInvestmentTrade(w, h, day, o) PROVE Cares(w)
  <2> DEFINE me == Recompute([Off EXCEPT !.h = h], "idle")
             row == Ordered(h, day, o)
  <2>1. Begin(w, "add") /\ InsertTrade(row) /\ Set(w, me) /\ UNCHANGED hold
    BY <1>8 DEF AddInvestmentTrade
  <2>2. row.of = h /\ me.pc = "replay" /\ me.h = h
    BY DEF Ordered, Recompute, Off
  <2> HIDE DEF row, me
  <2>3. Owes(work'[w], h)
    BY <2>1, <2>2 DEF Set, Inv, Shaped, Owes
  <2>4. nextTrade \in TradeIds /\ nextTrade \in Nat /\ trade' = [trade EXCEPT ![nextTrade] = row]
    BY <2>1, RoomIsReal DEF InsertTrade, Inv, Shaped
  <2>5. trade[nextTrade].of = 0
    BY <2>4 DEF Inv, Ordinal
  <2>6. \A t \in TradeIds : trade'[t] = trade[t] \/ (trade[t].of \in {0, h} /\ trade'[t].of \in {0, h})
    BY <2>2, <2>4, <2>5 DEF Inv, Shaped
  <2> QED
    BY <1>0, <2>1, <2>3, <2>6, IdleOwesNothing, TradeCares
<1>9. ASSUME NEW t \in TradeIds, NEW day \in Days, NEW o \in scene.orders, UpdateInvestmentTrade(w, t, day, o) PROVE Cares(w)
  <2> DEFINE old == trade[t]
             me == Recompute([Off EXCEPT !.h = old.of], "idle")
             row == [Ordered(old.of, day, o) EXCEPT !.src = old.src, !.rate = IF day = old.day THEN old.rate ELSE @]
  <2>1. Begin(w, "amend") /\ trade' = [trade EXCEPT ![t] = row] /\ Set(w, me) /\ UNCHANGED hold
    BY <1>9 DEF UpdateInvestmentTrade
  <2>2. row.of = old.of /\ me.pc = "replay" /\ me.h = old.of
    BY DEF Ordered, Recompute, Off
  <2> HIDE DEF row, me
  <2>3. Owes(work'[w], old.of)
    BY <2>1, <2>2 DEF Set, Inv, Shaped, Owes
  <2>4. \A u \in TradeIds : trade'[u] = trade[u] \/ (trade[u].of \in {0, old.of} /\ trade'[u].of \in {0, old.of})
    BY <2>1, <2>2 DEF Inv, Shaped
  <2> QED
    BY <1>0, <2>1, <2>3, <2>4, IdleOwesNothing, TradeCares
<1>10. ASSUME NEW t \in TradeIds, DeleteInvestmentTrade(w, t) PROVE Cares(w)
  <2> DEFINE me == Recompute([Off EXCEPT !.h = trade[t].of], "idle")
  <2>1. Begin(w, "drop") /\ trade' = [trade EXCEPT ![t] = NoTrade] /\ Set(w, me) /\ UNCHANGED hold
    BY <1>10 DEF DeleteInvestmentTrade
  <2>2. NoTrade.of = 0 /\ me.pc = "replay" /\ me.h = trade[t].of
    BY DEF NoTrade, Recompute, Off
  <2> HIDE DEF me
  <2>3. Owes(work'[w], trade[t].of)
    BY <2>1, <2>2 DEF Set, Inv, Shaped, Owes
  <2>4. \A u \in TradeIds : trade'[u] = trade[u] \/ (trade[u].of \in {0, trade[t].of} /\ trade'[u].of \in {0, trade[t].of})
    BY <2>1, <2>2 DEF Inv, Shaped
  <2> QED
    BY <1>0, <2>1, <2>3, <2>4, IdleOwesNothing, TradeCares
<1>11. ASSUME NEW m, TradeMail(w, m) PROVE Cares(w)
  BY <1>5, <1>11 DEF TradeMail, LookUp, Local, tables
<1>12. ASSUME NEW inst, NEW day, Statement(w, inst, day) PROVE Cares(w)
  BY <1>5, <1>12 DEF Statement, LookUp, Local, tables
<1>13. SetFXRate(w) \/ EnsureRate(w) => Cares(w)
  BY <1>5 DEF SetFXRate, EnsureRate, Local, tables
<1> QED
  BY <1>1, <1>2, <1>3, <1>4, <1>6, <1>7, <1>8, <1>9, <1>10, <1>11, <1>12, <1>13, Zenon DEF Request

\* Figures go astray only by a crash, or a write that others have overtaken.
THEOREM FiguresAreDerived == Spec => FiguresLostOnlyByRace
<1>1. ASSUME Inv, [Next]_vars, NEW h \in HoldIds, Loses(h), up'
      PROVE  \E w \in Workers : Stale(w) /\ work'[w] # work[w]
  <2>1. CASE Crash
    BY <1>1, <2>1 DEF Crash
  <2>2. CASE Restart \/ UNCHANGED vars
    <3>1. UNCHANGED <<hold, trade, work>>
      BY <2>2 DEF Restart, vars, tables
    <3>2. Rows(trade', h) = Rows(trade, h) /\ Of(trade', h) = Of(trade, h)
      BY <3>1
    <3> QED
      BY <1>1, <3>1, <3>2 DEF Loses, Lost, Derived
  <2>3. CASE \E w \in Workers : Request(w) \/ Step(w)
    BY <1>1, <2>3, RequestCares, StepCares DEF Cares, Excused
  <2> QED
    BY <1>1, <2>1, <2>2, <2>3 DEF Next
<1>2. ASSUME Inv, [Next]_vars
      PROVE  \A h \in HoldIds : Lost(trade', hold', work', h) /\ ~Lost(trade, hold, work, h) =>
               ~up' \/ \E w \in Workers : Stale(w) /\ work'[w] # work[w]
  BY <1>1, <1>2 DEF Loses
<1> QED
  BY Invariant, <1>2, PTL DEF Spec, FiguresLostOnlyByRace

-----------------------------------------------------------------------------
(* What the columns hold.                                                  *)

IsFig(f) ==
  /\ DOMAIN f = {"units", "cost", "inr", "gain", "gainInr", "value", "status"}
  /\ f.status \in {"active", "closed"}
Dealt(r) ==
  /\ r.day \in Days /\ r.side \in {"buy", "sell"}
  /\ r.shares \in Nat /\ r.amt \in Nat /\ r.rate \in Nat \cup {None}

Listed(row) == row.inst \in Assets \cup {None} /\ row.sym \in Symbols /\ IsFig(row.fig)

\* Rows there is room for; what is no row is blank.
Columns ==
  /\ nextHold <= scene.holds + 1 /\ nextTrade <= scene.trades + 1
  /\ \A h \in HoldIds : Listed(hold[h])
  /\ \A t \in TradeIds : trade[t] = NoTrade \/ (trade[t].of # 0 /\ Dealt(trade[t]))
  /\ rate \in {None, "manual", "derived", "market"}

\* What a handler is about to write fits its column.
Fits(me) ==
  /\ IsFig(me.fig)
  /\ me.pc = "edit" \/ (me.then = "symbol" /\ me.pc # "setRate") => me.sym \in Symbols \cup {None}
  /\ me.pc = "symbol" => me.sym \in Symbols
  /\ me.pc = "setRate" => me.sym \in {"derived", "market"}
  /\ me.pc \in {"open", "count", "record"} => Dealt(me.row)
  /\ me.pc = "tradeRate" => \A t \in DOMAIN me.due : me.due[t].day \in Days

OneRefresh == \A v, w \in Workers : work[v].live /\ work[w].live => v = w
Filled == Columns /\ OneRefresh /\ \A w \in Workers : Fits(work[w])

\* Figures come from a replay, a form, or an empty row.
LEMMA FigsAreFigs ==
  /\ IsFig(Blank) /\ IsFig(NoHold.fig)
  /\ \A p : IsFig(Figures(p))
  /\ \A f, price : IsFig(f) => IsFig(Valued(f, price))
  /\ \A f, form : IsFig(f) => IsFig(Entered(f, form))
<1>1. IsFig(Blank) /\ IsFig(NoHold.fig)
  BY DEF IsFig, Blank, NoHold
<1>2. \A p : IsFig(Figures(p))
  BY DEF IsFig, Figures
<1>3. \A f, price : IsFig(f) => IsFig(Valued(f, price))
  BY DEF IsFig, Valued
<1>4. \A f, form : IsFig(f) => IsFig(Entered(f, form))
  BY DEF IsFig, Entered
<1> QED
  BY <1>1, <1>2, <1>3, <1>4

\* A handler that is through is free of all of it.
LEMMA OffFits == Fits(Off) /\ Off.live = FALSE
<1>1. IsFig(Off.fig)
  BY FigsAreFigs DEF Off
<1> QED
  BY <1>1 DEF Fits, Off

\* Writes of one row keep the columns.
LEMMA PutColumns ==
  ASSUME Inv, Columns, NEW h, NEW row, Put(h, row), h \in HoldIds => Listed(row),
         UNCHANGED <<scene, trade, nextHold, nextTrade, rate>>
  PROVE  Columns'
<1>1. \A g \in HoldIds : hold'[g] = hold[g] \/ (g = h /\ hold'[g] = row)
  BY DEF Inv, Shaped, Put
<1> QED
  BY <1>1 DEF Columns

\* A position is opened within the room there is.
LEMMA OpenColumns ==
  ASSUME Inv, Columns, NEW row, OpenHold(row), Listed(row),
         UNCHANGED <<scene, trade, nextTrade, rate>>
  PROVE  Columns'
<1>1. \A g \in HoldIds : hold'[g] = hold[g] \/ hold'[g] = row
  BY DEF Inv, Shaped, OpenHold
<1>2. nextHold' <= scene.holds + 1
  BY HoldingsAssumption DEF Inv, Shaped, OpenHold
<1> QED
  BY <1>1, <1>2 DEF Columns

\* A trade is inserted within the room there is.
LEMMA InsertColumns ==
  ASSUME Inv, Columns, NEW row, InsertTrade(row), row.of # 0, Dealt(row),
         UNCHANGED <<scene, hold, nextHold, rate>>
  PROVE  Columns'
<1>1. \A t \in TradeIds : trade'[t] = trade[t] \/ trade'[t] = row
  BY DEF Inv, Shaped, InsertTrade
<1>2. nextTrade' <= scene.trades + 1
  BY HoldingsAssumption DEF Inv, Shaped, InsertTrade
<1> QED
  BY <1>1, <1>2 DEF Columns

\* A trade is changed or goes.
LEMMA TradeColumns ==
  ASSUME Inv, Columns, NEW t \in TradeIds, NEW row, trade' = [trade EXCEPT ![t] = row],
         row = NoTrade \/ (row.of # 0 /\ Dealt(row)),
         UNCHANGED <<scene, hold, nextHold, nextTrade, rate>>
  PROVE  Columns'
<1>1. \A u \in TradeIds : trade'[u] = trade[u] \/ trade'[u] = row
  BY DEF Inv, Shaped
<1> QED
  BY <1>1 DEF Columns

\* A step that writes no table.
LEMMA SameColumns == ASSUME Columns, UNCHANGED <<scene, tables>> PROVE Columns'
  BY DEF Columns, tables

\* A handler does not start a second refresh.
Lives(w, me) == me.live => work[w].live \/ \A v \in Workers : ~work[v].live

\* A step of one handler.
LEMMA FilledStep ==
  ASSUME Inv, Filled, NEW w \in Workers, NEW me, Set(w, me), Fits(me), Lives(w, me), Columns'
  PROVE  Filled'
<1>1. work' = [work EXCEPT ![w] = me] /\ DOMAIN work = Workers
  BY DEF Set, Inv, Shaped
<1>2. work'[w] = me /\ \A v \in Workers \ {w} : work'[v] = work[v]
  BY <1>1
<1>3. OneRefresh'
  BY <1>2 DEF Filled, OneRefresh, Lives
<1>4. \A v \in Workers : Fits(work'[v])
  BY <1>2 DEF Filled
<1> QED
  BY <1>3, <1>4 DEF Filled

\* A step that reads or answers.
LEMMA FilledLocal ==
  ASSUME Inv, Filled, NEW w \in Workers, NEW me, Local(w, me), Fits(me), Lives(w, me)
  PROVE  Filled'
<1>1. Columns'
  BY SameColumns DEF Local, Filled
<1> QED
  BY <1>1, FilledStep DEF Local

\* Where a refresh goes, and what follows a recompute.
LEMMA PhaseFits ==
  ASSUME NEW me, IsLocal(me), IsFig(me.fig), me.then = "symbol" => me.sym \in Symbols \cup {None}
  PROVE  /\ Fits(ToRates(me)) /\ ToRates(me).live = me.live
         /\ Fits(ToPrices(me)) /\ ToPrices(me).live = me.live
         /\ Fits(NextPrice(me)) /\ NextPrice(me).live = me.live
         /\ Fits(ToTouched(me)) /\ ToTouched(me).live = me.live
<1>1. Fits(ToRates(me)) /\ ToRates(me).live = me.live
  BY DEF ToRates, IsLocal, Fits
<1>2. Fits(ToPrices(me)) /\ ToPrices(me).live = me.live
  BY <1>1 DEF ToPrices, IsLocal, Fits
<1>3. Fits(NextPrice(me)) /\ NextPrice(me).live = me.live
  BY <1>1 DEF NextPrice, IsLocal, Fits
<1>4. Fits(ToTouched(me)) /\ ToTouched(me).live = me.live
  BY <1>2 DEF ToTouched, IsLocal, Fits
<1> QED
  BY <1>1, <1>2, <1>3, <1>4

\* After a recompute the handler goes on with figures written and symbol kept.
LEMMA ResumeFits ==
  ASSUME NEW me, IsLocal(me), me.then \in Thens, me.then = "symbol" => me.sym \in Symbols \cup {None}
  PROVE  Fits(Resume(me)) /\ (Resume(me).live => me.live)
<1> DEFINE done == [me EXCEPT !.then = "idle", !.fig = Blank, !.saw = None]
           home == [done EXCEPT !.h = 0]
<1>1. IsLocal(home) /\ IsFig(home.fig) /\ home.then = "idle" /\ home.live = me.live
  BY FigsAreFigs DEF IsLocal
<1>2. Fits(ToTouched(home)) /\ ToTouched(home).live = me.live
  <2> HIDE DEF home
  <2> QED
    BY <1>1, PhaseFits
<1>3. CASE me.then = "touched"
  <2>1. Resume(me) = ToTouched(home)
    BY <1>3 DEF Resume
  <2> HIDE DEF home
  <2> QED
    BY <1>2, <2>1
<1>4. CASE me.then \in {"symbol", "forward", "quoted"} /\ ~(me.then = "symbol" /\ me.sym = None)
  <2>1. Resume(me) = [done EXCEPT !.pc = me.then]
    BY <1>4 DEF Resume
  <2> QED
    BY <1>4, <2>1, FigsAreFigs DEF IsLocal, Fits
<1>5. CASE me.then = "idle" \/ (me.then = "symbol" /\ me.sym = None)
  <2>1. Resume(me) = Off
    BY <1>5 DEF Resume
  <2> QED
    BY <2>1, OffFits
<1> QED
  BY <1>3, <1>4, <1>5 DEF Plain, Thens

\* Every request.
LEMMA RequestFilled == ASSUME Inv, Filled, NEW w \in Workers, Request(w) PROVE Filled'
<1> DEFINE me == work[w]
<1>0. /\ Columns /\ Shaped /\ IsLocal(me) /\ Fits(me)
      /\ \A h \in HoldIds : IsHold(hold[h]) /\ Listed(hold[h])
      /\ 0 \notin HoldIds
  BY IdsAreNat DEF Inv, Filled, Shaped, Columns
<1>1. ASSUME NEW inst \in Instruments, NEW form \in Forms, NEW sym \in {"", "own"}, CreateInvestment(w, inst, form, sym)
      PROVE  Filled'
  <2> DEFINE row == [NoHold EXCEPT !.inst = inst, !.sym = sym, !.fig = Entered(Blank, form)]
  <2>1. OpenHold(row) /\ UNCHANGED <<scene, trade, nextTrade, rate, work>>
    BY <1>1 DEF CreateInvestment
  <2>2. Listed(row)
    BY FigsAreFigs DEF Listed, NoHold, Symbols, Assets
  <2> HIDE DEF row
  <2>3. Columns'
    BY <1>0, <2>1, <2>2, OpenColumns
  <2> QED
    BY <1>0, <2>1, <2>3, SameTables, FilledStep DEF Lives
<1>2. ASSUME NEW h \in HoldIds, NEW form \in Forms, NEW sym \in Symbols \cup {None}, UpdateInvestment(w, h, form, sym)
      PROVE  Filled'
  <2> DEFINE p == [Off EXCEPT !.pc = "edit", !.h = h, !.saw = Count(h), !.then = "symbol",
                              !.fig = Entered(Blank, form), !.sym = sym]
  <2>1. Local(w, p)
    BY <1>2 DEF UpdateInvestment
  <2>2. Fits(p) /\ p.live = FALSE
    BY FigsAreFigs DEF Fits, Off
  <2> HIDE DEF p
  <2> QED
    BY <2>1, <2>2, FilledLocal DEF Lives
<1>3. ASSUME NEW h \in HoldIds, DeleteInvestment(w, h) PROVE Filled'
  <2>1. /\ hold' = [hold EXCEPT ![h] = NoHold] /\ UNCHANGED <<scene, nextHold, nextTrade, rate, work>>
        /\ \A t \in TradeIds : trade'[t] \in {trade[t], NoTrade}
    BY <1>3 DEF DeleteInvestment
  <2>2. Listed(NoHold)
    BY FigsAreFigs DEF Listed, NoHold, Symbols
  <2>3. Columns'
    BY <1>0, <2>1, <2>2 DEF Columns, Shaped
  <2> QED
    BY <1>0, <2>1, <2>3, SameTables, FilledStep DEF Lives
<1>4. ASSUME NEW h \in HoldIds \cup {0}, Refresh(w, h) PROVE Filled'
  <2> DEFINE snap == [k \in {g \in HoldIds : Loaded(g) /\ h \in {0, g}} |->
                       [sym |-> hold[k].sym, err |-> hold[k].err, units |-> hold[k].fig.units]]
             q == [Off EXCEPT !.live = TRUE, !.snap = snap, !.todo = Unresolved(snap, h # 0)]
             p == ToTrades(q)
  <2>1. Local(w, p) /\ \A v \in Workers : ~work[v].live
    BY <1>4 DEF Refresh
  <2> HIDE DEF snap
  <2>2. Fits(p)
    BY OffFits DEF ToTrades, Fits, Off
  <2> HIDE DEF p
  <2> QED
    BY <2>1, <2>2, FilledLocal DEF Lives
<1>5. ASSUME NEW h \in HoldIds, NEW day \in Days \cup {Now}, SetInvestmentPrice(w, h, day) PROVE Filled'
  <2> DEFINE price == Price("manual", day, Typed)
             row == [hold[h] EXCEPT !.price = price]
             p == [Off EXCEPT !.pc = "priced", !.h = h, !.bid = price]
  <2>1. Put(h, row) /\ Set(w, p) /\ UNCHANGED <<scene, trade, nextHold, nextTrade, rate>>
    BY <1>5 DEF SetInvestmentPrice
  <2> HIDE DEF price
  <2>2. Listed(row)
    BY <1>0 DEF Listed, IsHold
  <2>3. Fits(p) /\ p.live = FALSE
    BY OffFits DEF Fits, Off
  <2> HIDE DEF row, p
  <2>4. Columns'
    BY <1>0, <2>1, <2>2, PutColumns
  <2> QED
    BY <2>1, <2>3, <2>4, FilledStep DEF Lives
<1>6. ASSUME NEW h, h # 0, NEW day \in Days, NEW o \in scene.orders
      PROVE  Dealt(Ordered(h, day, o)) /\ Ordered(h, day, o).of = h
  <2>1. o.side \in {"buy", "sell"} /\ o.shares \in Nat /\ o.amt \in Nat
    BY <1>0, TradesAssumption DEF Shaped
  <2> QED
    BY <2>1 DEF Dealt, Ordered, FreshRate
<1>7. ASSUME NEW h
      PROVE  LET p == Recompute([Off EXCEPT !.h = h], "idle") IN Fits(p) /\ p.live = FALSE
  BY OffFits DEF Fits, Off, Recompute
<1>8. ASSUME NEW h \in HoldIds, NEW day \in Days, NEW o \in scene.orders, AddInvestmentTrade(w, h, day, o)
      PROVE  Filled'
  <2> DEFINE row == Ordered(h, day, o)
             p == Recompute([Off EXCEPT !.h = h], "idle")
  <2>1. InsertTrade(row) /\ Set(w, p) /\ UNCHANGED <<scene, hold, nextHold, rate>>
    BY <1>8 DEF AddInvestmentTrade
  <2>2. row.of # 0 /\ Dealt(row) /\ Fits(p) /\ p.live = FALSE
    <3>1. Fits(p) /\ p.live = FALSE
      BY <1>7
    <3>2. h # 0
      BY IdsAreNat
    <3>3. Dealt(row) /\ row.of = h
      BY <1>6, <3>2
    <3> QED
      BY <3>1, <3>2, <3>3
  <2> HIDE DEF row, p
  <2>3. Columns'
    BY <1>0, <2>1, <2>2, InsertColumns
  <2> QED
    BY <2>1, <2>2, <2>3, FilledStep DEF Lives
<1>9. ASSUME NEW t \in TradeIds, NEW day \in Days, NEW o \in scene.orders, UpdateInvestmentTrade(w, t, day, o)
      PROVE  Filled'
  <2> DEFINE old == trade[t]
             new == Ordered(old.of, day, o)
             r == IF day = old.day THEN old.rate ELSE new.rate
             row == [new EXCEPT !.src = old.src, !.rate = r]
             p == Recompute([Off EXCEPT !.h = old.of], "idle")
  <2>1. /\ old.of # 0 /\ Set(w, p) /\ UNCHANGED <<scene, hold, nextHold, nextTrade, rate>>
        /\ trade' = [trade EXCEPT ![t] = [new EXCEPT !.src = old.src, !.rate = IF day = old.day THEN old.rate ELSE @]]
    BY <1>9 DEF UpdateInvestmentTrade
  <2>2. DOMAIN new = {"of", "day", "side", "shares", "amt", "rate", "src"}
    BY DEF Ordered
  <2>3. Dealt(new) /\ new.of = old.of /\ Dealt(old)
    BY <1>0, <1>6, <2>1 DEF Columns, NoTrade
  <2>4. Fits(p) /\ p.live = FALSE
    BY <1>7
  <2>5. trade' = [trade EXCEPT ![t] = row]
    BY <2>1, <2>2
  <2> HIDE DEF new, p
  <2>6. row.of # 0 /\ Dealt(row)
    BY <2>1, <2>2, <2>3 DEF Dealt
  <2> HIDE DEF row
  <2>7. Columns'
    BY <1>0, <2>1, <2>5, <2>6, TradeColumns
  <2> QED
    BY <2>1, <2>4, <2>7, FilledStep DEF Lives
<1>10. ASSUME NEW t \in TradeIds, DeleteInvestmentTrade(w, t) PROVE Filled'
  <2> DEFINE p == Recompute([Off EXCEPT !.h = trade[t].of], "idle")
  <2>1. /\ Set(w, p) /\ UNCHANGED <<scene, hold, nextHold, nextTrade, rate>>
        /\ trade' = [trade EXCEPT ![t] = NoTrade]
    BY <1>10 DEF DeleteInvestmentTrade
  <2>2. Fits(p) /\ p.live = FALSE
    BY <1>7
  <2> HIDE DEF p
  <2>3. Columns'
    BY <1>0, <2>1, TradeColumns
  <2> QED
    BY <2>1, <2>2, <2>3, FilledStep DEF Lives
<1>11. ASSUME NEW p, LookUp(w, p), IsLocal(p), Fits(p), p.then = "idle", p.live = FALSE, Dealt(p.row) PROVE Filled'
  <2>1. \A h : Fits(Found(p, h)) /\ Found(p, h).live = FALSE
    BY <1>11 DEF Found, Fits, IsLocal
  <2> DEFINE q == [p EXCEPT !.pc = "open", !.saw = nextHold]
  <2>2. Fits(q) /\ q.live = FALSE
    BY <1>11 DEF Fits, IsLocal
  <2>3. Local(w, q) \/ \E h : Local(w, Found(p, h))
    BY <1>11 DEF LookUp
  <2> HIDE DEF q
  <2> QED
    BY <2>1, <2>2, <2>3, FilledLocal DEF Lives
<1>12. ASSUME NEW m \in DOMAIN Mails, TradeMail(w, m) PROVE Filled'
  <2> DEFINE t == Mails[m]
             row == [of |-> 0, day |-> t.day, side |-> t.side, shares |-> t.shares, amt |-> t.amt,
                     rate |-> FreshRate(t.inst), src |-> m]
             p == [Off EXCEPT !.inst = t.inst, !.row = row]
  <2>1. LookUp(w, p)
    BY <1>12 DEF TradeMail
  <2>2. Dealt(row) /\ IsTrade(row)
    BY TradesAssumption DEF Dealt, FreshRate, IsTrade
  <2> HIDE DEF row
  <2>3. IsLocal(p) /\ Fits(p) /\ p.then = "idle" /\ p.live = FALSE /\ Dealt(p.row)
    BY <2>2, OffCalm, OffFits DEF IsLocal, Fits, Off
  <2> HIDE DEF p
  <2> QED
    BY <1>11, <2>1, <2>3
<1>13. ASSUME NEW inst \in Instruments, NEW day \in Days, Statement(w, inst, day) PROVE Filled'
  <2> DEFINE row == [of |-> 0, day |-> day, side |-> "buy", shares |-> Line.units, amt |-> Line.value,
                     rate |-> FreshRate(inst), src |-> Seed(inst)]
             price == Price("statement", day, Line.price)
             p == [Off EXCEPT !.inst = inst, !.bid = price, !.row = row]
  <2>1. LookUp(w, p)
    BY <1>13 DEF Statement
  <2>2. Dealt(row) /\ IsTrade(row) /\ IsPrice(price)
    BY TradesAssumption, HoldingsAssumption DEF Dealt, FreshRate, IsTrade, IsPrice, Price
  <2> HIDE DEF row, price
  <2>3. IsLocal(p) /\ Fits(p) /\ p.then = "idle" /\ p.live = FALSE /\ Dealt(p.row)
    BY <2>2, OffCalm, OffFits DEF IsLocal, Fits, Off
  <2> HIDE DEF p
  <2> QED
    BY <1>11, <2>1, <2>3
<1>14. ASSUME NEW form \in Forms, ImportDeposit(w, form) PROVE Filled'
  <2> DEFINE fresh == [NoHold EXCEPT !.inst = Deposit, !.fig.cost = form.cost, !.fig.value = form.cost]
             row(h) == [hold[h] EXCEPT !.fig.cost = form.cost, !.fig.value = form.cost]
  <2>1. /\ UNCHANGED <<scene, trade, nextTrade, rate, work>>
        /\ OpenHold(fresh) \/ (UNCHANGED nextHold /\ \E h \in HoldIds : Put(h, row(h)))
    BY <1>14 DEF ImportDeposit, Match
  <2>2. Listed(fresh)
    BY DEF Listed, NoHold, Symbols, Blank, IsFig, Assets
  <2>3. \A h \in HoldIds : Listed(row(h))
    BY <1>0 DEF Listed, IsHold, IsFig
  <2> HIDE DEF fresh, row
  <2>4. Columns'
    BY <1>0, <2>1, <2>2, <2>3, OpenColumns, PutColumns
  <2> QED
    BY <1>0, <2>1, <2>4, SameTables, FilledStep DEF Lives
<1>15. CASE SetFXRate(w)
  <2>1. rate' = "manual" /\ UNCHANGED <<scene, hold, trade, nextHold, nextTrade, work>>
    BY <1>15 DEF SetFXRate
  <2>2. Columns'
    BY <1>0, <2>1 DEF Columns
  <2> QED
    BY <1>0, <2>1, <2>2, SameTables, FilledStep DEF Lives
<1>16. CASE EnsureRate(w)
  <2> DEFINE p == [Off EXCEPT !.pc = "setRate", !.saw = rate, !.sym = "derived"]
  <2>1. Local(w, p)
    BY <1>16 DEF EnsureRate
  <2>2. Fits(p) /\ p.live = FALSE
    BY OffFits DEF Fits, Off
  <2> HIDE DEF p
  <2> QED
    BY <2>1, <2>2, FilledLocal DEF Lives
<1> QED
  BY <1>1, <1>2, <1>3, <1>4, <1>5, <1>8, <1>9, <1>10, <1>12, <1>13, <1>14, <1>15, <1>16
     DEF Request, RefreshOne, RefreshAll

\* Every statement of a handler under way.
LEMMA StepFilled == ASSUME Inv, Filled, NEW w \in Workers, Step(w) PROVE Filled'
<1> DEFINE me == work[w]
           h == me.h
<1>0. /\ Columns /\ Shaped /\ IsLocal(me) /\ Fits(me) /\ me.then \in Thens
      /\ \A g \in HoldIds : IsHold(hold[g]) /\ Listed(hold[g])
      /\ 0 \notin HoldIds
  BY IdsAreNat, KnowsHead DEF Inv, Filled, Shaped, Columns
\* Writes of one column of a position, and what follows.
<1>1. ASSUME NEW g, NEW row, NEW p, Put(g, row), Set(w, p), g \in HoldIds => Listed(row),
             Fits(p), p.live => me.live, UNCHANGED <<scene, trade, nextHold, nextTrade, rate>>
      PROVE  Filled'
  <2>1. Columns'
    BY <1>0, <1>1, PutColumns
  <2> QED
    BY <1>1, <2>1, FilledStep DEF Lives
<1>2. ASSUME NEW p, Local(w, p), Fits(p), p.live => me.live PROVE Filled'
  BY <1>2, FilledLocal DEF Lives
<1>3. me.pc # "setRate" => Fits(Resume(me)) /\ (Resume(me).live => me.live)
  BY <1>0, ResumeFits DEF Fits
<1>4. ASSUME NEW g \in HoldIds
      PROVE  /\ \A x : LET r == [hold[g] EXCEPT !.price = x] IN Listed(r)
             /\ \A x : LET r == [hold[g] EXCEPT !.err = x] IN Listed(r)
             /\ \A x : IsFig(x) => LET r == [hold[g] EXCEPT !.fig = x] IN Listed(r)
  BY <1>0 DEF Listed, IsHold
<1>5. CASE ReplayStep(w)
  <2>0. me.pc = "replay"
    BY <1>5 DEF ReplayStep
  <2> DEFINE f == Figures(ReplayAll(Rows(trade, h)))
             p == [me EXCEPT !.pc = "lastPrice", !.fig = f]
  <2>1. Local(w, p)
    BY <1>5 DEF ReplayStep
  <2>2. IsFig(f)
    BY FigsAreFigs
  <2> HIDE DEF f
  <2>3. Fits(p) /\ p.live = me.live
    BY <1>0, <2>0, <2>2 DEF Fits, IsLocal
  <2> HIDE DEF p
  <2> QED
    BY <1>2, <2>1, <2>3
<1>6. CASE LastPrice(w)
  <2>0. me.pc = "lastPrice"
    BY <1>6 DEF LastPrice
  <2> DEFINE f == Valued(me.fig, hold[h].price)
             p == [me EXCEPT !.pc = "figures", !.fig = f]
  <2>1. Local(w, p)
    BY <1>0, <2>0, <1>6 DEF LastPrice, IsLocal
  <2>2. IsFig(f)
    BY <1>0, <2>0, FigsAreFigs DEF Fits
  <2> HIDE DEF f
  <2>3. Fits(p) /\ p.live = me.live
    BY <1>0, <2>0, <2>2 DEF Fits, IsLocal
  <2> HIDE DEF p
  <2> QED
    BY <1>2, <2>1, <2>3
<1>7. CASE WriteFigures(w)
  <2>0. me.pc = "figures"
    BY <1>7 DEF WriteFigures
  <2> DEFINE row == [hold[h] EXCEPT !.fig = me.fig]
  <2>1. Put(h, row) /\ Set(w, Resume(me)) /\ UNCHANGED <<scene, trade, nextHold, nextTrade, rate>>
    BY <1>7 DEF WriteFigures
  <2>2. h \in HoldIds => Listed(row)
    BY <1>0, <2>0, <1>4 DEF Fits
  <2> HIDE DEF row
  <2> QED
    BY <1>1, <1>3, <2>0, <2>1, <2>2
<1>8. CASE CountTrades(w)
  <2>0. me.pc = "priced"
    BY <1>8 DEF CountTrades
  <2> DEFINE c == IF Backed(h) THEN "replay" ELSE "revalue"
             p == [me EXCEPT !.pc = c, !.saw = Count(h)]
  <2>1. Local(w, p)
    BY <1>8 DEF CountTrades
  <2>2. c \in {"replay", "revalue"}
    OBVIOUS
  <2> HIDE DEF c
  <2>3. Fits(p) /\ p.live = me.live
    BY <1>0, <2>0, <2>2 DEF Fits, IsLocal
  <2> HIDE DEF p
  <2> QED
    BY <1>2, <2>1, <2>3
<1>9. CASE Revalue(w)
  <2>0. me.pc = "revalue"
    BY <1>9 DEF Revalue
  <2> DEFINE row == [hold[h] EXCEPT !.fig.value = IF hold[h].fig.units > 0 THEN me.bid.val * hold[h].fig.units ELSE @]
  <2>1. Put(h, row) /\ Set(w, Resume(me)) /\ UNCHANGED <<scene, trade, nextHold, nextTrade, rate>>
    BY <1>9 DEF Revalue
  <2>2. h \in HoldIds => Listed(row)
    BY <1>0, <2>0 DEF Listed, IsHold, IsFig
  <2> HIDE DEF row
  <2> QED
    BY <1>1, <1>3, <2>0, <2>1, <2>2
<1>10. CASE EditWrite(w)
  <2>0. me.pc = "edit"
    BY <1>10 DEF EditWrite
  <2> DEFINE f == me.fig
             row == [hold[h] EXCEPT !.fig = [@ EXCEPT !.units = f.units, !.cost = f.cost,
                                                     !.value = f.value, !.status = f.status]]
             p == Recompute(me, "symbol")
  <2>1. /\ me.pc = "edit" /\ UNCHANGED <<scene, trade, nextHold, nextTrade, rate>>
        /\ (Set(w, p) /\ UNCHANGED hold) \/ (Put(h, row) /\ Set(w, Resume(me)))
    BY <1>10 DEF EditWrite
  <2>2. h \in HoldIds => Listed(row)
    <3>1. IsFig(f)
      BY <1>0 DEF Fits
    <3> DEFINE r == hold[h]
               old == r.fig
               new == [old EXCEPT !.units = f.units, !.cost = f.cost, !.value = f.value, !.status = f.status]
               next == [r EXCEPT !.fig = new]
    <3> SUFFICES ASSUME h \in HoldIds PROVE Listed(next)
      OBVIOUS
    <3>2. Listed(r) /\ "fig" \in DOMAIN r
      BY <1>0 DEF Columns, Filled, Inv, Shaped, IsHold
    <3> HIDE DEF f, r
    <3>3. IsFig(new)
      BY <3>1, <3>2 DEF Listed, IsFig
    <3> HIDE DEF new
    <3>4. next.inst = r.inst /\ next.sym = r.sym /\ next.fig = new
      BY <3>2
    <3> HIDE DEF next
    <3> QED
      BY <3>2, <3>3, <3>4 DEF Listed
  <2>3. me.sym \in Symbols \cup {None} => Fits(p) /\ p.live = me.live
    BY <1>0, <2>0 DEF Fits, IsLocal, Recompute
  <2> HIDE DEF row, p
  <2>4. CASE Put(h, row) /\ Set(w, Resume(me))
    BY <1>1, <1>3, <2>0, <2>1, <2>2, <2>4
  <2>5. CASE Set(w, p) /\ UNCHANGED hold
    <3>1. me.sym \in Symbols \cup {None}
      BY <1>0, <2>0, <2>1 DEF Fits
    <3>2. Columns'
      BY <1>0, <2>0, <2>1, <2>5, SameColumns DEF tables
    <3> QED
      BY <2>3, <2>5, <3>1, <3>2, FilledStep DEF Lives
  <2> QED
    BY <2>1, <2>4, <2>5
<1>11. CASE EditSymbol(w)
  <2> DEFINE row == [hold[h] EXCEPT !.sym = me.sym, !.err = @ /\ hold[h].sym = me.sym]
  <2>1. Put(h, row) /\ Set(w, Off) /\ me.pc = "symbol" /\ UNCHANGED <<scene, trade, nextHold, nextTrade, rate>>
    BY <1>11 DEF EditSymbol
  <2>2. h \in HoldIds => Listed(row)
    BY <1>0, <2>1 DEF Listed, IsHold, Fits
  <2> HIDE DEF row
  <2> QED
    BY <1>1, <2>1, <2>2, OffFits
<1>13. CASE OpenForTrade(w)
  <2> DEFINE row == [NoHold EXCEPT !.inst = me.inst]
             p == Found(me, nextHold)
  <2>1. OpenHold(row) /\ Set(w, p) /\ me.pc = "open" /\ UNCHANGED <<scene, trade, nextTrade, rate>>
    BY <1>13 DEF OpenForTrade
  <2>2. me.inst \in Assets
    BY <2>1 DEF Inv, Knows, Relies
  <2>5. Listed(row)
    BY <2>2, FigsAreFigs DEF Listed, NoHold, Symbols
  <2>3. Fits(p) /\ p.live = me.live
    BY <1>0, <2>1 DEF Found, Fits, IsLocal
  <2> HIDE DEF row, p
  <2>4. Columns'
    BY <1>0, <2>1, <2>5, OpenColumns
  <2> QED
    BY <2>1, <2>3, <2>4, FilledStep DEF Lives
<1>14. CASE SnapshotCount(w)
  <2> DEFINE c == IF Backed(h) THEN "forward" ELSE "record"
             p == [me EXCEPT !.pc = c, !.saw = nextTrade]
  <2>1. Local(w, p) /\ me.pc = "count"
    BY <1>14 DEF SnapshotCount
  <2>2. c \in {"forward", "record"}
    OBVIOUS
  <2> HIDE DEF c
  <2>3. Fits(p) /\ p.live = me.live
    BY <1>0, <2>1, <2>2 DEF Fits, IsLocal
  <2> HIDE DEF p
  <2> QED
    BY <1>2, <2>1, <2>3
<1>15. CASE RecordTrade(w)
  <2> DEFINE row == [me.row EXCEPT !.of = me.h]
             c == IF me.bid = NoPrice THEN "idle" ELSE "forward"
             p == Recompute(me, c)
  <2>1. /\ me.pc = "record" /\ UNCHANGED <<scene, hold, nextHold, rate>>
        /\ \/ Exists(me.h) /\ InsertTrade(row) /\ Set(w, p)
           \/ UNCHANGED <<trade, nextTrade>> /\ (Set(w, p) \/ Set(w, Off))
    BY <1>15 DEF RecordTrade
  <2>2. c \in {"idle", "forward"}
    OBVIOUS
  <2> HIDE DEF c
  <2>3. Fits(p) /\ p.live = me.live
    BY <1>0, <2>1, <2>2 DEF Fits, IsLocal, Recompute
  <2>4. Dealt(me.row) /\ IsTrade(me.row)
    BY <1>0, <2>1 DEF Fits, IsLocal
  <2>5. Dealt(row) /\ row.of = me.h
    BY <2>4 DEF Dealt, IsTrade
  <2> HIDE DEF row, p
  <2>6. Columns'
    <3>1. CASE Exists(me.h) /\ InsertTrade(row)
      <4>1. row.of # 0
        BY <1>0, <2>5, <3>1 DEF Exists
      <4> QED
        BY <1>0, <2>1, <2>5, <3>1, <4>1, InsertColumns
    <3>2. CASE UNCHANGED <<trade, nextTrade>>
      BY <1>0, <2>1, <3>2, SameColumns DEF tables
    <3> QED
      BY <2>1, <3>1, <3>2
  <2> QED
    BY <2>1, <2>3, <2>6, OffFits, FilledStep DEF Lives
<1>16. CASE Forward(w)
  <2> DEFINE p == [me EXCEPT !.pc = "price", !.saw = hold[h].price]
  <2>1. Local(w, p) \/ Local(w, Off)
    BY <1>16 DEF Forward
  <2>0. me.pc = "forward"
    BY <1>16 DEF Forward
  <2>2. Fits(p) /\ p.live = me.live
    BY <1>0, <2>0 DEF Fits, IsLocal
  <2> HIDE DEF p
  <2> QED
    BY <1>2, <2>1, <2>2, OffFits
<1>17. CASE StatementPrice(w)
  <2> DEFINE row == [hold[h] EXCEPT !.price = me.bid]
             p == [me EXCEPT !.pc = "priced", !.then = "idle", !.saw = None]
  <2>1. Put(h, row) /\ Set(w, p) /\ UNCHANGED <<scene, trade, nextHold, nextTrade, rate>>
    BY <1>17 DEF StatementPrice
  <2>2. Fits(p) /\ p.live = me.live
    BY <1>0 DEF Fits, IsLocal
  <2>3. h \in HoldIds => Listed(row)
    BY <1>4
  <2> HIDE DEF row, p
  <2> QED
    BY <1>1, <2>1, <2>2, <2>3
<1>18. CASE SetRate(w)
  <2>1. rate' = me.sym /\ me.pc = "setRate" /\ Set(w, Off) /\ UNCHANGED <<scene, hold, trade, nextHold, nextTrade>>
    BY <1>18 DEF SetRate
  <2>2. rate' \in {"derived", "market"}
    BY <1>0, <2>1 DEF Fits
  <2>3. Columns'
    BY <1>0, <2>1, <2>2 DEF Columns
  <2> QED
    BY <2>1, <2>3, OffFits, FilledStep DEF Lives
<1>19. ASSUME NEW q, IsLocal(q), Fits(q), q.pc = "resolve", q.live = me.live
       PROVE  Fits(ToTrades(q)) /\ ToTrades(q).live = me.live
  BY <1>19 DEF ToTrades, Fits, IsLocal
<1>20. CASE ResolveSymbol(w)
  <2>0. me.pc = "resolve"
    BY <1>20 DEF ResolveSymbol
  <2> DEFINE g == Min(me.todo)
             next == [me EXCEPT !.todo = @ \ {g}]
             found == [next EXCEPT !.snap[g].sym = "auto"]
             row1 == [hold[g] EXCEPT !.sym = "auto", !.err = FALSE]
             row2 == [hold[g] EXCEPT !.err = TRUE]
  <2>1. /\ UNCHANGED <<scene, trade, nextHold, nextTrade, rate>>
        /\ \/ Put(g, row1) /\ Set(w, ToTrades(found))
           \/ Put(g, row2) /\ Set(w, ToTrades(next))
           \/ UNCHANGED hold /\ Set(w, ToTrades(next))
    BY <1>20 DEF ResolveSymbol
  <2> HIDE DEF g
  <2>2. IsLocal(next) /\ Fits(next) /\ next.pc = "resolve" /\ next.live = me.live
    BY <1>0, <2>0 DEF Fits, IsLocal
  <2> HIDE DEF next
  <2>3. IsLocal(found) /\ Fits(found) /\ found.pc = "resolve" /\ found.live = me.live
    BY <2>2 DEF Fits, IsLocal
  <2>4. g \in HoldIds => /\ Listed(row1)
                         /\ Listed(row2)
    BY <1>0, <2>0 DEF Listed, IsHold, Symbols
  <2> HIDE DEF found, row1, row2
  <2>5. Columns'
    BY <1>0, <2>0, <2>1, <2>4, PutColumns, SameColumns DEF tables
  <2>6. \E p : Set(w, p) /\ Fits(p) /\ p.live = me.live
    BY <1>19, <2>1, <2>2, <2>3
  <2> QED
    BY <2>5, <2>6, FilledStep DEF Lives
<1>21. CASE Backfill(w)
  <2>0. me.pc = "backfill"
    BY <1>21 DEF Backfill
  <2> DEFINE due == {t \in TradeIds : trade[t].of # 0 /\ trade[t].rate = None}
             load == [t \in due |-> trade[t]]
             p == [me EXCEPT !.pc = "tradeRate", !.due = load]
  <2>1. Local(w, p) \/ Local(w, ToPrices(me))
    BY <1>21 DEF Backfill
  <2>3. \A t \in DOMAIN load : load[t].day \in Days
    BY <1>0, <2>0 DEF Columns, Dealt, NoTrade
  <2> HIDE DEF load
  <2>2. Fits(p) /\ p.live = me.live
    BY <1>0, <2>0, <2>3 DEF Fits, IsLocal
  <2> HIDE DEF p
  <2> QED
    BY <1>0, <2>0, <1>2, <2>1, <2>2, PhaseFits DEF Fits
<1>22. CASE SetTradeRate(w)
  <2> DEFINE t == Min(DOMAIN me.due)
             old == me.due[t]
             rest == [u \in DOMAIN me.due \ {t} |-> me.due[u]]
             todo == IF DayRate[old.day] = 0 THEN me.todo ELSE me.todo \cup {old.of}
             next == [me EXCEPT !.due = rest, !.todo = todo]
             row == IF trade[t].of = 0 \/ DayRate[old.day] = 0 THEN trade[t]
                    ELSE [trade[t] EXCEPT !.rate = DayRate[old.day]]
  <2>1. /\ trade' = [trade EXCEPT ![t] = row] /\ UNCHANGED <<scene, hold, nextHold, nextTrade, rate>>
        /\ Set(w, IF DOMAIN rest = {} THEN ToTouched(next) ELSE next)
    BY <1>0, <1>22 DEF SetTradeRate, IsLocal
  <2>2. me.pc = "tradeRate" /\ t \in TradeIds /\ t \in DOMAIN me.due
    <3>1. me.pc = "tradeRate"
      BY <1>22 DEF SetTradeRate
    <3>2. DOMAIN me.due \in SUBSET Nat /\ DOMAIN me.due # {}
      BY <3>1, IdsAreNat DEF Inv, Knows, Relies
    <3>3. t \in DOMAIN me.due
      BY <3>2, LeastNatural
    <3> QED
      BY <3>1, <3>3 DEF Inv, Knows, Relies
  <2>3. old.day \in Days /\ DayRate[old.day] \in Nat
    BY <1>0, <2>2, HoldingsAssumption DEF Fits
  <2>4. IsFig(me.fig)
    BY <1>0 DEF Fits
  <2>5. IsLocal(next) /\ IsFig(next.fig) /\ next.live = me.live /\ next.pc = "tradeRate" /\ Fits(next)
    <3>1. \A u \in DOMAIN rest : rest[u].day \in Days
      BY <1>0, <2>2 DEF Fits
    <3> HIDE DEF rest, todo
    <3> QED
      BY <1>0, <2>2, <3>1 DEF Fits, IsLocal
  <2>6. row = NoTrade \/ (row.of # 0 /\ Dealt(row))
    <3>1. CASE trade[t].of = 0 \/ DayRate[old.day] = 0
      BY <1>0, <2>2, <3>1 DEF Columns
    <3>2. CASE trade[t].of # 0 /\ DayRate[old.day] # 0
      <4>1. Dealt(trade[t]) /\ IsTrade(trade[t])
        BY <1>0, <2>2, <3>2 DEF Columns, Shaped, NoTrade
      <4> QED
        BY <2>3, <3>2, <4>1 DEF Dealt, IsTrade
    <3> QED
      BY <3>1, <3>2
  <2>7. Columns'
    <3> HIDE DEF row
    <3> QED
      BY <1>0, <2>1, <2>2, <2>6, TradeColumns
  <2>8. Fits(ToTouched(next)) /\ ToTouched(next).live = me.live
    <3>1. next.then = "symbol" => next.sym \in Symbols \cup {None}
      BY <2>5 DEF Fits
    <3> HIDE DEF next
    <3> QED
      BY <2>5, <3>1, PhaseFits
  <2> HIDE DEF next, rest
  <2> QED
    BY <2>1, <2>5, <2>7, <2>8, FilledStep DEF Lives
<1>23. CASE RecomputeTouched(w)
  <2>0. me.pc = "touched"
    BY <1>23 DEF RecomputeTouched
  <2>1. \E g \in me.todo : Local(w, Recompute([me EXCEPT !.h = g, !.todo = @ \ {g}], "touched"))
    BY <1>23 DEF RecomputeTouched
  <2>2. \A g : LET p == Recompute([me EXCEPT !.h = g, !.todo = @ \ {g}], "touched")
               IN Fits(p) /\ p.live = me.live
    BY <1>0, <2>0 DEF Fits, IsLocal, Recompute
  <2> QED
    BY <1>2, <2>1, <2>2
<1>24. CASE Quote(w)
  <2>0. me.pc = "quote"
    BY <1>24 DEF Quote
  <2> DEFINE g == Min(me.todo)
             next == [me EXCEPT !.todo = @ \ {g}, !.h = g]
             price == Price("market", Now, Market)
             row1 == [hold[g] EXCEPT !.price = price]
             row2 == [hold[g] EXCEPT !.err = TRUE]
             p == [next EXCEPT !.pc = "priced", !.then = "quoted", !.bid = price]
  <2>1. /\ UNCHANGED <<scene, trade, nextHold, nextTrade, rate>>
        /\ \/ Put(g, row1) /\ Set(w, p)
           \/ Put(g, row2) /\ Set(w, NextPrice(next))
    BY <1>24 DEF Quote
  <2> HIDE DEF g, price
  <2>2. IsLocal(next) /\ Fits(next) /\ next.pc = "quote" /\ next.live = me.live
    BY <1>0, <2>0 DEF Fits, IsLocal
  <2> HIDE DEF next
  <2>3. Fits(p) /\ p.live = me.live
    BY <2>2 DEF Fits, IsLocal
  <2>4. Fits(NextPrice(next)) /\ NextPrice(next).live = me.live
    BY <2>2, PhaseFits DEF Fits
  <2>5. g \in HoldIds => /\ Listed(row1)
                         /\ Listed(row2)
    BY <1>4
  <2> HIDE DEF p, row1, row2
  <2> QED
    BY <1>1, <2>1, <2>3, <2>4, <2>5
<1>25. CASE Quoted(w)
  <2>0. me.pc = "quoted"
    BY <1>25 DEF Quoted
  <2> DEFINE row == [hold[h] EXCEPT !.err = FALSE]
             q == [me EXCEPT !.bid = NoPrice]
  <2>1. Put(h, row) /\ Set(w, NextPrice(q)) /\ UNCHANGED <<scene, trade, nextHold, nextTrade, rate>>
    BY <1>25 DEF Quoted
  <2>2. h \in HoldIds => Listed(row)
    BY <1>4
  <2>3. IsLocal(q) /\ Fits(q) /\ q.pc = "quoted" /\ q.live = me.live
    BY <1>0, <2>0, OffCalm DEF Fits, IsLocal, Off
  <2> HIDE DEF row, q
  <2>4. Fits(NextPrice(q)) /\ NextPrice(q).live = me.live
    BY <2>3, PhaseFits DEF Fits
  <2> QED
    BY <1>1, <2>1, <2>2, <2>4
<1>26. CASE Currencies(w)
  <2> DEFINE p == [me EXCEPT !.pc = "source"]
  <2>1. Local(w, p) \/ Local(w, Off)
    BY <1>26 DEF Currencies
  <2>0. me.pc = "currencies"
    BY <1>26 DEF Currencies
  <2>2. Fits(p) /\ p.live = me.live
    BY <1>0, <2>0 DEF Fits, IsLocal
  <2> HIDE DEF p
  <2> QED
    BY <1>2, <2>1, <2>2, OffFits
<1>27. CASE SetMarketRate(w)
  <2> DEFINE p == [me EXCEPT !.pc = "setRate", !.saw = rate, !.sym = "market"]
  <2>1. Local(w, p) \/ Local(w, Off)
    BY <1>27 DEF SetMarketRate
  <2>2. me.pc = "source" => Fits(p) /\ p.live = me.live
    BY <1>0 DEF Fits, IsLocal
  <2>3. me.pc = "source"
    BY <1>27 DEF SetMarketRate
  <2> HIDE DEF p
  <2> QED
    BY <1>2, <2>1, <2>2, <2>3, OffFits
<1> QED
  BY <1>5, <1>6, <1>7, <1>8, <1>9, <1>10, <1>11, <1>13, <1>14, <1>15, <1>16, <1>17, <1>18, <1>20, <1>21,
     <1>22, <1>23, <1>24, <1>25, <1>26, <1>27 DEF Step, Accounting

\* No handler stops or starts the process.
LEMMA HandlersKeepUp == ASSUME NEW w, Request(w) \/ Step(w) PROVE up' = up
<1>1. ASSUME NEW inst, NEW form, NEW sym, CreateInvestment(w, inst, form, sym) PROVE up' = up
  BY <1>1 DEF CreateInvestment
<1>2. ASSUME NEW h, NEW form, NEW sym, UpdateInvestment(w, h, form, sym) PROVE up' = up
  BY <1>2 DEF UpdateInvestment, Local
<1>3. ASSUME NEW h, DeleteInvestment(w, h) \/ Refresh(w, h) PROVE up' = up
  BY <1>3 DEF DeleteInvestment, Refresh, Local
<1>4. ASSUME NEW h, NEW day, SetInvestmentPrice(w, h, day) PROVE up' = up
  BY <1>4 DEF SetInvestmentPrice
<1>5. ASSUME NEW h, NEW day, NEW o, AddInvestmentTrade(w, h, day, o) \/ UpdateInvestmentTrade(w, h, day, o)
      PROVE  up' = up
  BY <1>5 DEF AddInvestmentTrade, UpdateInvestmentTrade
<1>6. ASSUME NEW t, DeleteInvestmentTrade(w, t) PROVE up' = up
  BY <1>6 DEF DeleteInvestmentTrade
<1>7. ASSUME NEW p, LookUp(w, p) PROVE up' = up
  BY <1>7 DEF LookUp, Local
<1>8. ASSUME NEW m, TradeMail(w, m) PROVE up' = up
  BY <1>7, <1>8 DEF TradeMail
<1>9. ASSUME NEW inst, NEW day, Statement(w, inst, day) PROVE up' = up
  BY <1>7, <1>9 DEF Statement
<1>10. ASSUME NEW form, ImportDeposit(w, form) PROVE up' = up
  BY <1>10 DEF ImportDeposit
<1>11. SetFXRate(w) \/ EnsureRate(w) \/ SetRate(w) => up' = up
  BY DEF SetFXRate, EnsureRate, SetRate, Local
<1>12. Accounting(w) => up' = up
  BY DEF Accounting, ReplayStep, LastPrice, WriteFigures, CountTrades, Revalue, Local
<1>13. EditWrite(w) \/ EditSymbol(w) \/ OpenForTrade(w) \/ SnapshotCount(w) \/ RecordTrade(w) => up' = up
  BY DEF EditWrite, EditSymbol, OpenForTrade, SnapshotCount, RecordTrade, Local
<1>14. Forward(w) \/ StatementPrice(w) \/ ResolveSymbol(w) \/ Backfill(w) \/ SetTradeRate(w) => up' = up
  BY DEF Forward, StatementPrice, ResolveSymbol, Backfill, SetTradeRate, Local
<1>15. RecomputeTouched(w) \/ Quote(w) \/ Quoted(w) \/ Currencies(w) \/ SetMarketRate(w) => up' = up
  BY DEF RecomputeTouched, Quote, Quoted, Currencies, SetMarketRate, Local
<1>16. Request(w) => up' = up
  BY <1>1, <1>2, <1>3, <1>4, <1>5, <1>6, <1>8, <1>9, <1>10, <1>11, Zenon DEF Request, RefreshOne, RefreshAll
<1>17. Step(w) => up' = up
  BY <1>11, <1>12, <1>13, <1>14, <1>15, Zenon DEF Step
<1> QED
  BY <1>16, <1>17

\* At the start there is nothing.
LEMMA InitFilled == Init => Filled
<1> SUFFICES ASSUME Init PROVE Filled
  OBVIOUS
<1>1. scene.holds \in Nat /\ scene.trades \in Nat
  BY HoldingsAssumption DEF Init
<1>2. Listed(NoHold)
  BY FigsAreFigs DEF Listed, NoHold, Symbols
<1>4. Columns
  BY <1>1, <1>2 DEF Init, Columns
<1>3. \A w \in Workers : work[w] = Off
  BY DEF Init
<1>5. OneRefresh /\ \A w \in Workers : Fits(work[w])
  BY <1>3, OffFits DEF OneRefresh
<1> QED
  BY <1>4, <1>5 DEF Filled

\* A crash and a restart leave the columns alone.
LEMMA NextFilled == Inv /\ Filled /\ [Next]_vars => Filled'
<1> SUFFICES ASSUME Inv, Filled, [Next]_vars PROVE Filled'
  OBVIOUS
<1>1. ASSUME NEW w \in Workers, Request(w) \/ Step(w) PROVE Filled'
  BY <1>1, RequestFilled, StepFilled
<1>2. ASSUME UNCHANGED <<scene, tables>>, work' = [w \in Workers |-> Off] PROVE Filled'
  <2>1. Columns'
    BY <1>2, SameColumns DEF Filled
  <2>2. \A w \in Workers : work'[w] = Off
    BY <1>2
  <2>3. OneRefresh' /\ \A w \in Workers : Fits(work'[w])
    BY <2>2, OffFits DEF OneRefresh
  <2> QED
    BY <2>1, <2>3 DEF Filled
<1>3. ASSUME UNCHANGED <<scene, tables, work>> PROVE Filled'
  <2>1. Columns'
    BY <1>3, SameColumns DEF Filled
  <2> QED
    BY <1>3, <2>1 DEF Filled, OneRefresh
<1> QED
  BY <1>1, <1>2, <1>3 DEF Next, Crash, Restart, vars

\* What the columns hold, from the start on.
THEOREM ColumnsFilled == Spec => [](Inv /\ Filled)
<1> QED
  BY Invariant, InitFilled, NextFilled, PTL DEF Spec

\* The invariant and what the columns hold make the state well typed.
LEMMA FilledIsTyped == Inv /\ Filled /\ up \in BOOLEAN => TypeOK
<1> SUFFICES ASSUME Inv, Filled, up \in BOOLEAN PROVE TypeOK
  OBVIOUS
<1>1. nextHold \in 1..scene.holds + 1 /\ nextTrade \in 1..scene.trades + 1
  BY HoldingsAssumption DEF Inv, Shaped, Filled, Columns
<1>2. \A h \in HoldIds : Exists(h) => /\ hold[h].inst \in Assets /\ hold[h].sym \in Symbols
                                      /\ hold[h].fig.status \in {"active", "closed"}
  BY DEF Inv, Shaped, Filled, Columns, Listed, IsHold, IsFig, Exists
<1>3. \A t \in TradeIds : trade[t] # NoTrade => Exists(trade[t].of) /\ trade[t].day \in Days
  BY DEF Inv, Ordinal, Filled, Columns, Dealt
<1>4. Cardinality({w \in Workers : work[w].live}) <= 1
  <2> DEFINE L == {w \in Workers : work[w].live}
  <2>1. L = {} \/ \E w : L = {w}
    <3>1. CASE \E w \in Workers : work[w].live
      <4>1. PICK w \in Workers : work[w].live
        BY <3>1
      <4>2. L = {w}
        BY <4>1 DEF Filled, OneRefresh
      <4> QED
        BY <4>2
    <3> QED
      BY <3>1
  <2> HIDE DEF L
  <2>2. L = {} => Cardinality(L) <= 1
    BY FS_EmptySet
  <2>3. ASSUME NEW w, L = {w} PROVE Cardinality(L) <= 1
    <3>1. Cardinality({w}) = 1
      BY FS_Singleton
    <3> QED
      BY <2>3, <3>1
  <2>4. Cardinality(L) <= 1
    BY <2>1, <2>2, <2>3
  <2> QED
    BY <2>4 DEF L
<1> QED
  BY <1>1, <1>2, <1>3, <1>4 DEF TypeOK, Inv, Shaped, Filled, Columns

\* The tables are well typed, every trade has its position, and one refresh runs at most.
THEOREM TypeCorrect == Spec => []TypeOK
<1>1. Init => up \in BOOLEAN
  BY DEF Init
<1>2. up \in BOOLEAN /\ [Next]_vars => (up \in BOOLEAN)'
  <2> SUFFICES ASSUME up \in BOOLEAN, [Next]_vars PROVE up' \in BOOLEAN
    OBVIOUS
  <2>1. CASE \E w \in Workers : Request(w) \/ Step(w)
    BY <2>1, HandlersKeepUp
  <2>2. CASE UNCHANGED vars
    BY <2>2 DEF vars
  <2>3. CASE Crash
    BY <2>3 DEF Crash
  <2>4. CASE Restart
    BY <2>4 DEF Restart
  <2> QED
    BY <2>1, <2>2, <2>3, <2>4 DEF Next
<1> QED
  BY <1>1, <1>2, ColumnsFilled, FilledIsTyped, PTL DEF Spec
-----------------------------------------------------------------------------
(* What a replay makes of trades.                                          *)

\* A table of trades, as ReplayAll is given it.
IsBook(T) == IsFiniteSet(DOMAIN T) /\ DOMAIN T \subseteq Nat /\ \A t \in DOMAIN T : Dealt(T[t])

\* By date and id something comes last, and only it.
LEMMA LastTrade ==
  ASSUME NEW T, IsBook(T), NEW S \in SUBSET DOMAIN T, S # {}
  PROVE  /\ LastOf(T, S) \in S /\ \A u \in S \ {LastOf(T, S)} : Before(T, u, LastOf(T, S))
         /\ \A t \in S : (\A u \in S \ {t} : Before(T, u, t)) => t = LastOf(T, S)
<1> DEFINE R == {e \in S \X S : Before(T, e[2], e[1])}
<1>0. \A t \in S : T[t].day \in Nat /\ t \in Nat
  BY HoldingsAssumption DEF IsBook, Dealt
<1>1. \A t, u \in S : <<t, u>> \in R <=> Before(T, u, t)
  OBVIOUS
<1>2. /\ \A t \in S : ~Before(T, t, t)
      /\ \A t, u, v \in S : Before(T, t, u) /\ Before(T, u, v) => Before(T, t, v)
      /\ \A t, u \in S : t # u => Before(T, t, u) \/ Before(T, u, t)
  BY <1>0 DEF Before
<1>3. IsFiniteSet(S)
  BY FS_Subset DEF IsBook
<1>4. StrictOrder(R, S)
  <2> HIDE DEF R
  <2> QED
    BY <1>1, <1>2 DEF StrictOrder
<1>5. PICK t \in S : \A u \in S \ {t} : <<t, u>> \in R
  <2> HIDE DEF R
  <2> QED
    BY <1>3, <1>4, FirstInOrder
<1>6. \A u \in S \ {t} : Before(T, u, t)
  BY <1>1, <1>5
<1>7. LastOf(T, S) \in S /\ \A u \in S \ {LastOf(T, S)} : Before(T, u, LastOf(T, S))
  BY <1>6 DEF LastOf
<1>8. ASSUME NEW v \in S, \A u \in S \ {v} : Before(T, u, v) PROVE v = LastOf(T, S)
  BY <1>2, <1>7, <1>8
<1> QED
  BY <1>7, <1>8

\* Which trade is the last depends on the trades alone.
LEMMA LastSame ==
  ASSUME NEW T, IsBook(T), NEW U, IsBook(U), NEW S \in SUBSET DOMAIN T, S \subseteq DOMAIN U,
         \A t \in S : T[t] = U[t], S # {}
  PROVE  LastOf(T, S) = LastOf(U, S)
<1> DEFINE l == LastOf(T, S)
<1>1. l \in S /\ \A u \in S \ {l} : Before(T, u, l)
  BY LastTrade
<1> HIDE DEF l
<1>2. \A u \in S \ {l} : Before(U, u, l)
  BY <1>1 DEF Before
<1>3. l = LastOf(U, S)
  BY <1>1, <1>2, LastTrade
<1> QED
  BY <1>3 DEF l

\* The recursive function of a replay.
IsReplay(g, T, D) ==
  g = [S \in SUBSET D |-> IF S = {} THEN Flat ELSE Replay(g[S \ {LastOf(T, S)}], T[LastOf(T, S)])]

\* Two replays of the same trades agree wherever both are defined.
LEMMA ReplayUnique ==
  ASSUME NEW T, IsBook(T), NEW D \in SUBSET DOMAIN T, NEW U, IsBook(U), NEW E \in SUBSET D, E \subseteq DOMAIN U,
         \A t \in E : T[t] = U[t], NEW g, IsReplay(g, T, D), NEW k, IsReplay(k, U, E)
  PROVE  \A S \in SUBSET E : g[S] = k[S]
<1> DEFINE B == {S \in SUBSET E : g[S] # k[S]}
<1>1. SUFFICES ASSUME B # {} PROVE FALSE
  OBVIOUS
<1>2. IsFiniteSet(E)
  BY FS_Subset DEF IsBook
<1>3. PICK S \in B : \A t \in B : t \subseteq S => t = S
  <2> HIDE DEF B
  <2>1. B \in SUBSET SUBSET E
    BY DEF B
  <2> QED
    BY <1>1, <1>2, <2>1, SmallestSet
<1>4. CASE S = {}
  BY <1>4 DEF IsReplay
<1>5. CASE S # {}
  <2> DEFINE l == LastOf(T, S)
  <2>1. l \in S /\ S \ {l} \subseteq S /\ S \ {l} # S /\ l = LastOf(U, S)
    <3>1. S \in SUBSET DOMAIN T /\ S \in SUBSET DOMAIN U /\ \A t \in S : T[t] = U[t]
      OBVIOUS
    <3> QED
      BY <1>5, <3>1, LastTrade, LastSame
  <2>2. g[S \ {l}] = k[S \ {l}]
    BY <1>3, <2>1
  <2>3. g[S] = Replay(g[S \ {l}], T[l])
    BY <1>5 DEF IsReplay
  <2>4. k[S] = Replay(k[S \ {l}], U[l])
    BY <1>5, <2>1 DEF IsReplay
  <2> QED
    BY <2>1, <2>2, <2>3, <2>4
<1> QED
  BY <1>4, <1>5

\* And there is one.
LEMMA ReplayExists ==
  ASSUME NEW T, IsBook(T)
  PROVE  \E g : IsReplay(g, T, DOMAIN T)
<1> DEFINE D == DOMAIN T
           B == {S \in SUBSET D : ~\E g : IsReplay(g, T, S)}
<1>0. IsFiniteSet(D)
  BY DEF IsBook
<1>1. SUFFICES ASSUME B # {} PROVE FALSE
  OBVIOUS
<1> HIDE DEF D
<1>2. PICK M \in B : \A S \in B : S \subseteq M => S = M
  <2> HIDE DEF B
  <2>1. B \in SUBSET SUBSET D
    BY DEF B
  <2> QED
    BY <1>0, <1>1, <2>1, SmallestSet
<1> DEFINE On(V) == CHOOSE g : IsReplay(g, T, V)
           Less(S) == S \ {LastOf(T, S)}
           G == [S \in SUBSET M |-> IF S = {} THEN Flat ELSE Replay(On(Less(S))[Less(S)], T[LastOf(T, S)])]
<1>3. ASSUME NEW V \in SUBSET M, V # M PROVE IsReplay(On(V), T, V)
  <2>1. \E g : IsReplay(g, T, V)
    BY <1>2, <1>3
  <2> QED
    BY <2>1
<1> HIDE DEF On
<1>4. ASSUME NEW S \in SUBSET M, S # {} PROVE LastOf(T, S) \in S /\ Less(S) \in SUBSET S /\ Less(S) # M
  BY <1>4, LastTrade DEF D
<1>5. ASSUME NEW V \in SUBSET M, V # M PROVE G[V] = On(V)[V]
  <2>1. CASE V = {}
    BY <1>3, <1>5, <2>1 DEF IsReplay
  <2>2. CASE V # {}
    <3> DEFINE W == Less(V)
    <3>1. W \in SUBSET V /\ W \in SUBSET M /\ W # M
      BY <1>4, <2>2
    <3>2. On(V)[V] = Replay(On(V)[W], T[LastOf(T, V)])
      BY <1>3, <1>5, <2>2 DEF IsReplay
    <3>3. On(V)[W] = On(W)[W]
      <4>1. IsReplay(On(V), T, V) /\ IsReplay(On(W), T, W)
        BY <1>3, <1>5, <3>1
      <4>2. V \in SUBSET DOMAIN T /\ W \subseteq DOMAIN T /\ W \in SUBSET W
        BY <3>1 DEF D
      <4> HIDE DEF W
      <4> QED
        BY <3>1, <4>1, <4>2, ReplayUnique
    <3>4. G[V] = Replay(On(W)[W], T[LastOf(T, V)])
      BY <2>2
    <3> QED
      BY <3>2, <3>3, <3>4
  <2> QED
    BY <2>1, <2>2
<1>6. ASSUME NEW S \in SUBSET M
      PROVE  G[S] = IF S = {} THEN Flat ELSE Replay(G[S \ {LastOf(T, S)}], T[LastOf(T, S)])
  <2>1. CASE S = {}
    BY <2>1
  <2>2. CASE S # {}
    <3>1. Less(S) \in SUBSET M /\ Less(S) # M
      BY <1>4, <2>2
    <3>2. G[S] = Replay(On(Less(S))[Less(S)], T[LastOf(T, S)])
      BY <2>2
    <3>3. G[Less(S)] = On(Less(S))[Less(S)]
      <4> HIDE DEF G, Less
      <4> QED
        BY <1>5, <3>1
    <3> QED
      BY <2>2, <3>2, <3>3
  <2> QED
    BY <2>1, <2>2
<1>7. G = [S \in SUBSET M |-> G[S]]
  OBVIOUS
<1>8. IsReplay(G, T, M)
  <2> HIDE DEF G
  <2> QED
    BY <1>6, <1>7 DEF IsReplay
<1> QED
  BY <1>2, <1>8

\* So that it is what ReplayAll returns.
LEMMA ReplayIs ==
  ASSUME NEW T, IsBook(T)
  PROVE  \E g : IsReplay(g, T, DOMAIN T) /\ ReplayAll(T) = g[DOMAIN T]
<1> DEFINE G == CHOOSE g : IsReplay(g, T, DOMAIN T)
<1>1. IsReplay(G, T, DOMAIN T)
  BY ReplayExists
<1>2. ReplayAll(T) = G[DOMAIN T]
  BY Zenon DEF ReplayAll, IsReplay
<1> HIDE DEF G
<1> QED
  BY <1>1, <1>2, Zenon

\* The replay of part of the trades is a stage of the replay of all of them.
LEMMA ReplayOfPart ==
  ASSUME NEW T, IsBook(T), NEW g, IsReplay(g, T, DOMAIN T), NEW S \in SUBSET DOMAIN T
  PROVE  ReplayAll([t \in S |-> T[t]]) = g[S]
<1> DEFINE U == [t \in S |-> T[t]]
<1>1. IsBook(U) /\ DOMAIN U = S /\ \A t \in S : U[t] = T[t]
  BY FS_Subset DEF IsBook
<1> HIDE DEF U
<1>2. PICK k : IsReplay(k, U, S) /\ ReplayAll(U) = k[S]
  BY <1>1, ReplayIs
<1>3. \A V \in SUBSET S : g[V] = k[V]
  <2>1. DOMAIN T \in SUBSET DOMAIN T /\ S \subseteq DOMAIN U /\ \A t \in S : T[t] = U[t]
    BY <1>1
  <2> QED
    BY <1>1, <1>2, <2>1, ReplayUnique
<1>4. g[S] = k[S]
  BY <1>3
<1> QED
  BY <1>2, <1>4 DEF U

\* The share of a cost is no more than the cost, and the whole of it is all of it.
LEMMA ShareOfCost ==
  ASSUME NEW c \in Nat, NEW m \in Nat \ {0}, NEW u \in Nat \ {0}, m <= u
  PROVE  /\ (c * m) \div u \in Nat /\ (c * m) \div u <= c
         /\ (c * u) \div u = c
  OBVIOUS

\* A position, and one that owes nothing.
IsPos(p) ==
  /\ DOMAIN p = {"units", "cost", "inr", "gain", "gainInr", "known", "sold"}
  /\ p.units \in Int /\ p.cost \in Int /\ p.gain \in Int
Sound(p) == p.units >= 0 /\ p.cost >= 0 /\ (p.units = 0 => p.cost = 0)

\* A buy adds its units and what it cost.
LEMMA ReplayBuy ==
  ASSUME NEW p, IsPos(p), NEW t, Dealt(t), t.side = "buy"
  PROVE  LET q == Replay(p, t) IN
         /\ IsPos(q) /\ q.units = p.units + t.shares
         /\ q.cost = p.cost + t.amt /\ q.gain = p.gain
<1> DEFINE r == IF t.rate = None THEN 0 ELSE t.rate
           k == p.known /\ t.rate # None
           s == p.sold \/ t.side # "buy"
           q == [p EXCEPT !.known = k, !.sold = s]
           n == q.inr + t.amt * r
           z == [q EXCEPT !.units = @ + t.shares, !.cost = @ + t.amt, !.inr = n]
<1>1. Replay(p, t) = [q EXCEPT !.units = @ + t.shares, !.cost = @ + t.amt, !.inr = @ + t.amt * r]
  BY DEF Replay, IsPos
<1>2. IsPos(q) /\ q.units = p.units /\ q.cost = p.cost /\ q.gain = p.gain
  <2> HIDE DEF k, s
  <2> QED
    BY DEF IsPos
<1> HIDE DEF q, r
<1>3. Replay(p, t) = z
  BY <1>1, <1>2 DEF IsPos
<1>4. t.shares \in Int /\ t.amt \in Int
  BY DEF Dealt
<1> HIDE DEF n
<1> QED
  BY <1>2, <1>3, <1>4 DEF IsPos

\* A sale takes its units; if there are some and they are all there, the cost it takes away comes back
\* with the gain, and nothing is left of a position sold out.
LEMMA ReplaySell ==
  ASSUME NEW p, IsPos(p), NEW t, Dealt(t), t.side = "sell"
  PROVE  LET q == Replay(p, t) IN
         /\ IsPos(q) /\ q.units = p.units - t.shares
         /\ Sound(p) /\ t.shares > 0 /\ t.shares <= p.units =>
              Sound(q) /\ q.cost + t.amt - q.gain = p.cost - p.gain
<1> DEFINE r == IF t.rate = None THEN 0 ELSE t.rate
           m == Lesser(t.shares, p.units)
           cost == (p.cost * m) \div p.units
           inr == (p.inr * m) \div p.units
           got == (t.amt * m) \div t.shares
           k == p.known /\ t.rate # None
           s == p.sold \/ t.side # "buy"
           q == [p EXCEPT !.known = k, !.sold = s]
           i == q.inr - inr
           j == q.gainInr + got * r - inr
           x == [q EXCEPT !.units = @ - t.shares]
           y == [q EXCEPT !.units = @ - t.shares, !.cost = @ - cost, !.inr = i, !.gain = @ + got - cost, !.gainInr = j]
<1>1. Replay(p, t) = IF m <= 0 THEN x
                     ELSE [q EXCEPT !.units = @ - t.shares, !.cost = @ - cost, !.inr = @ - inr,
                                    !.gain = @ + got - cost, !.gainInr = @ + got * r - inr]
  BY DEF Replay, IsPos
<1>2. IsPos(q) /\ q.units = p.units /\ q.cost = p.cost /\ q.gain = p.gain
  <2> HIDE DEF k, s
  <2> QED
    BY DEF IsPos
<1>3. t.shares \in Nat /\ t.amt \in Nat /\ p.units \in Int /\ p.cost \in Int /\ m \in Int
  BY DEF Dealt, IsPos, Lesser
<1> HIDE DEF q, r, inr
<1>4. CASE m <= 0
  <2>1. ~(t.shares > 0 /\ t.shares <= p.units)
    BY <1>3, <1>4 DEF Lesser
  <2> HIDE DEF m
  <2>2. Replay(p, t) = x
    BY <1>1, <1>4
  <2> QED
    BY <1>2, <1>3, <2>1, <2>2 DEF IsPos
<1>5. CASE ~(m <= 0)
  <2>1. p.units \in Nat \ {0} /\ m \in Nat \ {0} /\ m <= p.units /\ t.shares # 0
    BY <1>3, <1>5 DEF Lesser
  <2>2. cost \in Int /\ got \in Int
    <3> HIDE DEF m
    <3> QED
      BY <1>3, <2>1
  <2>3. Sound(p) /\ t.shares > 0 /\ t.shares <= p.units =>
          m = t.shares /\ got = t.amt /\ cost \in Nat /\ cost <= p.cost /\ (m = p.units => cost = p.cost)
    <3> SUFFICES ASSUME Sound(p), t.shares > 0, t.shares <= p.units
                 PROVE  m = t.shares /\ got = t.amt /\ cost \in Nat /\ cost <= p.cost /\ (m = p.units => cost = p.cost)
      OBVIOUS
    <3>1. m = t.shares /\ p.cost \in Nat
      BY <1>3 DEF Lesser, Sound
    <3> HIDE DEF m
    <3>2. got = t.amt
      BY <1>3, <3>1, ShareOfCost
    <3>3. cost \in Nat /\ cost <= p.cost
      BY <2>1, <3>1, ShareOfCost
    <3>4. m = p.units => cost = p.cost
      BY <2>1, <3>1, ShareOfCost
    <3> QED
      BY <3>1, <3>2, <3>3, <3>4
  <2> HIDE DEF m, cost, got
  <2>4. Replay(p, t) = y
    BY <1>1, <1>2, <1>5 DEF IsPos
  <2> HIDE DEF i, j
  <2>5. /\ DOMAIN y = DOMAIN q /\ y.units = p.units - t.shares /\ y.cost = p.cost - cost
        /\ y.gain = p.gain + got - cost
    BY <1>2 DEF IsPos
  <2> HIDE DEF y
  <2>6. IsPos(y)
    BY <1>2, <1>3, <2>2, <2>5 DEF IsPos
  <2>7. Sound(p) /\ t.shares > 0 /\ t.shares <= p.units => Sound(y)
    <3> SUFFICES ASSUME Sound(p), t.shares > 0, t.shares <= p.units PROVE Sound(y)
      OBVIOUS
    <3>1. y.units >= 0
      BY <1>3, <2>5
    <3>2. y.cost >= 0
      BY <1>3, <2>3, <2>5
    <3>3. y.units = 0 => y.cost = 0
      BY <1>3, <2>3, <2>5
    <3> QED
      BY <3>1, <3>2, <3>3 DEF Sound
  <2>8. Sound(p) /\ t.shares > 0 /\ t.shares <= p.units => y.cost + t.amt - y.gain = p.cost - p.gain
    BY <1>3, <2>3, <2>5 DEF IsPos
  <2> QED
    BY <2>4, <2>5, <2>6, <2>7, <2>8
<1> QED
  BY <1>4, <1>5

\* Sums of units and amounts over one side of some trades.
On(T, S, side) == {t \in S : T[t].side = side}
Units(T, S, side) == Sigma([t \in On(T, S, side) |-> T[t].shares], On(T, S, side))
Money(T, S, side) == Sigma([t \in On(T, S, side) |-> T[t].amt], On(T, S, side))

\* Of no trades there is nothing.
LEMMA SidesOfNone == ASSUME NEW T, NEW side PROVE Units(T, {}, side) = 0 /\ Money(T, {}, side) = 0
<1>1. On(T, {}, side) = {}
  BY DEF On
<1> QED
  BY <1>1, SigmaEmpty DEF Units, Money

\* Sums of units and amounts are integers.
LEMMA SidesType ==
  ASSUME NEW T, IsBook(T), NEW S \in SUBSET DOMAIN T, NEW side
  PROVE  Units(T, S, side) \in Int /\ Money(T, S, side) \in Int
<1> DEFINE A == On(T, S, side)
           f == [t \in A |-> T[t].shares]
           g == [t \in A |-> T[t].amt]
<1>1. IsFiniteSet(A) /\ A \subseteq S
  BY FS_Subset DEF IsBook, On
<1>2. \A t \in A : f[t] \in Int /\ g[t] \in Int
  BY <1>1 DEF IsBook, Dealt
<1>3. Sigma(f, A) \in Int /\ Sigma(g, A) \in Int
  <2> HIDE DEF A, f, g
  <2> QED
    BY <1>1, <1>2, SigmaType
<1> QED
  BY <1>3 DEF Units, Money

\* One trade more adds to its own side only.
LEMMA SidesOfMore ==
  ASSUME NEW T, IsBook(T), NEW S \in SUBSET DOMAIN T, NEW l \in S, NEW side
  PROVE  /\ T[l].side = side => /\ Units(T, S, side) = T[l].shares + Units(T, S \ {l}, side)
                                /\ Money(T, S, side) = T[l].amt + Money(T, S \ {l}, side)
         /\ T[l].side # side => /\ Units(T, S, side) = Units(T, S \ {l}, side)
                                /\ Money(T, S, side) = Money(T, S \ {l}, side)
<1> DEFINE A == On(T, S, side)
           B == On(T, S \ {l}, side)
           f == [t \in A |-> T[t].shares]
           g == [t \in A |-> T[t].amt]
           ff == [t \in B |-> T[t].shares]
           gg == [t \in B |-> T[t].amt]
<1>1. IsFiniteSet(A) /\ IsFiniteSet(B) /\ A \subseteq S /\ B \subseteq A
  BY FS_Subset DEF IsBook, On
<1>2. \A t \in A : f[t] \in Int /\ g[t] \in Int
  BY <1>1 DEF IsBook, Dealt
<1>3. \A t \in B : f[t] = ff[t] /\ g[t] = gg[t]
  BY <1>1
<1>4. Sigma(f, B) = Sigma(ff, B) /\ Sigma(g, B) = Sigma(gg, B)
  <2> HIDE DEF B, f, ff, g, gg
  <2> QED
    BY <1>1, <1>3, SigmaSame
<1>6. CASE T[l].side = side
  <2>1. l \in A /\ B = A \ {l} /\ f[l] = T[l].shares /\ g[l] = T[l].amt
    BY <1>6 DEF On
  <2>2. Sigma(f, A) = f[l] + Sigma(f, A \ {l}) /\ Sigma(g, A) = g[l] + Sigma(g, A \ {l})
    <3> HIDE DEF A, f, g
    <3> QED
      BY <1>1, <1>2, <2>1, SigmaTake
  <2> QED
    BY <1>4, <1>6, <2>1, <2>2 DEF Units, Money
<1>7. CASE T[l].side # side
  <2>1. A = B
    BY <1>7 DEF On
  <2> QED
    BY <1>7, <2>1 DEF Units, Money
<1> QED
  BY <1>6, <1>7

\* The trades up to one of them.
UpTo(T, t) == {u \in DOMAIN T : u = t \/ Before(T, u, t)}

\* What the buys cost is in the position or came back with the sales, less the gain.
Conserves(T, S, p) ==
  /\ p.cost + Money(T, S, "sell") - p.gain = Money(T, S, "buy")
  /\ Sound(p)

\* The units of a position are those bought less those sold, whatever the order.
LEMMA UnitsConserved ==
  ASSUME NEW T, IsBook(T), NEW g, IsReplay(g, T, DOMAIN T), NEW S \in SUBSET DOMAIN T
  PROVE  IsPos(g[S]) /\ g[S].units = Units(T, S, "buy") - Units(T, S, "sell")
<1> DEFINE Balanced(V) == IsPos(g[V]) /\ g[V].units = Units(T, V, "buy") - Units(T, V, "sell")
           B == {V \in SUBSET DOMAIN T : ~Balanced(V)}
<1>1. SUFFICES ASSUME B # {} PROVE FALSE
  OBVIOUS
<1>2. PICK V \in B : \A t \in B : t \subseteq V => t = V
  <2> HIDE DEF B
  <2>1. B \in SUBSET SUBSET DOMAIN T /\ IsFiniteSet(DOMAIN T)
    BY DEF B, IsBook
  <2> QED
    BY <1>1, <2>1, SmallestSet
<1>3. CASE V = {}
  <2>1. g[V] = Flat
    BY <1>3 DEF IsReplay
  <2>2. IsPos(Flat) /\ Flat.units = 0
    BY DEF Flat, IsPos
  <2>3. Balanced(V)
    BY <1>3, <2>1, <2>2, SidesOfNone
  <2> QED
    BY <2>3
<1>4. CASE V # {}
  <2> DEFINE l == LastOf(T, V)
             W == V \ {l}
  <2>1. l \in V /\ W \in SUBSET DOMAIN T /\ W \subseteq V /\ W # V
    BY <1>4, LastTrade
  <2>2. Balanced(W)
    BY <1>2, <2>1
  <2>3. g[V] = Replay(g[W], T[l])
    BY <1>4 DEF IsReplay
  <2>4. Dealt(T[l])
    BY <2>1 DEF IsBook
  <2>5. Units(T, W, "buy") \in Int /\ Units(T, W, "sell") \in Int /\ T[l].shares \in Int
    BY <2>1, <2>4, SidesType DEF Dealt
  <2>6. /\ T[l].side = "buy" => /\ Units(T, V, "buy") = T[l].shares + Units(T, W, "buy")
                                /\ Units(T, V, "sell") = Units(T, W, "sell")
        /\ T[l].side = "sell" => /\ Units(T, V, "sell") = T[l].shares + Units(T, W, "sell")
                                 /\ Units(T, V, "buy") = Units(T, W, "buy")
    <3> HIDE DEF l
    <3>1. V \in SUBSET DOMAIN T /\ l \in V
      BY <2>1
    <3>2. /\ T[l].side = "buy" => Units(T, V, "buy") = T[l].shares + Units(T, W, "buy")
          /\ T[l].side # "buy" => Units(T, V, "buy") = Units(T, W, "buy")
      BY <3>1, SidesOfMore
    <3>3. /\ T[l].side = "sell" => Units(T, V, "sell") = T[l].shares + Units(T, W, "sell")
          /\ T[l].side # "sell" => Units(T, V, "sell") = Units(T, W, "sell")
      BY <3>1, SidesOfMore
    <3> QED
      BY <3>2, <3>3
  <2> HIDE DEF W, l
  <2>7. CASE T[l].side = "buy"
    <3>1. IsPos(g[V]) /\ g[V].units = g[W].units + T[l].shares
      BY <2>2, <2>3, <2>4, <2>7, ReplayBuy
    <3> QED
      BY <2>2, <2>5, <2>6, <2>7, <3>1
  <2>8. CASE T[l].side = "sell"
    <3>1. IsPos(g[V]) /\ g[V].units = g[W].units - T[l].shares
      BY <2>2, <2>3, <2>4, <2>8, ReplaySell
    <3> QED
      BY <2>2, <2>5, <2>6, <2>8, <3>1
  <2> QED
    BY <2>4, <2>7, <2>8 DEF Dealt
<1> QED
  BY <1>3, <1>4

\* So long as every trade has units and no sale meets less than it sells, money is
\* conserved as well.
LEMMA MoneyConserved ==
  ASSUME NEW T, IsBook(T), NEW g, IsReplay(g, T, DOMAIN T),
         \A t \in DOMAIN T : T[t].shares > 0,
         \A t \in On(T, DOMAIN T, "sell") : ~(g[UpTo(T, t)].units < 0)
  PROVE  Conserves(T, DOMAIN T, g[DOMAIN T])
<1> DEFINE Closed(V) == \A t \in V : UpTo(T, t) \subseteq V
           B == {V \in SUBSET DOMAIN T : Closed(V) /\ ~Conserves(T, V, g[V])}
<1>0. Closed(DOMAIN T)
  BY DEF UpTo
<1>1. SUFFICES ASSUME B # {} PROVE FALSE
  BY <1>0
<1>2. PICK V \in B : \A t \in B : t \subseteq V => t = V
  <2> HIDE DEF B
  <2>1. B \in SUBSET SUBSET DOMAIN T /\ IsFiniteSet(DOMAIN T)
    BY DEF B, IsBook
  <2> QED
    BY <1>1, <2>1, SmallestSet
<1>3. CASE V = {}
  <2>1. g[V] = Flat
    BY <1>3 DEF IsReplay
  <2>2. Sound(Flat) /\ Flat.cost = 0 /\ Flat.gain = 0
    BY DEF Flat, Sound
  <2>3. Conserves(T, V, g[V])
    BY <1>3, <2>1, <2>2, SidesOfNone DEF Conserves
  <2> QED
    BY <2>3
<1>4. CASE V # {}
  <2> DEFINE l == LastOf(T, V)
             W == V \ {l}
             p == g[W]
             q == g[V]
  <2>1. /\ l \in V /\ W \in SUBSET DOMAIN T /\ W \subseteq V /\ W # V
        /\ \A u \in V \ {l} : Before(T, u, l)
    BY <1>4, LastTrade
  <2>2. V = UpTo(T, l)
    <3>1. UpTo(T, l) \subseteq V
      BY <2>1
    <3>2. \A u \in V : u \in UpTo(T, l)
      BY <2>1 DEF UpTo
    <3> QED
      BY <3>1, <3>2
  <2>3. Conserves(T, W, p)
    <3>1. Closed(W)
      <4> SUFFICES ASSUME NEW t \in W, NEW u \in UpTo(T, t) PROVE u \in W
        OBVIOUS
      <4>1. u \in V /\ t # l /\ Before(T, t, l)
        BY <2>1
      <4>2. u = t \/ Before(T, u, t)
        BY DEF UpTo
      <4>3. \A x \in V : x \in Nat /\ T[x].day \in Nat
        BY HoldingsAssumption DEF IsBook, Dealt
      <4>4. u # l
        BY <4>1, <4>2, <4>3, <2>1 DEF Before
      <4> QED
        BY <4>1, <4>4
    <3> QED
      BY <1>2, <2>1, <3>1
  <2>4. q = Replay(p, T[l])
    BY <1>4 DEF IsReplay
  <2>5. Dealt(T[l]) /\ T[l].shares \in Nat /\ T[l].shares > 0 /\ T[l].amt \in Nat
    BY <2>1 DEF IsBook, Dealt
  <2>6. /\ T[l].side = "buy" => /\ Money(T, V, "buy") = T[l].amt + Money(T, W, "buy")
                                /\ Money(T, V, "sell") = Money(T, W, "sell")
        /\ T[l].side = "sell" => /\ Money(T, V, "sell") = T[l].amt + Money(T, W, "sell")
                                 /\ Money(T, V, "buy") = Money(T, W, "buy")
    <3> HIDE DEF l
    <3>1. V \in SUBSET DOMAIN T /\ l \in V
      BY <2>1
    <3>2. /\ T[l].side = "buy" => Money(T, V, "buy") = T[l].amt + Money(T, W, "buy")
          /\ T[l].side # "buy" => Money(T, V, "buy") = Money(T, W, "buy")
      BY <3>1, SidesOfMore
    <3>3. /\ T[l].side = "sell" => Money(T, V, "sell") = T[l].amt + Money(T, W, "sell")
          /\ T[l].side # "sell" => Money(T, V, "sell") = Money(T, W, "sell")
      BY <3>1, SidesOfMore
    <3> QED
      BY <3>2, <3>3
  <2>7. Money(T, W, "buy") \in Int /\ Money(T, W, "sell") \in Int
    BY <2>1, SidesType
  <2>8. IsPos(p)
    BY <2>1, UnitsConserved
  <2>9. T[l].side = "sell" => ~(q.units < 0)
    BY <2>1, <2>2 DEF On
  <2>10. ~Conserves(T, V, q)
    BY <1>2
  <2> HIDE DEF W, l, p, q
  <2>11. CASE T[l].side = "buy"
    <3>1. IsPos(q) /\ q.units = p.units + T[l].shares /\ q.cost = p.cost + T[l].amt /\ q.gain = p.gain
      BY <2>4, <2>5, <2>8, <2>11, ReplayBuy
    <3>2. Sound(q)
      BY <2>3, <2>5, <2>8, <3>1 DEF Sound, IsPos, Conserves
    <3>3. q.cost + Money(T, V, "sell") - q.gain = Money(T, V, "buy")
      BY <2>3, <2>5, <2>6, <2>7, <2>8, <2>11, <3>1 DEF IsPos, Conserves
    <3> QED
      BY <2>10, <3>2, <3>3 DEF Conserves
  <2>12. CASE T[l].side = "sell"
    <3>1. q.units = p.units - T[l].shares
      BY <2>4, <2>5, <2>8, <2>12, ReplaySell
    <3>2. T[l].shares <= p.units
      BY <2>5, <2>8, <2>9, <2>12, <3>1 DEF IsPos
    <3>3. IsPos(q) /\ Sound(q) /\ q.cost + T[l].amt - q.gain = p.cost - p.gain
      BY <2>3, <2>4, <2>5, <2>8, <2>12, <3>2, ReplaySell DEF Conserves
    <3>4. q.cost + Money(T, V, "sell") - q.gain = Money(T, V, "buy")
      <4>1. Money(T, V, "sell") = T[l].amt + Money(T, W, "sell") /\ Money(T, V, "buy") = Money(T, W, "buy")
        BY <2>6, <2>12
      <4>2. p.cost + Money(T, W, "sell") - p.gain = Money(T, W, "buy")
        BY <2>3 DEF Conserves
      <4>3. p.cost \in Int /\ p.gain \in Int /\ q.cost \in Int /\ q.gain \in Int
        BY <2>8, <3>3 DEF IsPos
      <4>4. T[l].amt \in Nat /\ q.cost + T[l].amt - q.gain = p.cost - p.gain
        BY <2>5, <3>3
      <4>5. q.cost - q.gain = p.cost - p.gain - T[l].amt
        BY <4>3, <4>4
      <4>6. p.cost - p.gain = Money(T, W, "buy") - Money(T, W, "sell")
        BY <2>7, <4>2, <4>3
      <4>7. q.cost - q.gain = Money(T, V, "buy") - Money(T, V, "sell")
        BY <2>7, <4>1, <4>4, <4>5, <4>6
      <4> QED
        BY <2>7, <4>1, <4>3, <4>4, <4>7
    <3> QED
      BY <2>10, <3>3, <3>4 DEF Conserves
  <2> QED
    BY <2>5, <2>11, <2>12 DEF Dealt
<1> QED
  BY <1>3, <1>4

\* The trades of a position make a book.
LEMMA RowsAreBook ==
  ASSUME Inv, Filled, NEW h \in HoldIds
  PROVE  LET T == Rows(trade, h) IN
         IsBook(T) /\ DOMAIN T = Of(trade, h) /\ \A t \in DOMAIN T : T[t] = trade[t]
<1> DEFINE T == Rows(trade, h)
<1>1. DOMAIN T = Of(trade, h) /\ \A t \in DOMAIN T : T[t] = trade[t]
  BY DEF Rows
<1> HIDE DEF T
<1>2. IsFiniteSet(TradeIds)
  <2>1. MaxTrades \in Int
    BY HoldingsAssumption
  <2> QED
    BY <2>1, FS_Interval DEF TradeIds
<1>3. Of(trade, h) \subseteq TradeIds
  BY DEF Of
<1>4. IsFiniteSet(DOMAIN T) /\ DOMAIN T \subseteq Nat
  BY <1>1, <1>2, <1>3, FS_Subset, IdsAreNat
<1>5. \A t \in Of(trade, h) : Dealt(trade[t])
  BY IdsAreNat DEF Filled, Columns, Of, NoTrade
<1> QED
  BY <1>1, <1>4, <1>5 DEF IsBook, T

\* The sum of the units of some trades is a sum.
LEMMA SharesAreSum ==
  ASSUME NEW S, IsFiniteSet(S)
  PROVE  MapThenSumSet(LAMBDA t : trade[t].shares, S) = Sigma([t \in S |-> trade[t].shares], S)
<1> DEFINE f == [t \in S |-> trade[t].shares]
           Sums(k) == k = [s \in SUBSET S |-> IF s = {} THEN 0
                  ELSE LET x == CHOOSE x \in s : TRUE IN trade[x].shares + k[s \ {x}]]
           G == CHOOSE k : Sums(k)
<1>1. MapThenSumSet(LAMBDA t : trade[t].shares, S) = G[S]
  BY Zenon DEF MapThenSumSet, MapThenFoldSet
<1>2. PICK g : IsFold(g, f, S) /\ Sigma(f, S) = g[S]
  BY SigmaFold
<1>3. \A k : Sums(k) <=> IsFold(k, f, S)
  <2>1. \A s \in SUBSET S : s # {} => f[Pick(s)] = trade[Pick(s)].shares
    BY PickIn
  <2> QED
    BY <2>1 DEF IsFold, Pick
<1>4. IsFold(G, f, S)
  <2> HIDE DEF Sums, f
  <2> QED
    BY <1>2, <1>3, Zenon
<1>5. S \in SUBSET S /\ \A t \in S : f[t] = f[t]
  OBVIOUS
<1>6. \A s \in SUBSET S : g[s] = G[s]
  <2> HIDE DEF G, f
  <2> QED
    BY <1>2, <1>4, <1>5, FoldUnique
<1>7. g[S] = G[S]
  BY <1>5, <1>6
<1> QED
  BY <1>1, <1>2, <1>7

\* So is the sum of their amounts.
LEMMA AmountsAreSum ==
  ASSUME NEW S, IsFiniteSet(S)
  PROVE  MapThenSumSet(LAMBDA t : trade[t].amt, S) = Sigma([t \in S |-> trade[t].amt], S)
<1> DEFINE f == [t \in S |-> trade[t].amt]
           Sums(k) == k = [s \in SUBSET S |-> IF s = {} THEN 0
                  ELSE LET x == CHOOSE x \in s : TRUE IN trade[x].amt + k[s \ {x}]]
           G == CHOOSE k : Sums(k)
<1>1. MapThenSumSet(LAMBDA t : trade[t].amt, S) = G[S]
  BY Zenon DEF MapThenSumSet, MapThenFoldSet
<1>2. PICK g : IsFold(g, f, S) /\ Sigma(f, S) = g[S]
  BY SigmaFold
<1>3. \A k : Sums(k) <=> IsFold(k, f, S)
  <2>1. \A s \in SUBSET S : s # {} => f[Pick(s)] = trade[Pick(s)].amt
    BY PickIn
  <2> QED
    BY <2>1 DEF IsFold, Pick
<1>4. IsFold(G, f, S)
  <2> HIDE DEF Sums, f
  <2> QED
    BY <1>2, <1>3, Zenon
<1>5. S \in SUBSET S /\ \A t \in S : f[t] = f[t]
  OBVIOUS
<1>6. \A s \in SUBSET S : g[s] = G[s]
  <2> HIDE DEF G, f
  <2> QED
    BY <1>2, <1>4, <1>5, FoldUnique
<1>7. g[S] = G[S]
  BY <1>5, <1>6
<1> QED
  BY <1>1, <1>2, <1>7

\* The property follows for every position from what its columns hold.
LEMMA FilledConserves == Inv /\ Filled => ReplayConserves
<1> SUFFICES ASSUME Inv, Filled PROVE ReplayConserves
  OBVIOUS
<1>1. ASSUME NEW h \in HoldIds
      PROVE  LET p == ReplayAll(Rows(trade, h))
                 Shares(t) == trade[t].shares
                 Amt(t) == trade[t].amt
                 oversold == \E t \in Sides(h, "sell") :
                   ReplayAll([u \in {u \in Of(trade, h) : u = t \/ Before(trade, u, t)} |-> trade[u]]).units < 0
                 whole == \A t \in Of(trade, h) : trade[t].shares > 0
             IN /\ p.units = MapThenSumSet(Shares, Sides(h, "buy")) - MapThenSumSet(Shares, Sides(h, "sell"))
                /\ ~oversold /\ whole =>
                     /\ p.cost + MapThenSumSet(Amt, Sides(h, "sell")) - p.gain = MapThenSumSet(Amt, Sides(h, "buy"))
                     /\ p.cost >= 0 /\ (p.units = 0 => p.cost = 0)
  <2> DEFINE T == Rows(trade, h)
             D == DOMAIN T
             p == ReplayAll(T)
  <2>1. IsBook(T) /\ D = Of(trade, h) /\ \A t \in D : T[t] = trade[t]
    BY RowsAreBook
  <2> HIDE DEF T
  <2>2. PICK g : IsReplay(g, T, D) /\ p = g[D]
    BY <2>1, ReplayIs
  <2>3. ASSUME NEW side
        PROVE  /\ MapThenSumSet(LAMBDA t : trade[t].shares, Sides(h, side)) = Units(T, D, side)
               /\ MapThenSumSet(LAMBDA t : trade[t].amt, Sides(h, side)) = Money(T, D, side)
    <3> DEFINE S == Sides(h, side)
               f == [t \in S |-> trade[t].shares]
               k == [t \in S |-> trade[t].amt]
    <3>1. S = On(T, D, side) /\ IsFiniteSet(S)
      <4>1. S = On(T, D, side)
        BY <2>1 DEF Sides, On
      <4>2. On(T, D, side) \subseteq D
        BY DEF On
      <4> QED
        BY <2>1, <4>1, <4>2, FS_Subset DEF IsBook
    <3>2. \A t \in S : T[t] = trade[t]
      BY <2>1 DEF Sides
    <3> HIDE DEF S
    <3>3. MapThenSumSet(LAMBDA t : trade[t].shares, S) = Sigma(f, S)
      BY <3>1, SharesAreSum, Zenon
    <3>4. MapThenSumSet(LAMBDA t : trade[t].amt, S) = Sigma(k, S)
      BY <3>1, AmountsAreSum, Zenon
    <3>5. f = [t \in S |-> T[t].shares] /\ k = [t \in S |-> T[t].amt]
      BY <3>2
    <3>6. Units(T, D, side) = Sigma(f, S) /\ Money(T, D, side) = Sigma(k, S)
      BY <3>1, <3>5 DEF Units, Money
    <3>7. MapThenSumSet(LAMBDA t : trade[t].shares, S) = Units(T, D, side)
      BY <3>3, <3>6, Zenon
    <3>8. MapThenSumSet(LAMBDA t : trade[t].amt, S) = Money(T, D, side)
      BY <3>4, <3>6, Zenon
    <3> QED
      BY <3>7, <3>8, Zenon DEF S
  <2> DEFINE prefix(t) == {u \in Of(trade, h) : u = t \/ Before(trade, u, t)}
             oversold == \E t \in Sides(h, "sell") : ReplayAll([u \in prefix(t) |-> trade[u]]).units < 0
             whole == \A t \in Of(trade, h) : trade[t].shares > 0
  <2>4. IsPos(p) /\ p.units = Units(T, D, "buy") - Units(T, D, "sell")
    <3>1. D \in SUBSET DOMAIN T
      OBVIOUS
    <3> QED
      BY <2>1, <2>2, <3>1, UnitsConserved
  <2>5. ASSUME ~oversold, whole PROVE Conserves(T, D, p)
    <3>1. ASSUME NEW t \in On(T, D, "sell") PROVE ~(g[UpTo(T, t)].units < 0)
      <4>1. t \in Sides(h, "sell") /\ t \in D
        BY <2>1 DEF On, Sides
      <4>2. prefix(t) = UpTo(T, t)
        BY <2>1, <4>1 DEF UpTo, Before
      <4>3. [u \in prefix(t) |-> trade[u]] = [u \in UpTo(T, t) |-> T[u]]
        BY <2>1, <4>2 DEF UpTo
      <4>4. ~(ReplayAll([u \in prefix(t) |-> trade[u]]).units < 0)
        BY <2>5, <4>1
      <4>5. UpTo(T, t) \in SUBSET DOMAIN T
        BY DEF UpTo
      <4>6. ReplayAll([u \in UpTo(T, t) |-> T[u]]) = g[UpTo(T, t)]
        BY <2>1, <2>2, <4>5, ReplayOfPart
      <4> QED
        BY <4>3, <4>4, <4>6
    <3>2. \A t \in D : T[t].shares > 0
      BY <2>1, <2>5
    <3> QED
      BY <2>1, <2>2, <3>1, <3>2, MoneyConserved
  <2>6. ~oversold /\ whole =>
                     /\ p.cost + Money(T, D, "sell") - p.gain = Money(T, D, "buy")
                     /\ p.cost >= 0 /\ (p.units = 0 => p.cost = 0)
    BY <2>5 DEF Conserves, Sound
  <2> HIDE DEF oversold, whole, p, D
  <2>7. p.units = MapThenSumSet(LAMBDA t : trade[t].shares, Sides(h, "buy"))
                    - MapThenSumSet(LAMBDA t : trade[t].shares, Sides(h, "sell"))
    BY <2>3, <2>4, Zenon
  <2>8. ~oversold /\ whole =>
                     p.cost + MapThenSumSet(LAMBDA t : trade[t].amt, Sides(h, "sell")) - p.gain
                       = MapThenSumSet(LAMBDA t : trade[t].amt, Sides(h, "buy"))
    BY <2>3, <2>6, Zenon
  <2> QED
    BY <2>6, <2>7, <2>8, Zenon DEF oversold, whole, p, T
<1> QED
  BY <1>1, Zenon DEF ReplayConserves

\* A replay of the trades that any run of the program records loses and invents nothing.
THEOREM ReplaysConserve == Spec => []ReplayConserves
  BY ColumnsFilled, FilledConserves, PTL
=============================================================================

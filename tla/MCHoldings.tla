------------------------------ MODULE MCHoldings ------------------------------
EXTENDS Holdings, TLC

CONSTANTS abroad, home, fd, m1, m2

\* Bounds: per scene, the handlers in play and how many rows they make.  One run
\* explores the scenes side by side, which is far less than all handlers at once.
Buy == [side |-> "buy", shares |-> 2, amt |-> 8]
Sell == [side |-> "sell", shares |-> 1, amt |-> 6]
Scene(on, holds, trades) == [on |-> on, holds |-> holds, trades |-> trades, orders |-> {Buy, Sell}]
Buying(on, holds, trades) == [Scene(on, holds, trades) EXCEPT !.orders = {Buy}]
MCScenes ==
  {Scene({"create", "add"}, 1, 3),                     \* the order of trades
   Scene({"create", "add", "amend", "drop"}, 1, 2),    \* the user's own trades
   Scene({"create", "add", "drop", "edit"}, 1, 1),     \* figures typed or derived
   Scene({"mail", "delete"}, 2, 2),                    \* two mails open a position
   Buying({"mail", "amend"}, 1, 2),                    \* a mail is read again
   Scene({"mail", "statement"}, 2, 2),                 \* seed or trade
   Scene({"statement", "drop"}, 1, 2),                 \* a second seed
   Scene({"statement", "price"}, 1, 1),                \* older and newer prices
   Buying({"create", "add", "amend", "refresh"}, 1, 1),\* rates of trades
   Scene({"create", "edit", "refresh"}, 1, 0),         \* symbols
   Scene({"create", "delete", "refresh"}, 2, 0),       \* what is gone when priced
   Scene({"create", "refresh", "rate", "derive"}, 1, 0),
   Scene({"deposit", "add", "delete", "edit"}, 2, 1)}

Mail(inst, day, side, shares, amt) == [inst |-> inst, day |-> day, side |-> side, shares |-> shares, amt |-> amt]
MCMails == m1 :> Mail(home, 1, "buy", 1, 4) @@ m2 :> Mail(home, 2, "sell", 1, 6)
MCLine == [units |-> 2, price |-> 5, value |-> 10]
MCForms == {[units |-> 1, cost |-> 3]}
MCDayRate == 1 :> 80 @@ 2 :> 90
MCInstruments == {abroad, home}
MCRupee == {home, fd}

Symmetry == Permutations(Workers)
=============================================================================

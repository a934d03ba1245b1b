---------------------------- MODULE MCBookkeeping ----------------------------
EXTENDS Bookkeeping, TLC

CONSTANTS food, rent, shop, jan

\* Movements of two accounts and a third that is not counted.
Debit == Pay("bank", FALSE, 5, 1, shop, FALSE)
Again == Pay("bank", FALSE, 7, 2, shop, FALSE)
Credit == Pay("card", TRUE, 5, 2, None, FALSE)
Credit2 == Pay("family", TRUE, 5, 4, None, FALSE)
Late == Pay("card", TRUE, 5, 9, None, FALSE)
Broker == Pay("bank", FALSE, 3, 3, None, TRUE)
Copy(due) == [id |-> TRUE, of |-> jan, acct |-> None, due |-> due, paid |-> FALSE]
Undated == [Copy(9) EXCEPT !.of = None, !.acct = "card"]
Carded == [Copy(None) EXCEPT !.acct = "card"]
Paying == [Undated EXCEPT !.due = 5]
Other == [Undated EXCEPT !.acct = "bank"]

\* Bounds: per scene, the handlers in play, the rows there are and how many may be
\* made.  One run explores the scenes side by side, not all handlers at once.
Blank == [on |-> {}, rows |-> <<>>, made |-> 0, pays |-> {}, cats |-> {None, food},
          bills |-> <<>>, issued |-> 0, mails |-> {}]
Scene(on, rows, pays, made) == [Blank EXCEPT !.on = on, !.rows = rows, !.pays = pays, !.made = made]
MCScenes ==
  {Scene({"scan", "dismiss", "confirm", "unlink"}, <<Debit, Credit, Credit2>>, {}, 0),
   Scene({"link", "unlink"}, <<Debit, Credit, Late>>, {}, 0),
   Scene({"link", "unlink", "delete", "mail"}, <<Debit, Credit>>, {Late}, 1),
   Scene({"mail", "scan", "confirm", "dismiss", "delete", "mark"}, <<Debit>>, {Credit}, 2),
   Scene({"create", "edit", "mail"}, <<Debit>>, {Again, Broker}, 1),
   Scene({"edit", "pass"}, <<Debit>>, {Late}, 0),
   Scene({"categorize", "pass"}, <<Debit, Again>>, {}, 0),
   Scene({"mail", "delete", "pass"}, <<Debit>>, {Again}, 1),
   Scene({"delete", "pass"}, <<Debit, Again, Credit>>, {}, 0),
   Scene({"apply", "dismissReading", "mark", "delete", "pass"}, <<Debit>>, {}, 0),
   Scene({"apply", "dismissReading", "pass"}, <<Debit, Credit>>, {}, 0),
   Scene({"link", "unlink", "edit"}, <<Debit, Credit>>, {}, 0),
   Scene({"dashboard", "mail"}, <<Debit, Credit2>>, {Broker}, 1),
   Scene({"dashboard", "mark", "link"}, <<Debit, Credit>>, {}, 0),
   [Blank EXCEPT !.on = {"bill", "paid"}, !.bills = <<Copy(None), Undated, [Copy(8) EXCEPT !.paid = TRUE]>>,
                 !.mails = {Copy(9), Carded, Undated}, !.issued = 1],
   [Blank EXCEPT !.on = {"link", "paid"}, !.rows = <<Debit, Credit>>, !.bills = <<Carded, Paying, Carded, Other>>],
   [Blank EXCEPT !.on = {"bill", "paid"}, !.mails = {Copy(9), Carded, Undated}, !.issued = 2]}

MCCounted == {"bank", "card"}
MCCards == {"card"}
Form(type, kind, cat, merch) == [type |-> type, kind |-> kind, cat |-> cat, merch |-> merch]
MCForms == {Form("expense", "self", food, ""), Form("transfer", "", None, "user")}
Answer(cat, nature, kind, merch, review) ==
  [cat |-> cat, nature |-> nature, kind |-> kind, merch |-> merch, review |-> review]
MCAnswers == {Answer(rent, "", "self", "model", FALSE), Answer("unknown", "transfer", "", "", FALSE),
              Answer("unknown", "expense", "", "model", FALSE)}

Symmetry == Permutations(Workers) \cup Permutations(Passers)
=============================================================================

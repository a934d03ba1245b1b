---------------------------- MODULE MailboxMutex ----------------------------
(***************************************************************************)
(* What WithProvider promises its callers: a mailbox has at most one user, *)
(* a user keeps the mailbox until it is done with it, and one mailbox      *)
(* being busy says nothing about another.  A restart of the process ends   *)
(* every use at once.                                                      *)
(***************************************************************************)
CONSTANTS Accounts,   \* mailboxes
          Lockers     \* goroutines that may ask for one

VARIABLE users        \* users[a]: the goroutines using mailbox a

Init == users = [a \in Accounts |-> {}]

\* A goroutine gets a mailbox nobody uses.
Enter(p, a) ==
  /\ users[a] = {}
  /\ users' = [users EXCEPT ![a] = {p}]

\* The user of a mailbox gives it back.
Leave(a) ==
  /\ users[a] # {}
  /\ users' = [users EXCEPT ![a] = {}]

\* The process stops.
Restart == users' = [a \in Accounts |-> {}]

Next ==
  \/ \E a \in Accounts : Leave(a) \/ \E p \in Lockers : Enter(p, a)
  \/ Restart

Spec == Init /\ [][Next]_users
=============================================================================

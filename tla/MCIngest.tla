------------------------------ MODULE MCIngest ------------------------------
(***************************************************************************)
(* Mail for the safety runs of Ingest.  Two mailboxes: the first has a     *)
(* message whose body never arrives in front of an alert, the second has   *)
(* that alert again.  Or the first mailbox with one message.               *)
(***************************************************************************)
EXTENDS Ingest, TLC

CONSTANTS b1, b2, early, alert, buy

MCBox == (1 :> b1) @@ (2 :> b1) @@ (3 :> b2)
MCRfc == (1 :> early) @@ (2 :> alert) @@ (3 :> alert)
MCEvent == [m \in 1..3 |-> buy]

MCOneBox == [m \in Msgs |-> b1]
MCOneRfc == [m \in Msgs |-> early]
MCOneEvent == [m \in Msgs |-> buy]
=============================================================================

--------------------------- MODULE MCIngestSettles ---------------------------
(***************************************************************************)
(* Mail for the liveness run of Ingest, all in one mailbox: a message      *)
(* whose body never arrives, an alert with a Message-ID, and two messages  *)
(* without one, about two events.  In a behaviour only the messages of one *)
(* scene ever reach the mailbox; the others are not there to be indexed.   *)
(***************************************************************************)
EXTENDS Ingest, TLC

CONSTANTS b1, early, alert, none, buy, sell, Scenes

MCOneBox == [m \in Msgs |-> b1]
MCOneRfc == (1 :> early) @@ (2 :> none) @@ (3 :> alert) @@ (4 :> none)
MCOneEvent == [m \in Msgs |-> IF m = 4 THEN sell ELSE buy]

VARIABLE scene

SceneInit == Init /\ scene \in Scenes
SceneNext == Next /\ (\A m \in Msgs \ scene : ~row'[m]) /\ UNCHANGED scene
SceneSpec == SceneInit /\ [][SceneNext]_<<vars, scene>>
=============================================================================

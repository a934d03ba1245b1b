------------------------------ MODULE Classifier ------------------------------
(***************************************************************************)
(* The message index with the classifier beside it.  classifier.Run takes  *)
(* no mailbox lock: it lists the messages without a label, and its         *)
(* goroutines ask the model about one after the other and store what it    *)
(* answers, while the sync pass, the handlers and the jobs of MailIndex    *)
(* delete those messages and store new ones.                               *)
(*                                                                         *)
(* A label belongs to a row id and goes with its row (ON DELETE CASCADE).  *)
(* Ids are AUTOINCREMENT: a message that is stored again under the same    *)
(* UID is another row, and an answer about the old one does not reach it.  *)
(* What the label says is not told apart.  The job's context is detached   *)
(* and never ends.                                                         *)
(***************************************************************************)
EXTENDS MailIndex

CONSTANT Workers  \* goroutines of a pass: concurrencyLimit

ASSUME WorkerAssumption == IsFiniteSet(Workers) /\ Workers # {}

VARIABLES
  scene,    \* "index": no classifier; "labels": a smaller index with one
  label,    \* label[u]: the row of u has a classification
  pass,     \* locals of Run: what was pending, and how far the cursor is
  worker    \* worker[w]: locals of a goroutine

allVars == <<vars, scene, label, pass, worker>>

\* pending: the messages loaded; taken: those before the cursor; gone: those
\* whose row is no more, though there may be a newer one with their UID.
NoPass == [on |-> FALSE, pending |-> {}, taken |-> {}, gone |-> {}]
NoWorker == [pc |-> "off", msg |-> 0]

ClassifierInit ==
  /\ Init
  /\ scene \in {"index", "labels"}
  /\ label = [u \in Uids |-> FALSE]
  /\ pass = NoPass
  /\ worker = [w \in Workers |-> NoWorker]

-----------------------------------------------------------------------------
(* What a step of the index means to the classifier.                       *)

\* Bound: beside the classifier messages come and go, no flag changes, and a
\* sync does not fail half-way.
InScene ==
  scene = "labels" =>
    /\ \A u \in Uids : box'[u] # "read"
    /\ \A c \in Clients : client'[c] # Off =>
         client'[c].mode = "direct" /\ client'[c].what = "remove"

\* ON DELETE CASCADE on classifications.message_id.
Cascade ==
  /\ label' = [u \in Uids |-> label[u] /\ row'[u] # Absent]
  /\ pass' = [pass EXCEPT !.gone = @ \cup {u \in pass.pending : row'[u] = Absent}]
  /\ UNCHANGED <<scene, worker>>

\* The process dies, whether the index is at rest or not.
Die ==
  /\ Crash \/ (Failures /\ pass.on /\ UNCHANGED vars)
  /\ pass' = NoPass /\ worker' = [w \in Workers |-> NoWorker]
  /\ UNCHANGED <<scene, label>>

-----------------------------------------------------------------------------
(* classifier.Run.                                                         *)

Pending == {u \in Present(row) : ~label[u]}

\* handleClassify: Runner.Start refuses a second job for the mailbox.  Then
\* loadPending, and as many goroutines as there are messages for, at most all.
StartClassify(W) ==
  /\ scene = "labels" /\ ~pass.on
  /\ W # {}
  /\ Cardinality(W) <= Cardinality(Pending)
  /\ W = Workers \/ Cardinality(W) = Cardinality(Pending)
  /\ pass' = [on |-> TRUE, pending |-> Pending, taken |-> {}, gone |-> {}]
  /\ worker' = [w \in Workers |-> IF w \in W THEN [pc |-> "loop", msg |-> 0] ELSE NoWorker]
  /\ UNCHANGED <<vars, scene, label>>

\* A goroutine takes the message at the cursor (by date, which UIDs do not
\* tell) and asks the model about it.
Claim(w, u) ==
  /\ worker[w].pc = "loop" /\ u \in pass.pending \ pass.taken
  /\ pass' = [pass EXCEPT !.taken = @ \cup {u}]
  /\ worker' = [worker EXCEPT ![w] = [pc |-> "asked", msg |-> u]]
  /\ UNCHANGED <<vars, scene, label>>

\* The cursor is at the end.
Leave(w) ==
  /\ worker[w].pc = "loop" /\ pass.pending = pass.taken
  /\ worker' = [worker EXCEPT ![w] = NoWorker]
  /\ UNCHANGED <<vars, scene, label, pass>>

Onward(w) == worker' = [worker EXCEPT ![w] = [pc |-> "loop", msg |-> 0]]

\* Mutation: the label is stored for the UID, whatever row has it by now.
StoreByUid(w) ==
  /\ worker[w].pc = "asked" /\ row[worker[w].msg] # Absent
  /\ label' = [label EXCEPT ![worker[w].msg] = TRUE]
  /\ Onward(w)
  /\ UNCHANGED <<vars, scene, pass>>

\* store: an upsert by row id, refused if the message is gone.
Store(w) ==
  /\ worker[w].pc = "asked" /\ worker[w].msg \notin pass.gone
  /\ label' = [label EXCEPT ![worker[w].msg] = TRUE]
  /\ Onward(w)
  /\ UNCHANGED <<vars, scene, pass>>

\* The model does not answer, or not with the JSON object that
\* parseClassification looks for, or the answer cannot be stored.  The message
\* stays without a label for a later pass.
Fails(w) ==
  /\ worker[w].pc = "asked"
  /\ Failures \/ worker[w].msg \in pass.gone
  /\ Onward(w)
  /\ UNCHANGED <<vars, scene, label, pass>>

\* workerWG.Wait returns, and the job is over.
EndPass ==
  /\ pass.on /\ \A w \in Workers : worker[w].pc = "off"
  /\ pass' = NoPass
  /\ UNCHANGED <<vars, scene, label, worker>>

-----------------------------------------------------------------------------
ClassifierNext ==
  \/ Deliver /\ Cascade /\ InScene
  \/ \E u \in Uids, what \in Outside : Elsewhere(u, what) /\ Cascade /\ InScene
  \/ SyncStart /\ Cascade /\ InScene
  \/ SyncList /\ Cascade /\ InScene
  \/ SyncRead /\ Cascade /\ InScene
  \/ SyncFetch /\ Cascade /\ InScene
  \/ SyncStore /\ Cascade /\ InScene
  \/ SyncPrune /\ Cascade /\ InScene
  \/ SyncSave /\ Cascade /\ InScene
  \/ SyncFail /\ scene = "index" /\ Cascade
  \/ \E c \in Clients :
       \/ Begin(c) /\ Cascade /\ InScene
       \/ Turn(c) /\ Cascade /\ InScene
       \/ ActSome(c) /\ Cascade /\ InScene
       \/ Mirror(c) /\ Cascade /\ InScene
       \/ NoTurn(c) /\ Cascade /\ InScene
  \/ Die
  \/ \E W \in SUBSET Workers : StartClassify(W)
  \/ \E w \in Workers, u \in Uids : Claim(w, u)
  \/ \E w \in Workers : Leave(w) \/ Store(w) \/ Fails(w)
  \/ EndPass

ClassifierSpec == ClassifierInit /\ [][ClassifierNext]_allVars

-----------------------------------------------------------------------------
(* Properties.                                                             *)

Asked(u) == {w \in Workers : worker[w].pc = "asked" /\ worker[w].msg = u}

\* classifier.go: "Classification happens once per message", and "one bad message
\* never aborts the pass".  While goroutines share the cursor and the index
\* changes under them, no message is asked about that has a label, none by two
\* goroutines; no answer lands on a message that took the place of the one asked
\* about, and no label outlives its message; and when the goroutines are done,
\* every message that was pending has had its turn.
OneAnswerEach ==
  /\ \A u \in Uids : label[u] => row[u] # Absent
  /\ \A u \in pass.pending \ pass.gone : label[u] => u \in pass.taken /\ Asked(u) = {}
  /\ \A u \in pass.gone : ~label[u]
  /\ \A v, w \in Workers :
       worker[v].pc = "asked" /\ worker[w].pc = "asked" /\ worker[v].msg = worker[w].msg => v = w
  /\ pass.on /\ (\A w \in Workers : worker[w].pc = "off") => pass.taken = pass.pending
=============================================================================

------------------------------ MODULE MailIndex ------------------------------
(***************************************************************************)
(* One folder of one mailbox as the IMAP server has it (box) and as the    *)
(* messages table has it (row), with everything in Wollow that changes     *)
(* either: the sync pass of sync.SyncAccount, the single-message handlers  *)
(* that talk to the server without the mailbox lock, the bulk handlers     *)
(* that hold the lock for the server's part and update the index after it, *)
(* and the detached sender jobs that do both under the lock.  Other mail   *)
(* clients change the server at any time, and the process may die.         *)
(*                                                                         *)
(* A message is its UID and whether it is read; the starred flag and the   *)
(* headers travel with it.  Every statement on the index is atomic and so  *)
(* is every batch stored or removed in a transaction (one SQLite           *)
(* connection); two statements are two steps.  The lock is the mutex that  *)
(* MailboxSession implements.                                              *)
(***************************************************************************)
EXTENDS Naturals, FiniteSets

CONSTANTS MaxUid,    \* bound: messages delivered in all
          Batch,     \* fetchBatch: UIDs per FETCH
          Window,    \* refreshWindow: known messages whose flags are re-read
          Chunk,     \* bulkActionChunk: messages per provider call
          Clients,   \* goroutines of handlers and jobs
          Syncer,    \* the goroutine of the sync pass
          None,      \* nobody holds the mailbox lock
          Modes,     \* which handlers are in play
          Outside,   \* what other mail clients do
          Failures   \* whether calls fail and the process may die

Uids == 1..MaxUid

ASSUME SizeAssumption ==
  /\ MaxUid \in Nat /\ Batch \in Nat \ {0} /\ Window \in Nat /\ Chunk \in Nat \ {0}
ASSUME NameAssumption ==
  /\ Syncer \notin Clients /\ None \notin Clients \cup {Syncer}
  /\ Modes \subseteq {"direct", "bulk", "job"}
  /\ Outside \subseteq {"read", "unread", "remove"}
  /\ Failures \in BOOLEAN

VARIABLES
  box,      \* box[u]: message u on the server
  nextUid,  \* UIDs only grow and are never given twice
  row,      \* row[u]: message u in the messages table
  lastUid,  \* sync_state.last_uid
  lock,     \* who holds the mailbox lock
  sync,     \* locals of the sync pass
  client    \* client[c]: locals of a handler or job

vars == <<box, nextUid, row, lastUid, lock, sync, client>>

Absent == "absent"
Held == {"unread", "read"}
Present(m) == {u \in Uids : m[u] # Absent}

NoMail == [u \in Uids |-> Absent]
SyncOff == [pc |-> "off", listed |-> {}, known |-> {}, new |-> {},
            refresh |-> {}, batch |-> NoMail]
Off == [pc |-> "idle", mode |-> "direct", what |-> "read", todo |-> {}, done |-> {}]

Init ==
  /\ box = NoMail /\ nextUid = 1
  /\ row = NoMail /\ lastUid = 0
  /\ lock = None /\ sync = SyncOff
  /\ client = [c \in Clients |-> Off]

\* What an action leaves of a message; it does nothing to one that is not there.
Effect(what, v) ==
  IF v = Absent \/ what = "remove" THEN Absent ELSE what

On(m, U, what) == [u \in Uids |-> IF u \in U THEN Effect(what, m[u]) ELSE m[u]]

Newest(S, k) == {u \in S : Cardinality({v \in S : v > u}) < k}
Oldest(S, k) == {u \in S : Cardinality({v \in S : v < u}) < k}
Largest(S) == CHOOSE u \in S \cup {0} : \A v \in S : v <= u

-----------------------------------------------------------------------------
(* The server and the other mail clients.                                  *)

Deliver ==
  /\ nextUid \in Uids
  /\ box' = [box EXCEPT ![nextUid] = "unread"]
  /\ nextUid' = nextUid + 1
  /\ UNCHANGED <<row, lastUid, lock, sync, client>>

Elsewhere(u, what) ==
  /\ box[u] # Absent /\ box[u] # what
  /\ box' = On(box, {u}, what)
  /\ UNCHANGED <<nextUid, row, lastUid, lock, sync, client>>

-----------------------------------------------------------------------------
(* sync.SyncAccount, inside WithProvider.                                  *)

SyncStart ==
  /\ lock = None /\ sync.pc = "off"
  /\ lock' = Syncer
  /\ sync' = [SyncOff EXCEPT !.pc = "list"]
  /\ UNCHANGED <<box, nextUid, row, lastUid, client>>

\* ListUIDs.
SyncList ==
  /\ sync.pc = "list"
  /\ sync' = [sync EXCEPT !.pc = "read", !.listed = Present(box)]
  /\ UNCHANGED <<box, nextUid, row, lastUid, lock, client>>

Stage(new, refresh) == IF new = {} /\ refresh = {} THEN "prune" ELSE "fetch"

\* Mutation: flags of messages already known are not read again.
SyncReadNewOnly ==
  /\ sync.pc = "read"
  /\ LET known == Present(row)
         new == sync.listed \ known
     IN sync' = [sync EXCEPT !.pc = Stage(new, {}), !.known = known, !.new = new]
  /\ UNCHANGED <<box, nextUid, row, lastUid, lock, client>>

\* storedUIDs; then the new UIDs, and the newest known ones to refresh.
SyncRead ==
  /\ sync.pc = "read"
  /\ LET known == Present(row)
         new == sync.listed \ known
         refresh == Newest(sync.listed \cap known, Window)
     IN sync' = [sync EXCEPT !.pc = Stage(new, refresh), !.known = known,
                             !.new = new, !.refresh = refresh]
  /\ UNCHANGED <<box, nextUid, row, lastUid, lock, client>>

\* The UIDs of the next FETCH: new ones ascending, then known ones descending.
NextBatch ==
  IF sync.new # {} THEN Oldest(sync.new, Batch) ELSE Newest(sync.refresh, Batch)

\* FetchForSync: what is gone from the server is missing from the answer.
SyncFetch ==
  /\ sync.pc = "fetch"
  /\ sync' = [sync EXCEPT !.pc = "store",
                !.batch = [u \in Uids |-> IF u \in NextBatch THEN box[u] ELSE Absent]]
  /\ UNCHANGED <<box, nextUid, row, lastUid, lock, client>>

\* upsertMessages, one transaction.
SyncStore ==
  /\ sync.pc = "store"
  /\ row' = [u \in Uids |-> IF sync.batch[u] # Absent THEN sync.batch[u] ELSE row[u]]
  /\ LET new == sync.new \ NextBatch
         refresh == IF sync.new # {} THEN sync.refresh ELSE sync.refresh \ NextBatch
     IN sync' = [sync EXCEPT !.pc = Stage(new, refresh), !.new = new,
                             !.refresh = refresh, !.batch = NoMail]
  /\ UNCHANGED <<box, nextUid, lastUid, lock, client>>

\* deleteMessages: stored when the pass read the index, not in the list.
SyncPrune ==
  /\ sync.pc = "prune"
  /\ row' = On(row, sync.known \ sync.listed, "remove")
  /\ sync' = [sync EXCEPT !.pc = "save"]
  /\ UNCHANGED <<box, nextUid, lastUid, lock, client>>

\* Mutation: the mark is the next UID instead of the highest one.
SyncSaveUidNext ==
  /\ sync.pc = "save"
  /\ lastUid' = Largest(sync.listed) + 1
  /\ sync' = SyncOff /\ lock' = None
  /\ UNCHANGED <<box, nextUid, row, client>>

\* saveSyncState; WithProvider closes the session and gives the lock back.
SyncSave ==
  /\ sync.pc = "save"
  /\ lastUid' = Largest(sync.listed)
  /\ sync' = SyncOff /\ lock' = None
  /\ UNCHANGED <<box, nextUid, row, client>>

\* Mutation: the mark is saved on the way out, whatever the pass did.
SyncFailSavingMark ==
  /\ Failures /\ sync.pc # "off"
  /\ lastUid' = Largest(sync.listed)
  /\ sync' = SyncOff /\ lock' = None
  /\ UNCHANGED <<box, nextUid, row, client>>

\* The connect, an IMAP call, a statement or the context fails: the pass
\* returns at once and what it has stored stays.
SyncFail ==
  /\ Failures /\ sync.pc # "off"
  /\ sync' = SyncOff /\ lock' = None
  /\ UNCHANGED <<box, nextUid, row, lastUid, client>>

-----------------------------------------------------------------------------
(* Handlers and jobs.                                                      *)

\* handleDeleteMessage and handleSetFlag, on a message the list shows.
BeginDirect(c, u, what) ==
  /\ "direct" \in Modes
  /\ client[c].pc = "idle" /\ row[u] # Absent
  /\ client' = [client EXCEPT ![c] = [Off EXCEPT !.pc = "act", !.what = what, !.todo = {u}]]
  /\ UNCHANGED <<box, nextUid, row, lastUid, lock, sync>>

\* handleGetMessage: the message is fetched with a peek; if it is unread the
\* handler goes on like a handleSetFlag of \Seen.
OpenMessage(c, u) ==
  /\ box[u] = "unread"
  /\ BeginDirect(c, u, "read")

\* handleBulkDeleteMessages and handleBulkSetFlag call WithProvider.
BeginBulk(c, U, what) ==
  /\ "bulk" \in Modes
  /\ client[c].pc = "idle"
  /\ client' = [client EXCEPT ![c] = [pc |-> "wait", mode |-> "bulk", what |-> what,
                                      todo |-> U, done |-> {}]]
  /\ UNCHANGED <<box, nextUid, row, lastUid, lock, sync>>

\* startBulkSenderJob: the senders' messages are looked up in the request;
\* Runner.Start refuses a second job for the mailbox.
BeginJob(c, U, what) ==
  /\ "job" \in Modes
  /\ client[c].pc = "idle"
  /\ \A d \in Clients : client[d].pc # "idle" => client[d].mode # "job"
  /\ client' = [client EXCEPT ![c] = [pc |-> "wait", mode |-> "job", what |-> what,
                                      todo |-> U, done |-> {}]]
  /\ UNCHANGED <<box, nextUid, row, lastUid, lock, sync>>

\* WithProvider calls fn.
Turn(c) ==
  /\ client[c].pc = "wait" /\ lock = None
  /\ lock' = c
  /\ client' = [client EXCEPT ![c].pc = "act"]
  /\ UNCHANGED <<box, nextUid, row, lastUid, sync>>

\* WithProvider fails: the context ends in the queue, or the connect fails.
NoTurn(c) ==
  /\ Failures
  /\ client[c].pc = "wait"
  /\ client' = [client EXCEPT ![c] = Off]
  /\ UNCHANGED <<box, nextUid, row, lastUid, lock, sync>>

\* One provider call on K reports D done.  It may have done more than it
\* reports (the answer was lost).  more is FALSE when an error ends the action.
ProviderCall(c, K, D, E, more) ==
  LET me == client[c]
      rest == IF more THEN me.todo \ K ELSE {}
      done == me.done \cup D
  IN /\ me.pc = "act"
     /\ box' = On(box, E, me.what)
     /\ client' = [client EXCEPT ![c] =
          CASE me.mode = "direct" -> IF D = {} THEN Off
                                     ELSE [me EXCEPT !.pc = "mirror", !.todo = {}, !.done = D]
            [] me.mode = "bulk" ->
                 [me EXCEPT !.pc = IF rest = {} THEN "mirror" ELSE "act",
                            !.todo = rest, !.done = done]
            [] me.mode = "job" ->
                 [me EXCEPT !.pc = "mirror", !.todo = rest, !.done = D]]
     /\ lock' = IF me.mode = "bulk" /\ rest = {} THEN None ELSE lock
     /\ UNCHANGED <<nextUid, row, lastUid, sync>>

\* Mutation: the ids asked for are taken for the ids the server acted on.
ActTrustsRequest(c, K, D, E, more) == ProviderCall(c, K, K, E, more)

Act(c, K, D, E, more) == ProviderCall(c, K, D, E, more)

\* The index follows: forgetMessages, mirrorFlag or the handler's own UPDATE.
\* A job then takes its next chunk, or gives the lock back.
Mirror(c) ==
  LET me == client[c] IN
  /\ me.pc = "mirror"
  /\ row' = On(row, me.done, me.what)
  /\ client' = [client EXCEPT ![c] =
       IF me.todo # {} THEN [me EXCEPT !.pc = "act", !.done = {}] ELSE Off]
  /\ lock' = IF me.mode = "job" /\ me.todo = {} THEN None ELSE lock
  /\ UNCHANGED <<box, nextUid, lastUid, sync>>

\* The process dies; the server and the tables stay.
Crash ==
  /\ Failures
  /\ lock # None \/ \E c \in Clients : client[c] # Off
  /\ lock' = None /\ sync' = SyncOff
  /\ client' = [c \in Clients |-> Off]
  /\ UNCHANGED <<box, nextUid, row, lastUid>>

-----------------------------------------------------------------------------
Actions == {"read", "unread", "remove"}

SyncStep ==
  \/ SyncStart \/ SyncList \/ SyncRead \/ SyncFetch \/ SyncStore \/ SyncPrune \/ SyncSave

ActSome(c) ==
  \E K \in SUBSET client[c].todo :
    /\ Cardinality(K) <= Chunk /\ K # {}
    /\ \E E \in SUBSET K : \E D \in SUBSET E : \E more \in BOOLEAN :
         /\ Failures \/ (D = K /\ more)
         /\ Act(c, K, D, E, more)

ClientStep(c) == Turn(c) \/ ActSome(c) \/ Mirror(c)

Begin(c) ==
  \/ \E what \in Actions, u \in Uids : BeginDirect(c, u, what)
  \/ \E u \in Uids : OpenMessage(c, u)
  \/ \E what \in Actions, U \in (SUBSET Present(row)) \ {{}} :
       BeginBulk(c, U, what) \/ BeginJob(c, U, what)

Next ==
  \/ Deliver
  \/ \E u \in Uids, what \in Outside : Elsewhere(u, what)
  \/ SyncStep \/ SyncFail
  \/ \E c \in Clients : Begin(c) \/ ClientStep(c) \/ NoTurn(c)
  \/ Crash

Spec == Init /\ [][Next]_vars

\* The ticker starts a pass again and again, and the queue of the lock is
\* served in order (MailboxSession!CallerServed).
Fairness ==
  /\ WF_vars(SyncStep)
  /\ \A c \in Clients : SF_vars(Turn(c)) /\ WF_vars(ActSome(c)) /\ WF_vars(Mirror(c))

\* Nothing new from outside, no failure: passes run and what was begun ends.
Calm == SyncStep \/ \E c \in Clients : ClientStep(c)

-----------------------------------------------------------------------------
(* Properties.                                                             *)

TypeOK ==
  /\ box \in [Uids -> Held \cup {Absent}]
  /\ nextUid \in 1..MaxUid + 1
  /\ row \in [Uids -> Held \cup {Absent}]
  /\ lastUid \in 0..MaxUid
  /\ lock \in Clients \cup {Syncer, None}
  /\ sync \in [pc : {"off", "list", "read", "fetch", "store", "prune", "save"},
               listed : SUBSET Uids, known : SUBSET Uids, new : SUBSET Uids,
               refresh : SUBSET Uids, batch : [Uids -> Held \cup {Absent}]]
  /\ client \in [Clients -> [pc : {"idle", "wait", "act", "mirror"},
                             mode : {"direct", "bulk", "job"}, what : Actions,
                             todo : SUBSET Uids, done : SUBSET Uids]]

\* A message that is on the server never drops out of the index, whichever of
\* the pass, the handlers and the jobs interleave: a row goes only after its
\* message did.  The pass decides from two reads taken at different times.
LiveRowsStay ==
  [][\A u \in Uids : row[u] # Absent /\ row'[u] = Absent => box[u] = Absent]_vars

\* Everything up to the saved last_uid that the server still has is indexed:
\* the pass saves its mark only after every batch is stored, and neither a
\* failed pass nor a handler opens a gap below it.
SavedUidCovered ==
  \A u \in Uids : u <= lastUid /\ box[u] # Absent => row[u] # Absent

\* Whatever the races, crashes and failures left behind, once they stop the
\* passes bring the index in step: the same messages, and the right flags on
\* the newest ones.
InStep ==
  /\ Present(row) = Present(box)
  /\ \A u \in Newest(Present(box), Window) : row[u] = box[u]
IndexSettles == Fairness /\ <>[][Calm]_vars => <>[]InStep

\* messages.go: flags are mirrored "so the list stays correct between syncs".
\* With nothing running, a message's flag in the list is the server's.
ListCorrectAtRest ==
  lock = None /\ (\A c \in Clients : client[c] = Off) =>
    \A u \in Present(row) \cap Present(box) : row[u] = box[u]
=============================================================================

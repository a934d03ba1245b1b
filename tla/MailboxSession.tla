--------------------------- MODULE MailboxSession ---------------------------
(***************************************************************************)
(* Who may talk to a mailbox, and when: the per-account lock of            *)
(* mailapi.Server.WithProvider, the connect with its timeout, the detached *)
(* jobs of jobs.Runner, the background ticker, and the handlers that open  *)
(* an IMAP session without the lock.                                       *)
(*                                                                         *)
(* The lock is a Go channel of capacity one.  A goroutine that finds it    *)
(* full parks in the channel's send queue, which the runtime serves in     *)
(* order: receiving the token hands it straight to the oldest sender.  The *)
(* queue is kept as ahead[p], the set of senders that were parked for the  *)
(* same mailbox before p; the oldest is the one with nobody ahead.         *)
(*                                                                         *)
(* A goroutine is identified with what it serves: an HTTP request, the     *)
(* ticker, or, for the detached sync job of a mailbox, the mailbox itself  *)
(* (jobs.Runner has at most one goroutine per key).                        *)
(***************************************************************************)
EXTENDS Naturals, FiniteSets

CONSTANTS Accounts,      \* mailboxes, each with its sync job
          Requests,      \* requests that go through WithProvider
          Directs,       \* requests that call providerFactory themselves
          Ticker,        \* the goroutine of runPeriodicSync
          None,          \* no goroutine holds the lock
          MaxAbandoned   \* bound on connects abandoned at one time, per mailbox

Attempts == 1..MaxAbandoned
Lockers == Requests \cup Accounts \cup {Ticker}
Procs == Lockers \cup Directs

ASSUME ProcsAssumption ==
  /\ Directs \cap Lockers = {}
  /\ Requests \cap Accounts = {}
  /\ Ticker \notin Requests \cup Accounts
  /\ None \notin Procs
ASSUME AccountsAssumption == Accounts # {}
ASSUME BoundAssumption == MaxAbandoned \in Nat

VARIABLES
  exists,     \* exists[a]: mail_accounts has a row for a
  pc,         \* where each goroutine is
  at,         \* the mailbox it is about
  err,        \* whether what it ran failed
  ctxDone,    \* its context is cancelled
  holder,     \* holder[a]: the goroutine whose token is in a's channel
  ahead,      \* ahead[p]: senders parked before p for the same mailbox
  late,       \* late[a]: connects to a given up on, dialling or logged in
  due,        \* mailboxes the ticker has yet to visit in this sweep
  jobs        \* jobs[a]: jobs.State of the key sync:<a>:INBOX

vars == <<exists, pc, at, err, ctxDone, holder, ahead, late, due, jobs>>

Idle == [p \in Procs |-> "idle"]
\* A job serves its own mailbox; the others start from any one.
Home == [p \in Procs |-> IF p \in Accounts THEN p ELSE CHOOSE a \in Accounts : TRUE]
NoLate == [a \in Accounts |-> [i \in Attempts |-> "none"]]

Init ==
  /\ exists \in [Accounts -> BOOLEAN]
  /\ pc = Idle
  /\ at = Home
  /\ err = [p \in Procs |-> FALSE]
  /\ ctxDone = [p \in Procs |-> FALSE]
  /\ holder = [a \in Accounts |-> None]
  /\ ahead = [p \in Procs |-> {}]
  /\ late = NoLate
  /\ due = {}
  /\ jobs = [a \in Accounts |-> [running |-> FALSE, error |-> FALSE]]

Parked(a) == {p \in Lockers : pc[p] = "waiting" /\ at[p] = a}

-----------------------------------------------------------------------------
(* Where the callers come from.                                            *)

\* A request arrives for a mailbox; its handler will call WithProvider.
Arrive(r, a) ==
  /\ pc[r] = "idle"
  /\ pc' = [pc EXCEPT ![r] = "calling"]
  /\ at' = [at EXCEPT ![r] = a]
  /\ UNCHANGED <<exists, err, ctxDone, holder, ahead, late, due, jobs>>

\* handleGetMessage and its siblings load the credentials and connect at once.
ArriveDirect(d, a) ==
  /\ pc[d] = "idle"
  /\ exists[a]
  /\ pc' = [pc EXCEPT ![d] = "dialing"]
  /\ at' = [at EXCEPT ![d] = a]
  /\ UNCHANGED <<exists, err, ctxDone, holder, ahead, late, due, jobs>>

\* Mutation: the job runs under the context of the request that started it.
StartJobOfRequest(a) ==
  /\ ~jobs[a].running
  /\ jobs' = [jobs EXCEPT ![a] = [running |-> TRUE, error |-> FALSE]]
  /\ pc' = [pc EXCEPT ![a] = "calling"]
  /\ ctxDone' \in {ctxDone, [ctxDone EXCEPT ![a] = TRUE]}
  /\ UNCHANGED <<exists, at, err, holder, ahead, late, due>>

\* handleSync: Runner.Start refuses a key that is running.
StartJob(a) ==
  /\ ~jobs[a].running
  /\ jobs' = [jobs EXCEPT ![a] = [running |-> TRUE, error |-> FALSE]]
  /\ pc' = [pc EXCEPT ![a] = "calling"]
  /\ UNCHANGED <<exists, at, err, ctxDone, holder, ahead, late, due>>

\* The interval elapses: SyncAllAccounts reads the list of mailboxes.
Tick ==
  /\ pc[Ticker] = "idle" /\ due = {} /\ ~ctxDone[Ticker]
  /\ due' = {a \in Accounts : exists[a]}
  /\ UNCHANGED <<exists, pc, at, err, ctxDone, holder, ahead, late, jobs>>

\* The sweep takes its next mailbox, or ends because of a shutdown.
Visit(a) ==
  /\ pc[Ticker] = "idle" /\ a \in due
  /\ IF ctxDone[Ticker]
     THEN /\ due' = {}
          /\ UNCHANGED <<pc, at>>
     ELSE /\ due' = due \ {a}
          /\ pc' = [pc EXCEPT ![Ticker] = "calling"]
          /\ at' = [at EXCEPT ![Ticker] = a]
  /\ UNCHANGED <<exists, err, ctxDone, holder, ahead, late, jobs>>

\* A client goes away, or a shutdown cancels the ticker's context.  A job's
\* context is context.Background(): nothing cancels it.
Cancel(p) ==
  /\ p \in Requests => pc[p] # "idle"
  /\ ~ctxDone[p]
  /\ ctxDone' = [ctxDone EXCEPT ![p] = TRUE]
  /\ UNCHANGED <<exists, pc, at, err, holder, ahead, late, due, jobs>>

-----------------------------------------------------------------------------
(* WithProvider.                                                           *)

\* Mutation: a fresh channel for every call instead of LoadOrStore's shared one.
AcquireFreshChannel(p) ==
  /\ pc[p] = "calling"
  /\ holder' = [holder EXCEPT ![at[p]] = p]
  /\ pc' = [pc EXCEPT ![p] = "locked"]
  /\ UNCHANGED <<exists, at, err, ctxDone, ahead, late, due, jobs>>

\* select: the channel has room.
Acquire(p) ==
  /\ pc[p] = "calling" /\ holder[at[p]] = None
  /\ holder' = [holder EXCEPT ![at[p]] = p]
  /\ pc' = [pc EXCEPT ![p] = "locked"]
  /\ UNCHANGED <<exists, at, err, ctxDone, ahead, late, due, jobs>>

\* select: the channel is full and the context alive; the goroutine parks.
Park(p) ==
  /\ pc[p] = "calling" /\ holder[at[p]] # None /\ ~ctxDone[p]
  /\ ahead' = [ahead EXCEPT ![p] = Parked(at[p])]
  /\ pc' = [pc EXCEPT ![p] = "waiting"]
  /\ UNCHANGED <<exists, at, err, ctxDone, holder, late, due, jobs>>

\* Mutation: the context is looked at once, then the wait is a plain Lock.
GiveUpBeforeParking(p) ==
  /\ pc[p] = "calling" /\ ctxDone[p]
  /\ pc' = [pc EXCEPT ![p] = "returning"]
  /\ err' = [err EXCEPT ![p] = TRUE]
  /\ UNCHANGED <<exists, at, ctxDone, holder, ahead, late, due, jobs>>

\* select: the context is done, before or while parked.
GiveUp(p) ==
  /\ pc[p] \in {"calling", "waiting"} /\ ctxDone[p]
  /\ ahead' = [q \in Procs |-> IF q = p THEN {} ELSE ahead[q] \ {p}]
  /\ pc' = [pc EXCEPT ![p] = "returning"]
  /\ err' = [err EXCEPT ![p] = TRUE]
  /\ UNCHANGED <<exists, at, ctxDone, holder, late, due, jobs>>

\* Mutation: parked callers are not told that the mailbox is free.
ReleaseSilently(p, a) ==
  /\ holder' = [holder EXCEPT ![a] = None]
  /\ pc' = [pc EXCEPT ![p] = "returning"]
  /\ UNCHANGED ahead

\* Mutation: the token goes to the caller that parked last.
ReleaseToNewest(p, a) ==
  IF Parked(a) = {}
  THEN ReleaseSilently(p, a)
  ELSE \E w \in Parked(a) :
         /\ \A q \in Parked(a) : w \notin ahead[q]
         /\ holder' = [holder EXCEPT ![a] = w]
         /\ pc' = [pc EXCEPT ![p] = "returning", ![w] = "locked"]
         /\ ahead' = [ahead EXCEPT ![w] = {}]

\* The deferred receive: the token leaves the channel and the oldest parked
\* sender, if there is one, has its own token put in and runs on.
Release(p, a) ==
  IF Parked(a) = {}
  THEN /\ holder' = [holder EXCEPT ![a] = None]
       /\ pc' = [pc EXCEPT ![p] = "returning"]
       /\ UNCHANGED ahead
  ELSE \E w \in Parked(a) :
         /\ ahead[w] = {}
         /\ holder' = [holder EXCEPT ![a] = w]
         /\ pc' = [pc EXCEPT ![p] = "returning", ![w] = "locked"]
         /\ ahead' = [q \in Procs |-> ahead[q] \ {w}]

\* Without the lock there is nothing to hand on.
Finish(p) ==
  IF p \in Lockers
  THEN Release(p, at[p])
  ELSE /\ pc' = [pc EXCEPT ![p] = "returning"]
       /\ UNCHANGED <<holder, ahead>>

Fail(p) ==
  /\ Finish(p)
  /\ err' = [err EXCEPT ![p] = TRUE]

\* Mutation: a caller of the list goes to the server without the lock.
LoadCredentialsUnlocked(p) ==
  /\ pc[p] \in {"calling", "locked"} /\ exists[at[p]]
  /\ pc' = [pc EXCEPT ![p] = "dialing"]
  /\ UNCHANGED <<exists, at, err, ctxDone, holder, ahead, late, due, jobs>>

\* loadAccountCredentials finds the row and decrypts the password.
LoadCredentials(p) ==
  /\ pc[p] = "locked" /\ exists[at[p]]
  /\ pc' = [pc EXCEPT ![p] = "dialing"]
  /\ UNCHANGED <<exists, at, err, ctxDone, holder, ahead, late, due, jobs>>

\* Mutation: the early return comes before the deferred receive is set up.
CredentialsFailHoldingLock(p) ==
  /\ pc[p] = "locked"
  /\ pc' = [pc EXCEPT ![p] = "returning"]
  /\ err' = [err EXCEPT ![p] = TRUE]
  /\ UNCHANGED <<exists, at, ctxDone, holder, ahead, late, due, jobs>>

\* No such row any more, or the password does not decrypt.
CredentialsFail(p) ==
  /\ pc[p] = "locked"
  /\ Fail(p)
  /\ UNCHANGED <<exists, at, ctxDone, late, due, jobs>>

\* NewIMAPProvider returns a session.
Connect(p) ==
  /\ pc[p] = "dialing"
  /\ pc' = [pc EXCEPT ![p] = "open"]
  /\ UNCHANGED <<exists, at, err, ctxDone, holder, ahead, late, due, jobs>>

\* Dial or login fails.
ConnectFails(p) ==
  /\ pc[p] = "dialing"
  /\ Fail(p)
  /\ UNCHANGED <<exists, at, ctxDone, late, due, jobs>>

\* connectTimeout passes first; the attempt goes on in its own goroutine.
ConnectTimesOut(p) ==
  /\ pc[p] = "dialing"
  /\ \E i \in Attempts :
       /\ late[at[p]][i] = "none"
       /\ late' = [late EXCEPT ![at[p]][i] = "dialing"]
  /\ Fail(p)
  /\ UNCHANGED <<exists, at, ctxDone, due, jobs>>

Late(a, i, before, after) ==
  /\ late[a][i] = before
  /\ late' = [late EXCEPT ![a][i] = after]
  /\ UNCHANGED <<exists, pc, at, err, ctxDone, holder, ahead, due, jobs>>

\* The abandoned dial or login fails, or it yields a session nobody waits for,
\* possibly beside that of the mailbox's next user.
LateFails(a, i) == Late(a, i, "dialing", "none")
LateLogsIn(a, i) == Late(a, i, "dialing", "open")

\* Mutation: the result lies in the channel's buffer, and nobody receives it.
LateNeverReceived(a, i) == FALSE /\ Late(a, i, "open", "none")

\* The goroutine that the timeout left behind receives the session and closes it.
LateCloses(a, i) == Late(a, i, "open", "none")

\* fn returns, with an error or without; the first deferred call is Close.
Close(p) ==
  /\ pc[p] = "open"
  /\ pc' = [pc EXCEPT ![p] = "closed"]
  /\ \E e \in BOOLEAN : err' = [err EXCEPT ![p] = e]
  /\ UNCHANGED <<exists, at, ctxDone, holder, ahead, late, due, jobs>>

\* The second deferred call gives the lock back.
Unlock(p) ==
  /\ pc[p] = "closed"
  /\ Finish(p)
  /\ UNCHANGED <<exists, at, err, ctxDone, late, due, jobs>>

\* Mutation: the job's goroutine returns early on an error.
ReturnForgetsFailedJob(p) ==
  /\ pc[p] = "returning"
  /\ pc' = [pc EXCEPT ![p] = "idle"]
  /\ at' = [at EXCEPT ![p] = Home[p]]
  /\ err' = [err EXCEPT ![p] = FALSE]
  /\ ctxDone' = [ctxDone EXCEPT ![p] = @ /\ p = Ticker]
  /\ jobs' = IF p \in Accounts /\ ~err[p]
             THEN [jobs EXCEPT ![p].running = FALSE]
             ELSE jobs
  /\ UNCHANGED <<exists, holder, ahead, late, due>>

\* The caller is done: the handler answers, the sweep goes on, the job's
\* goroutine records how it ended.  A request's context ends with it.
Return(p) ==
  /\ pc[p] = "returning"
  /\ pc' = [pc EXCEPT ![p] = "idle"]
  /\ at' = [at EXCEPT ![p] = Home[p]]
  /\ err' = [err EXCEPT ![p] = FALSE]
  /\ ctxDone' = [ctxDone EXCEPT ![p] = @ /\ p = Ticker]
  /\ jobs' = IF p \in Accounts
             THEN [jobs EXCEPT ![p] = [running |-> FALSE, error |-> err[p]]]
             ELSE jobs
  /\ UNCHANGED <<exists, holder, ahead, late, due>>

-----------------------------------------------------------------------------
(* Around them.                                                            *)

\* handleDeleteAccount takes no lock.  Ids are AUTOINCREMENT: none comes back.
DeleteAccount(a) ==
  /\ exists[a]
  /\ exists' = [exists EXCEPT ![a] = FALSE]
  /\ UNCHANGED <<pc, at, err, ctxDone, holder, ahead, late, due, jobs>>

\* The process dies or exits and comes back: locks, jobs and sessions are gone.
Restart ==
  /\ pc # Idle
  /\ pc' = Idle /\ at' = Home
  /\ err' = [p \in Procs |-> FALSE]
  /\ ctxDone' = [p \in Procs |-> FALSE]
  /\ holder' = [a \in Accounts |-> None]
  /\ ahead' = [p \in Procs |-> {}]
  /\ late' = NoLate
  /\ due' = {}
  /\ jobs' = [a \in Accounts |-> [running |-> FALSE, error |-> FALSE]]
  /\ UNCHANGED exists

Step(p) ==
  \/ Acquire(p) \/ Park(p) \/ LoadCredentials(p) \/ CredentialsFail(p)
  \/ Connect(p) \/ ConnectFails(p) \/ ConnectTimesOut(p)
  \/ Close(p) \/ Unlock(p) \/ Return(p)

Next ==
  \/ \E a \in Accounts :
       \/ StartJob(a) \/ Visit(a) \/ DeleteAccount(a)
       \/ \E i \in Attempts : LateFails(a, i) \/ LateLogsIn(a, i) \/ LateCloses(a, i)
       \/ \E r \in Requests : Arrive(r, a)
       \/ \E d \in Directs : ArriveDirect(d, a)
  \/ Tick
  \/ \E p \in Requests \cup {Ticker} : Cancel(p) \/ GiveUp(p)
  \/ \E p \in Procs : Step(p)
  \/ Restart

Spec == Init /\ [][Next]_vars

\* Every goroutine keeps running and every IMAP call returns: the dial has
\* connectTimeout, and the client library puts a deadline on each read.  An
\* abandoned dial may go on for ever; only closing what it yields is certain.
Fairness ==
  /\ \A p \in Procs : WF_vars(Step(p))
  /\ \A p \in Requests \cup {Ticker} : WF_vars(GiveUp(p))
  /\ \A a \in Accounts : WF_vars(Visit(a)) /\ \A i \in Attempts : WF_vars(LateCloses(a, i))

\* The server may stall whoever holds the mailbox; only giving up is certain.
GiveUpFairness == \A p \in Requests \cup {Ticker} : WF_vars(GiveUp(p))

-----------------------------------------------------------------------------
(* Properties.                                                             *)

TypeOK ==
  /\ exists \in [Accounts -> BOOLEAN]
  /\ pc \in [Procs -> {"idle", "calling", "waiting", "locked", "dialing",
                       "open", "closed", "returning"}]
  /\ \A d \in Directs : pc[d] \notin {"calling", "waiting", "locked"}
  /\ at \in [Procs -> Accounts]
  /\ err \in [Procs -> BOOLEAN]
  /\ ctxDone \in [Procs -> BOOLEAN] /\ \A a \in Accounts : ~ctxDone[a]
  /\ holder \in [Accounts -> Lockers \cup {None}]
  /\ ahead \in [Procs -> SUBSET Lockers]
  /\ late \in [Accounts -> [Attempts -> {"none", "dialing", "open"}]]
  /\ due \in SUBSET Accounts
  /\ jobs \in [Accounts -> [running : BOOLEAN, error : BOOLEAN]]

\* Between the send and the deferred receive.
InSection(p) == p \in Lockers /\ pc[p] \in {"locked", "dialing", "open", "closed"}

\* Two goroutines that went through WithProvider never work on one mailbox at
\* the same time, whatever fails, times out, is cancelled or is handed on.
MailboxExclusive ==
  \A p, q \in Lockers : InSection(p) /\ InSection(q) /\ at[p] = at[q] => p = q

\* A full channel always has a live goroutine that will empty it: no path out
\* of WithProvider (missing row, failed or timed-out connect, failing fn,
\* giving up while parked) leaves a token behind.
TokenHasOwner ==
  \A a \in Accounts : holder[a] # None => InSection(holder[a]) /\ at[holder[a]] = a

\* Nobody stays parked on a channel that has room.
NoLostWakeup ==
  \A a \in Accounts : holder[a] = None => Parked(a) = {}

\* The sync status a client polls says "running" exactly while the job's
\* goroutine exists, so Start neither doubles a job nor refuses one for ever.
JobStatusTruthful ==
  \A a \in Accounts : jobs[a].running <=> pc[a] # "idle"

\* WithProvider's comment: no two IMAP sessions for one account, ever.
OneSessionPerMailbox ==
  \A p, q \in Procs : pc[p] = "open" /\ pc[q] = "open" /\ at[p] = at[q] => p = q

\* A caller gets its turn or leaves: the queue is served in order.
CallerServed ==
  Fairness => \A p \in Lockers :
    pc[p] = "calling" ~> pc[p] \in {"locked", "returning", "idle"}

\* What runs with nobody waiting for it ends: a sync job that was started, and
\* its status says so; and the session that an abandoned connect yields late is
\* closed instead of staying open on the server.
DetachedWorkEnds ==
  Fairness => \A a \in Accounts :
    /\ jobs[a].running ~> ~jobs[a].running
    /\ \A i \in Attempts : late[a][i] = "open" ~> late[a][i] # "open"

\* Even behind a stalled holder, a caller whose context ends does not hang.
CancelledCallerLeaves ==
  GiveUpFairness => \A p \in Requests \cup {Ticker} :
    pc[p] \in {"calling", "waiting"} /\ ctxDone[p] ~> pc[p] \notin {"calling", "waiting"}

\* WithProvider implements the mutex its callers rely on.
Users == [a \in Accounts |->
            {p \in Lockers : pc[p] \in {"dialing", "open"} /\ at[p] = a}]
Mutex == INSTANCE MailboxMutex WITH users <- Users
MutexSpec == Mutex!Spec
=============================================================================

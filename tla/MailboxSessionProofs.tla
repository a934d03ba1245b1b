------------------------ MODULE MailboxSessionProofs ------------------------
(***************************************************************************)
(* Proofs about MailboxSession for any number of mailboxes, requests and   *)
(* direct handlers: its state stays well typed, the lock excludes, no      *)
(* token is left behind, nobody stays parked on a free mailbox, a job's    *)
(* status is true, and WithProvider implements the mutex of MailboxMutex.  *)
(***************************************************************************)
EXTENDS MailboxSession, TLAPS

PCs == {"idle", "calling", "waiting", "locked", "dialing", "open", "closed", "returning"}

\* Every goroutine has a mailbox.
LEMMA HomeType == Home \in [Procs -> Accounts]
<1>1. (CHOOSE a \in Accounts : TRUE) \in Accounts
  BY AccountsAssumption
<1> QED
  BY <1>1 DEF Home

\* What giving the lock back, or failing, does to the types.
LEMMA FinishType ==
  ASSUME TypeOK, NEW p \in Procs, Finish(p)
  PROVE  /\ pc' \in [Procs -> PCs]
         /\ holder' \in [Accounts -> Lockers \cup {None}]
         /\ ahead' \in [Procs -> SUBSET Lockers]
         /\ \A d \in Directs : pc'[d] \notin {"calling", "waiting", "locked"}
<1>0. at[p] \in Accounts
  BY DEF TypeOK
<1>1. CASE p \in Lockers /\ Parked(at[p]) = {}
  BY <1>0, <1>1 DEF TypeOK, Finish, Release, PCs, Procs
<1>2. CASE p \in Lockers /\ Parked(at[p]) # {}
  <2>1. PICK w \in Parked(at[p]) :
          /\ holder' = [holder EXCEPT ![at[p]] = w]
          /\ pc' = [pc EXCEPT ![p] = "returning", ![w] = "locked"]
          /\ ahead' = [q \in Procs |-> ahead[q] \ {w}]
    BY <1>2 DEF Finish, Release
  <2>2. w \in Lockers /\ w \notin Directs
    BY ProcsAssumption DEF Parked
  <2> QED
    BY <1>0, <2>1, <2>2 DEF TypeOK, PCs, Procs
<1>3. CASE p \notin Lockers
  BY <1>3 DEF TypeOK, Finish, PCs, Procs
<1> QED
  BY <1>1, <1>2, <1>3

\* The state stays well typed: in particular a mailbox's queue holds only
\* goroutines that use the lock, and nothing cancels the context of a job.
THEOREM TypeCorrect == Spec => []TypeOK
<1>1. Init => TypeOK
  BY HomeType DEF Init, TypeOK, Idle, NoLate, Procs, Lockers
<1>2. TypeOK /\ [Next]_vars => TypeOK'
  <2> SUFFICES ASSUME TypeOK, [Next]_vars PROVE TypeOK'
    OBVIOUS
  <2>1. ASSUME NEW r \in Requests, NEW a \in Accounts, Arrive(r, a) PROVE TypeOK'
    BY <2>1, ProcsAssumption DEF TypeOK, Arrive, Procs, Lockers
  <2>2. ASSUME NEW d \in Directs, NEW a \in Accounts, ArriveDirect(d, a) PROVE TypeOK'
    BY <2>2, ProcsAssumption DEF TypeOK, ArriveDirect, Procs, Lockers
  <2>3. ASSUME NEW a \in Accounts, StartJob(a) PROVE TypeOK'
    BY <2>3, ProcsAssumption DEF TypeOK, StartJob, Procs, Lockers
  <2>4. CASE Tick
    BY <2>4 DEF TypeOK, Tick
  <2>5. ASSUME NEW a \in Accounts, Visit(a) PROVE TypeOK'
    BY <2>5, ProcsAssumption DEF TypeOK, Visit, Procs, Lockers
  <2>6. ASSUME NEW p \in Requests \cup {Ticker}, Cancel(p) PROVE TypeOK'
    BY <2>6, ProcsAssumption DEF TypeOK, Cancel, Procs, Lockers
  <2>7. ASSUME NEW p \in Requests \cup {Ticker}, GiveUp(p) PROVE TypeOK'
    BY <2>7, ProcsAssumption DEF TypeOK, GiveUp, Procs, Lockers
  <2>8. ASSUME NEW a \in Accounts, NEW i \in Attempts,
               LateFails(a, i) \/ LateLogsIn(a, i) \/ LateCloses(a, i)
        PROVE  TypeOK'
    <3>1. PICK b \in {"none", "dialing", "open"} : late' = [late EXCEPT ![a][i] = b]
      BY <2>8 DEF LateFails, LateLogsIn, LateCloses, Late
    <3>2. late' \in [Accounts -> [Attempts -> {"none", "dialing", "open"}]]
      BY <3>1 DEF TypeOK
    <3> QED
      BY <2>8, <3>2 DEF TypeOK, LateFails, LateLogsIn, LateCloses, Late
  <2>9. ASSUME NEW a \in Accounts, DeleteAccount(a) PROVE TypeOK'
    BY <2>9 DEF TypeOK, DeleteAccount
  <2>10. CASE Restart
    <3>1. jobs' \in [Accounts -> [running : BOOLEAN, error : BOOLEAN]]
      BY <2>10 DEF Restart
    <3> QED
      BY <2>10, <3>1, HomeType DEF TypeOK, Restart, Idle, NoLate, Procs, Lockers
  <2>11. ASSUME NEW p \in Procs, Step(p) PROVE TypeOK'
    <3>0. at[p] \in Accounts
      BY DEF TypeOK
    <3>1. CASE Acquire(p)
      BY <3>0, <3>1 DEF TypeOK, Acquire, Procs
    <3>2. CASE Park(p)
      BY <3>2 DEF TypeOK, Park, Parked
    <3>3. CASE LoadCredentials(p)
      BY <3>3 DEF TypeOK, LoadCredentials
    <3>4. CASE CredentialsFail(p)
      BY <3>4, FinishType DEF TypeOK, CredentialsFail, Fail, PCs
    <3>5. CASE Connect(p)
      BY <3>5 DEF TypeOK, Connect
    <3>6. CASE ConnectFails(p)
      BY <3>6, FinishType DEF TypeOK, ConnectFails, Fail, PCs
    <3>7. CASE ConnectTimesOut(p)
      BY <3>0, <3>7, FinishType DEF TypeOK, ConnectTimesOut, Fail, PCs
    <3>8. CASE Close(p)
      BY <3>8 DEF TypeOK, Close
    <3>9. CASE Unlock(p)
      BY <3>9, FinishType DEF TypeOK, Unlock, PCs
    <3>10. CASE Return(p)
      <4>1. ctxDone' \in [Procs -> BOOLEAN]
        <5>1. (ctxDone[p] /\ p = Ticker) \in BOOLEAN
          OBVIOUS
        <5> QED
          BY <5>1, <3>10, Zenon DEF TypeOK, Return
      <4>2. jobs' \in [Accounts -> [running : BOOLEAN, error : BOOLEAN]]
        <5>1. [running |-> FALSE, error |-> err[p]] \in [running : BOOLEAN, error : BOOLEAN]
          BY DEF TypeOK
        <5> QED
          BY <5>1, <3>10 DEF TypeOK, Return
      <4>3. at' \in [Procs -> Accounts]
        BY <3>10, HomeType DEF TypeOK, Return
      <4> QED
        BY <4>1, <4>2, <4>3, <3>10 DEF TypeOK, Return
    <3> QED
      BY <2>11, <3>1, <3>2, <3>3, <3>4, <3>5, <3>6, <3>7, <3>8, <3>9, <3>10 DEF Step
  <2>12. CASE UNCHANGED vars
    BY <2>12 DEF TypeOK, vars
  <2> QED
    BY <2>1, <2>2, <2>3, <2>4, <2>5, <2>6, <2>7, <2>8, <2>9, <2>10, <2>11, <2>12 DEF Next
<1> QED
  BY <1>1, <1>2, PTL DEF Spec

-----------------------------------------------------------------------------
\* Why the lock excludes: whoever is inside owns the token of its mailbox, a
\* token always has an owner inside, nobody waits for a token that is not
\* there, and a job runs for as long as its status says.
OwnerInside == \A p \in Lockers : InSection(p) => holder[at[p]] = p
IInv == OwnerInside /\ TokenHasOwner /\ NoLostWakeup /\ JobStatusTruthful

\* Handing the token on, or leaving an empty channel, keeps all of it.
LEMMA FinishInv ==
  ASSUME TypeOK, IInv, NEW p \in Procs, Finish(p), UNCHANGED <<at, jobs>>,
         pc[p] \in {"locked", "dialing", "open", "closed"}
  PROVE  IInv'
<1> USE ProcsAssumption DEF Procs, Lockers
<1>0. at[p] \in Accounts
  BY DEF TypeOK
<1>1. CASE p \in Lockers /\ Parked(at[p]) = {}
  <2>1. /\ holder' = [holder EXCEPT ![at[p]] = None]
        /\ pc' = [pc EXCEPT ![p] = "returning"]
    BY <1>1 DEF Finish, Release
  <2>2. OwnerInside' /\ TokenHasOwner'
    BY <1>0, <1>1, <2>1 DEF TypeOK, IInv, OwnerInside, TokenHasOwner, InSection
  <2>3. NoLostWakeup' /\ JobStatusTruthful'
    BY <1>0, <1>1, <2>1 DEF TypeOK, IInv, NoLostWakeup, JobStatusTruthful, Parked
  <2> QED
    BY <2>2, <2>3 DEF IInv
<1>2. CASE p \in Lockers /\ Parked(at[p]) # {}
  <2>1. PICK w \in Parked(at[p]) :
          /\ holder' = [holder EXCEPT ![at[p]] = w]
          /\ pc' = [pc EXCEPT ![p] = "returning", ![w] = "locked"]
    BY <1>2 DEF Finish, Release
  <2>2. w \in Lockers /\ pc[w] = "waiting" /\ at[w] = at[p] /\ w # None /\ w # p
    BY DEF Parked
  <2>3. /\ pc' = [q \in Procs |-> IF q = w THEN "locked"
                                 ELSE IF q = p THEN "returning" ELSE pc[q]]
        /\ holder' = [a \in Accounts |-> IF a = at[p] THEN w ELSE holder[a]]
        /\ at' = at
    <3>1. pc \in [Procs -> PCs] /\ holder \in [Accounts -> Lockers \cup {None}]
      BY DEF TypeOK, PCs
    <3> QED
      BY <2>1, <2>2, <3>1
  <2>4. OwnerInside'
    BY <1>0, <1>2, <2>3, <2>2 DEF TypeOK, IInv, OwnerInside, InSection
  <2>5. TokenHasOwner'
    BY <1>0, <1>2, <2>3, <2>2 DEF TypeOK, IInv, OwnerInside, TokenHasOwner, InSection
  <2>6. NoLostWakeup' /\ JobStatusTruthful'
    BY <1>0, <1>2, <2>3, <2>2 DEF TypeOK, IInv, NoLostWakeup, JobStatusTruthful, Parked
  <2> QED
    BY <2>4, <2>5, <2>6 DEF IInv
<1>3. CASE p \notin Lockers
  <2>1. pc' = [pc EXCEPT ![p] = "returning"] /\ UNCHANGED <<holder, at, jobs>>
    BY <1>3 DEF Finish
  <2>2. OwnerInside' /\ TokenHasOwner'
    BY <1>3, <2>1 DEF TypeOK, IInv, OwnerInside, TokenHasOwner, InSection
  <2>3. NoLostWakeup' /\ JobStatusTruthful'
    BY <1>3, <2>1 DEF TypeOK, IInv, NoLostWakeup, JobStatusTruthful, Parked
  <2> QED
    BY <2>2, <2>3 DEF IInv
<1> QED
  BY <1>1, <1>2, <1>3

\* The invariant holds in every reachable state.
LEMMA InductiveInvariant == Spec => []IInv
<1>1. Init => IInv
  BY ProcsAssumption DEF Init, IInv, OwnerInside, TokenHasOwner, InSection, NoLostWakeup,
                         JobStatusTruthful, Parked, Idle, Procs, Lockers
<1>2. TypeOK /\ IInv /\ [Next]_vars => IInv'
  <2> SUFFICES ASSUME TypeOK, IInv, [Next]_vars PROVE IInv'
    OBVIOUS
  <2> USE ProcsAssumption DEF Procs, Lockers, TypeOK, IInv, OwnerInside, TokenHasOwner,
                              InSection, NoLostWakeup, JobStatusTruthful, Parked
  <2>1. ASSUME NEW r \in Requests, NEW a \in Accounts, Arrive(r, a) PROVE IInv'
    BY <2>1 DEF Arrive
  <2>2. ASSUME NEW d \in Directs, NEW a \in Accounts, ArriveDirect(d, a) PROVE IInv'
    BY <2>2 DEF ArriveDirect
  <2>3. ASSUME NEW a \in Accounts, StartJob(a) PROVE IInv'
    BY <2>3 DEF StartJob
  <2>4. CASE Tick
    BY <2>4 DEF Tick
  <2>5. ASSUME NEW a \in Accounts, Visit(a) PROVE IInv'
    <3>1. /\ pc[Ticker] = "idle"
          /\ UNCHANGED <<holder, jobs>>
          /\ pc' = pc \/ pc' = [pc EXCEPT ![Ticker] = "calling"]
          /\ \A q \in Procs : q # Ticker => at'[q] = at[q]
      BY <2>5 DEF Visit
    <3>2. OwnerInside' /\ TokenHasOwner'
      BY <3>1
    <3>3. NoLostWakeup' /\ JobStatusTruthful'
      BY <3>1
    <3> QED
      BY <3>2, <3>3
  <2>6. ASSUME NEW p \in Requests \cup {Ticker}, Cancel(p) PROVE IInv'
    BY <2>6 DEF Cancel
  <2>7. ASSUME NEW p \in Requests \cup {Ticker}, GiveUp(p) PROVE IInv'
    BY <2>7 DEF GiveUp
  <2>8. ASSUME NEW a \in Accounts, NEW i \in Attempts,
               LateFails(a, i) \/ LateLogsIn(a, i) \/ LateCloses(a, i)
        PROVE  IInv'
    BY <2>8 DEF LateFails, LateLogsIn, LateCloses, Late
  <2>9. ASSUME NEW a \in Accounts, DeleteAccount(a) PROVE IInv'
    BY <2>9 DEF DeleteAccount
  <2>10. CASE Restart
    BY <2>10 DEF Restart, Idle
  <2>11. ASSUME NEW p \in Procs, Step(p) PROVE IInv'
    <3>1. CASE Acquire(p)
      BY <3>1 DEF Acquire
    <3>2. CASE Park(p)
      BY <3>2 DEF Park
    <3>3. CASE LoadCredentials(p)
      BY <3>3 DEF LoadCredentials
    <3>4. CASE CredentialsFail(p)
      BY <3>4, FinishInv DEF CredentialsFail, Fail
    <3>5. CASE Connect(p)
      BY <3>5 DEF Connect
    <3>6. CASE ConnectFails(p)
      BY <3>6, FinishInv DEF ConnectFails, Fail
    <3>7. CASE ConnectTimesOut(p)
      BY <3>7, FinishInv DEF ConnectTimesOut, Fail
    <3>8. CASE Close(p)
      BY <3>8 DEF Close
    <3>9. CASE Unlock(p)
      BY <3>9, FinishInv DEF Unlock
    <3>10. CASE Return(p)
      BY <3>10 DEF Return
    <3> QED
      BY <2>11, <3>1, <3>2, <3>3, <3>4, <3>5, <3>6, <3>7, <3>8, <3>9, <3>10 DEF Step
  <2>12. CASE UNCHANGED vars
    BY <2>12 DEF vars
  <2> QED
    BY <2>1, <2>2, <2>3, <2>4, <2>5, <2>6, <2>7, <2>8, <2>9, <2>10, <2>11, <2>12 DEF Next
<1> QED
  BY <1>1, <1>2, TypeCorrect, PTL DEF Spec

\* At most one goroutine is between WithProvider's send and receive for one
\* mailbox, with any number of mailboxes and callers.
THEOREM Exclusion == Spec => []MailboxExclusive
<1>1. IInv => MailboxExclusive
  BY DEF IInv, OwnerInside, MailboxExclusive, InSection
<1> QED
  BY <1>1, InductiveInvariant, PTL

\* No way out of WithProvider leaves the channel full behind it.
THEOREM NoTokenLeftBehind == Spec => []TokenHasOwner
<1>1. IInv => TokenHasOwner
  BY DEF IInv
<1> QED
  BY <1>1, InductiveInvariant, PTL

\* Nobody stays parked on a channel that has room.
THEOREM NobodyForgotten == Spec => []NoLostWakeup
<1>1. IInv => NoLostWakeup
  BY DEF IInv
<1> QED
  BY <1>1, InductiveInvariant, PTL

\* A sync job's status is "running" exactly while its goroutine exists.
THEOREM JobStatusCorrect == Spec => []JobStatusTruthful
<1>1. IInv => JobStatusTruthful
  BY DEF IInv
<1> QED
  BY <1>1, InductiveInvariant, PTL

-----------------------------------------------------------------------------
(* WithProvider implements the mutex.                                      *)

InUse(q) == pc[q] \in {"dialing", "open"}

\* Only p comes or goes: the mutex sees a change at p's mailbox alone.
LEMMA UsersChange ==
  ASSUME NEW p \in Lockers, UNCHANGED at, NEW S,
         \A q \in Lockers : q # p => (InUse(q)' <=> InUse(q)),
         {q \in Lockers : InUse(q)' /\ at[q] = at[p]} = S
  PROVE  Users' = [Users EXCEPT ![at[p]] = S]
<1>1. \A a \in Accounts : {q \in Lockers : InUse(q)' /\ at'[q] = a}
        = IF a = at[p] THEN S ELSE {q \in Lockers : InUse(q) /\ at[q] = a}
  OBVIOUS
<1>2. Users = [a \in Accounts |-> {q \in Lockers : InUse(q) /\ at[q] = a}]
  BY DEF Users, InUse
<1>3. Users' = [a \in Accounts |-> {q \in Lockers : InUse(q)' /\ at'[q] = a}]
  BY DEF Users, InUse
<1> QED
  BY <1>1, <1>2, <1>3

\* What giving the lock back, or failing, is to the mutex: Leave if the
\* goroutine was talking to the server, nothing if it was not (yet, or any
\* more).  The one that is handed the token is not talking to it yet.
LEMMA FinishUsers ==
  ASSUME TypeOK, IInv, NEW p \in Procs, Finish(p), UNCHANGED at,
         pc[p] \in {"locked", "dialing", "open", "closed"}
  PROVE  Mutex!Next \/ Users' = Users
<1> USE ProcsAssumption DEF Procs, Lockers
<1>0. at[p] \in Accounts
  BY DEF TypeOK
<1>1. \A q \in Lockers : q # p =>
        (pc'[q] \in {"dialing", "open"} <=> pc[q] \in {"dialing", "open"})
  <2>1. CASE p \in Lockers /\ Parked(at[p]) # {}
    <3>1. PICK w \in Parked(at[p]) : pc' = [pc EXCEPT ![p] = "returning", ![w] = "locked"]
      BY <2>1 DEF Finish, Release
    <3>2. pc[w] = "waiting"
      BY DEF Parked
    <3> QED
      BY <3>1, <3>2 DEF TypeOK
  <2>2. CASE ~(p \in Lockers /\ Parked(at[p]) # {})
    BY <2>2 DEF Finish, Release, TypeOK
  <2> QED
    BY <2>1, <2>2
<1>2. pc'[p] = "returning"
  <2>1. CASE p \in Lockers /\ Parked(at[p]) # {}
    <3>1. PICK w \in Parked(at[p]) : pc' = [pc EXCEPT ![p] = "returning", ![w] = "locked"]
      BY <2>1 DEF Finish, Release
    <3> QED
      BY <3>1 DEF TypeOK, Parked
  <2>2. CASE ~(p \in Lockers /\ Parked(at[p]) # {})
    BY <2>2 DEF Finish, Release, TypeOK
  <2> QED
    BY <2>1, <2>2
<1>3. CASE p \in Lockers /\ pc[p] \in {"dialing", "open"}
  <2>1. Users[at[p]] = {p}
    BY <1>0, <1>3 DEF Users, IInv, OwnerInside, InSection
  <2>2. Users' = [Users EXCEPT ![at[p]] = {}]
    <3>1. {q \in Lockers : InUse(q)' /\ at[q] = at[p]} = {}
      BY <1>0, <1>1, <1>2, <2>1 DEF Users, InUse
    <3> QED
      BY <1>1, <1>3, <3>1, UsersChange DEF InUse
  <2>3. Mutex!Leave(at[p])
    BY <2>1, <2>2 DEF Mutex!Leave
  <2> QED
    BY <1>0, <2>3 DEF Mutex!Next
<1>4. CASE ~(p \in Lockers /\ pc[p] \in {"dialing", "open"})
  BY <1>1, <1>2, <1>4 DEF Users
<1> QED
  BY <1>3, <1>4

\* With any number of callers WithProvider is a mutex per mailbox: a step of it
\* lets one goroutine in where there is none, lets one out, or is invisible.
THEOREM ImplementsMutex == Spec => MutexSpec
<1>1. Init => Mutex!Init
  BY DEF Init, Mutex!Init, Users, Idle, Procs
<1>2. TypeOK /\ IInv /\ [Next]_vars => [Mutex!Next]_Users
  <2> SUFFICES ASSUME TypeOK, IInv, [Next]_vars PROVE Mutex!Next \/ Users' = Users
    OBVIOUS
  <2> USE ProcsAssumption DEF Procs, Lockers
  <2>1. ASSUME NEW r \in Requests, NEW a \in Accounts, Arrive(r, a) PROVE Users' = Users
    BY <2>1 DEF Arrive, Users, TypeOK
  <2>2. ASSUME NEW d \in Directs, NEW a \in Accounts, ArriveDirect(d, a) PROVE Users' = Users
    BY <2>2 DEF ArriveDirect, Users, TypeOK
  <2>3. ASSUME NEW a \in Accounts, StartJob(a) PROVE Users' = Users
    BY <2>3 DEF StartJob, Users, TypeOK, JobStatusTruthful, IInv
  <2>4. ASSUME Tick PROVE Users' = Users
    BY <2>4 DEF Tick, Users, TypeOK
  <2>5. ASSUME NEW a \in Accounts, Visit(a) PROVE Users' = Users
    BY <2>5 DEF Visit, Users, TypeOK
  <2>6. ASSUME NEW p \in Requests \cup {Ticker}, Cancel(p) PROVE Users' = Users
    BY <2>6 DEF Cancel, Users, TypeOK
  <2>7. ASSUME NEW p \in Requests \cup {Ticker}, GiveUp(p) PROVE Users' = Users
    BY <2>7 DEF GiveUp, Users, TypeOK
  <2>8. ASSUME NEW a \in Accounts, NEW i \in Attempts,
               LateFails(a, i) \/ LateLogsIn(a, i) \/ LateCloses(a, i)
        PROVE  Users' = Users
    BY <2>8 DEF LateFails, LateLogsIn, LateCloses, Late, Users, TypeOK
  <2>9. ASSUME NEW a \in Accounts, DeleteAccount(a) PROVE Users' = Users
    BY <2>9 DEF DeleteAccount, Users, TypeOK
  <2>10. CASE Restart
    <3>1. Users' = [a \in Accounts |-> {}]
      BY <2>10 DEF Restart, Users, Idle
    <3> QED
      BY <3>1 DEF Mutex!Next, Mutex!Restart
  <2>11. ASSUME NEW p \in Procs, Step(p) PROVE Mutex!Next \/ Users' = Users
    <3>0. at[p] \in Accounts
      BY DEF TypeOK
    <3>1. CASE Acquire(p)
      BY <3>1 DEF Acquire, Users, TypeOK
    <3>2. CASE Park(p)
      BY <3>2 DEF Park, Users, TypeOK
    <3>3. CASE LoadCredentials(p)
      <4>1. p \in Lockers
        BY <3>3 DEF LoadCredentials, TypeOK
      <4>2. Users[at[p]] = {}
        BY <3>0, <3>3, <4>1 DEF LoadCredentials, Users, IInv, OwnerInside, InSection
      <4>3. Users' = [Users EXCEPT ![at[p]] = {p}]
        <5>1. {q \in Lockers : InUse(q)' /\ at[q] = at[p]} = {p}
          <6>1. \A q \in Lockers : at[q] = at[p] => ~InUse(q)
            BY <3>0, <4>2 DEF Users, InUse
          <6>2. InUse(p)'
            BY <3>3 DEF LoadCredentials, InUse, TypeOK
          <6>3. \A q \in Lockers : q # p => (InUse(q)' <=> InUse(q))
            BY <3>3 DEF LoadCredentials, InUse, TypeOK
          <6> QED
            BY <4>1, <6>1, <6>2, <6>3
        <5>2. \A q \in Lockers : q # p => (InUse(q)' <=> InUse(q))
          BY <3>3 DEF LoadCredentials, InUse, TypeOK
        <5> QED
          BY <3>3, <4>1, <5>1, <5>2, UsersChange DEF LoadCredentials
      <4> QED
        BY <3>0, <4>1, <4>2, <4>3 DEF Mutex!Next, Mutex!Enter
    <3>4. CASE CredentialsFail(p)
      BY <3>4, FinishUsers DEF CredentialsFail, Fail
    <3>5. CASE Connect(p)
      BY <3>5 DEF Connect, Users, TypeOK
    <3>6. CASE ConnectFails(p)
      BY <3>6, FinishUsers DEF ConnectFails, Fail
    <3>7. CASE ConnectTimesOut(p)
      BY <3>7, FinishUsers DEF ConnectTimesOut, Fail
    <3>8. CASE Close(p)
      <4>1. CASE p \in Lockers
        <5>1. Users[at[p]] = {p}
          BY <3>0, <3>8, <4>1 DEF Close, Users, IInv, OwnerInside, InSection
        <5>2. Users' = [Users EXCEPT ![at[p]] = {}]
          <6>1. {q \in Lockers : InUse(q)' /\ at[q] = at[p]} = {}
            BY <3>0, <3>8, <4>1, <5>1 DEF Close, Users, InUse, TypeOK
          <6>2. \A q \in Lockers : q # p => (InUse(q)' <=> InUse(q))
            BY <3>8 DEF Close, InUse, TypeOK
          <6> QED
            BY <3>8, <4>1, <6>1, <6>2, UsersChange DEF Close
        <5> QED
          BY <3>0, <5>1, <5>2 DEF Mutex!Next, Mutex!Leave
      <4>2. CASE p \notin Lockers
        BY <3>8, <4>2 DEF Close, Users, TypeOK
      <4> QED
        BY <4>1, <4>2
    <3>9. CASE Unlock(p)
      BY <3>9, FinishUsers DEF Unlock
    <3>10. CASE Return(p)
      BY <3>10 DEF Return, Users, TypeOK
    <3> QED
      BY <2>11, <3>1, <3>2, <3>3, <3>4, <3>5, <3>6, <3>7, <3>8, <3>9, <3>10 DEF Step
  <2>12. CASE UNCHANGED vars
    BY <2>12 DEF vars, Users
  <2> QED
    BY <2>1, <2>2, <2>3, <2>4, <2>5, <2>6, <2>7, <2>8, <2>9, <2>10, <2>11, <2>12 DEF Next
<1> QED
  BY <1>1, <1>2, TypeCorrect, InductiveInvariant, PTL DEF Spec, MutexSpec, Mutex!Spec
=============================================================================

--------------------------- MODULE MailIndexProofs ---------------------------
(***************************************************************************)
(* Proofs about MailIndex for any number of messages and clients, and any  *)
(* batch, window and chunk size: the state stays well typed, no live       *)
(* message drops out of the index, and nothing is missing below the saved  *)
(* mark.                                                                   *)
(***************************************************************************)
EXTENDS MailIndex, TLAPS, WellFoundedInduction

-----------------------------------------------------------------------------
(* Facts about the operators of MailIndex.                                 *)

\* A set of naturals that is not empty has a least element.
LEMMA LeastNatural ==
  ASSUME NEW T \in SUBSET Nat, T # {}
  PROVE  \E x \in T : \A y \in T : x <= y
<1> DEFINE R == {ss \in Nat \X Nat : ss[1] < ss[2]}
<1>1. IsWellFoundedOn(R, Nat)
  BY NatLessThanWellFounded, Zenon DEF OpToRel
<1>2. PICK x \in T : \A y \in T : <<y, x>> \notin R
  <2> HIDE DEF R
  <2> QED
    BY <1>1, WFMin
<1>3. \A y \in T : <<y, x>> \in Nat \X Nat /\ <<y, x>>[1] = y /\ <<y, x>>[2] = x
  OBVIOUS
<1>4. \A y \in T : ~(y < x)
  BY <1>2, <1>3
<1> QED
  BY <1>4

\* newestKnown returns the largest UID of the list, or 0.
LEMMA LargestBounds ==
  ASSUME NEW S \in SUBSET Uids
  PROVE  /\ Largest(S) \in S \cup {0}
         /\ \A v \in S : v <= Largest(S)
<1>1. CASE S = {}
  BY <1>1 DEF Largest
<1>2. CASE S # {}
  <2> USE SizeAssumption DEF Uids
  <2> DEFINE T == {MaxUid - u : u \in S}
  <2>0. \A u \in S : u \in Nat /\ MaxUid - u \in Nat
    OBVIOUS
  <2>1. T \in SUBSET Nat /\ T # {}
    BY <1>2, <2>0
  <2>2. PICK x \in T : \A y \in T : x <= y
    <3> HIDE DEF T
    <3> QED
      BY <2>1, LeastNatural
  <2>3. PICK u \in S : x = MaxUid - u
    OBVIOUS
  <2>4. \A v \in S : v <= u
    <3>1. SUFFICES ASSUME NEW v \in S PROVE v <= u
      OBVIOUS
    <3>2. x <= MaxUid - v
      BY <2>2
    <3> HIDE DEF T
    <3> QED
      BY <2>0, <2>3, <3>2
  <2> QED
    BY <2>4 DEF Largest
<1> QED
  BY <1>1, <1>2

Mails == Held \cup {Absent}

\* An action never brings a message back and touches only those it names.
LEMMA OnFacts ==
  ASSUME NEW m \in [Uids -> Mails], NEW U, NEW what \in Actions
  PROVE  /\ On(m, U, what) \in [Uids -> Mails]
         /\ \A u \in Uids : m[u] = Absent => On(m, U, what)[u] = Absent
         /\ \A u \in Uids : u \notin U => On(m, U, what)[u] = m[u]
         /\ \A u \in Uids : On(m, U, what)[u] = Absent => m[u] = Absent \/ (u \in U /\ what = "remove")
         /\ \A u \in Uids : u \in U /\ what = "remove" => On(m, U, what)[u] = Absent
  BY DEF On, Effect, Mails, Held, Absent, Actions

\* A batch is of new messages while there are any, then of those to refresh.
LEMMA BatchFacts ==
  ASSUME NEW b, b = NextBatch
  PROVE  /\ sync.new # {} => b \subseteq sync.new
         /\ sync.new = {} => b \subseteq sync.refresh
  BY DEF NextBatch, Newest, Oldest

\* A pass goes on to fetch or to prune.
LEMMA StageType ==
  ASSUME NEW new, NEW refresh PROVE Stage(new, refresh) \in {"prune", "fetch"}
  BY DEF Stage

-----------------------------------------------------------------------------
(* Types.                                                                  *)

SyncType ==
  [pc : {"off", "list", "read", "fetch", "store", "prune", "save"},
   listed : SUBSET Uids, known : SUBSET Uids, new : SUBSET Uids,
   refresh : SUBSET Uids, batch : [Uids -> Mails]]
ClientType ==
  [pc : {"idle", "wait", "act", "mirror"}, mode : {"direct", "bulk", "job"},
   what : Actions, todo : SUBSET Uids, done : SUBSET Uids]

\* A pass and a client at rest are well typed.
LEMMA OffTypes == NoMail \in [Uids -> Mails] /\ SyncOff \in SyncType /\ Off \in ClientType
  BY DEF NoMail, SyncOff, SyncType, Off, ClientType, Mails, Actions

\* Every step keeps the types.
LEMMA TypeStep ==
  ASSUME TypeOK, [Next]_vars PROVE TypeOK'
<1> USE SizeAssumption
<1>0. /\ box \in [Uids -> Mails] /\ row \in [Uids -> Mails]
      /\ sync \in SyncType /\ client \in [Clients -> ClientType]
  BY DEF TypeOK, Mails, SyncType, ClientType
<1>1. CASE Deliver
  BY <1>1 DEF TypeOK, Deliver, Uids, Held
<1>2. ASSUME NEW u \in Uids, NEW what \in Outside, Elsewhere(u, what) PROVE TypeOK'
  <2>1. what \in Actions
    BY NameAssumption, <1>2 DEF Elsewhere, Actions
  <2>2. box' \in [Uids -> Mails]
    BY <1>0, <1>2, <2>1, OnFacts DEF Elsewhere
  <2> QED
    BY <1>2, <2>2 DEF TypeOK, Elsewhere, Mails
<1>3. CASE SyncStep
  <2>1. CASE SyncStart
    <3>1. sync' \in SyncType
      BY <2>1, OffTypes DEF SyncStart, SyncType
    <3> QED
      BY <2>1, <3>1 DEF TypeOK, SyncStart, SyncType, Mails
  <2>2. CASE SyncList
    <3>1. sync' \in SyncType
      BY <1>0, <2>2 DEF SyncList, SyncType, Present
    <3> QED
      BY <2>2, <3>1 DEF TypeOK, SyncList, SyncType, Mails
  <2>3. CASE SyncRead
    <3>1. PICK known, new, refresh :
            /\ known \subseteq Uids /\ new \subseteq Uids /\ refresh \subseteq Uids
            /\ sync' = [sync EXCEPT !.pc = Stage(new, refresh), !.known = known,
                                    !.new = new, !.refresh = refresh]
      BY <1>0, <2>3 DEF SyncRead, SyncType, Present, Newest
    <3>2. sync' \in SyncType
      BY <1>0, <3>1, StageType DEF SyncType
    <3> QED
      BY <2>3, <3>2 DEF TypeOK, SyncRead, SyncType, Mails
  <2>4. CASE SyncFetch
    <3>1. [u \in Uids |-> IF u \in NextBatch THEN box[u] ELSE Absent] \in [Uids -> Mails]
      BY <1>0 DEF Mails
    <3>2. sync' \in SyncType
      BY <1>0, <2>4, <3>1 DEF SyncFetch, SyncType
    <3> QED
      BY <2>4, <3>2 DEF TypeOK, SyncFetch, SyncType, Mails
  <2>5. CASE SyncStore
    <3>1. row' \in [Uids -> Mails]
      BY <1>0, <2>5 DEF SyncStore, SyncType
    <3>2. PICK new, refresh :
            /\ new \subseteq Uids /\ refresh \subseteq Uids
            /\ sync' = [sync EXCEPT !.pc = Stage(new, refresh), !.new = new,
                                    !.refresh = refresh, !.batch = NoMail]
      <4>1. sync.new \subseteq Uids /\ sync.refresh \subseteq Uids
        BY <1>0 DEF SyncType
      <4> QED
        BY <2>5, <4>1 DEF SyncStore
    <3>3. sync' \in SyncType
      BY <1>0, <3>2, StageType, OffTypes DEF SyncType
    <3> QED
      BY <2>5, <3>1, <3>3 DEF TypeOK, SyncStore, SyncType, Mails
  <2>6. CASE SyncPrune
    <3>1. row' \in [Uids -> Mails]
      BY <1>0, <2>6, OnFacts DEF SyncPrune, Actions
    <3>2. sync' \in SyncType
      BY <1>0, <2>6 DEF SyncPrune, SyncType
    <3> QED
      BY <2>6, <3>1, <3>2 DEF TypeOK, SyncPrune, SyncType, Mails
  <2>7. CASE SyncSave
    <3>1. Largest(sync.listed) \in 0..MaxUid
      BY <1>0, LargestBounds DEF SyncType, Uids
    <3> QED
      BY <2>7, <3>1, OffTypes DEF TypeOK, SyncSave, SyncType, Mails
  <2> QED
    BY <1>3, <2>1, <2>2, <2>3, <2>4, <2>5, <2>6, <2>7 DEF SyncStep
<1>4. CASE SyncFail
  BY <1>4, OffTypes DEF TypeOK, SyncFail, SyncType, Mails
<1>5. ASSUME NEW c \in Clients, Begin(c) PROVE TypeOK'
  <2>1. PICK k \in ClientType : client' = [client EXCEPT ![c] = k]
    <3>1. ASSUME NEW what \in Actions, NEW u \in Uids, BeginDirect(c, u, what)
          PROVE  \E k \in ClientType : client' = [client EXCEPT ![c] = k]
      BY <3>1, OffTypes DEF BeginDirect, ClientType
    <3>2. ASSUME NEW what \in Actions, NEW U \in SUBSET Present(row),
                 BeginBulk(c, U, what) \/ BeginJob(c, U, what)
          PROVE  \E k \in ClientType : client' = [client EXCEPT ![c] = k]
      BY <3>2 DEF BeginBulk, BeginJob, ClientType, Present
    <3>3. "read" \in Actions
      BY DEF Actions
    <3> QED
      BY <1>5, <3>1, <3>2, <3>3 DEF Begin, OpenMessage
  <2>2. UNCHANGED <<box, nextUid, row, lastUid, lock, sync>>
    BY <1>5 DEF Begin, OpenMessage, BeginDirect, BeginBulk, BeginJob
  <2>3. client' \in [Clients -> ClientType]
    BY <1>0, <2>1
  <2> QED
    BY <2>2, <2>3 DEF TypeOK, ClientType, Mails
<1>6. ASSUME NEW c \in Clients, Turn(c) PROVE TypeOK'
  <2>1. client' \in [Clients -> ClientType]
    BY <1>0, <1>6 DEF Turn, ClientType
  <2> QED
    BY <1>6, <2>1 DEF TypeOK, Turn, ClientType, Mails
<1>7. ASSUME NEW c \in Clients, NoTurn(c) PROVE TypeOK'
  <2>1. client' \in [Clients -> ClientType]
    BY <1>0, <1>7, OffTypes DEF NoTurn
  <2> QED
    BY <1>7, <2>1 DEF TypeOK, NoTurn, ClientType, Mails
<1>8. ASSUME NEW c \in Clients, ActSome(c) PROVE TypeOK'
  <2>0. client[c] \in ClientType
    BY <1>0
  <2>1. PICK K \in SUBSET client[c].todo : \E E \in SUBSET K : \E D \in SUBSET E :
          \E more \in BOOLEAN : ProviderCall(c, K, D, E, more)
    BY <1>8 DEF ActSome, Act
  <2>2. PICK E \in SUBSET K, D \in SUBSET K, more \in BOOLEAN :
          D \subseteq E /\ ProviderCall(c, K, D, E, more)
    BY <2>1
  <2>3. K \subseteq Uids /\ D \subseteq Uids
    BY <2>0 DEF ClientType
  <2>4. box' \in [Uids -> Mails]
    BY <1>0, <2>0, <2>2, OnFacts DEF ProviderCall, ClientType
  <2>5. client' \in [Clients -> ClientType]
    <3>1. PICK k \in ClientType : client' = [client EXCEPT ![c] = k]
      BY <2>0, <2>2, <2>3, OffTypes DEF ProviderCall, ClientType
    <3> QED
      BY <1>0, <3>1
  <2> QED
    BY <2>2, <2>4, <2>5 DEF TypeOK, ProviderCall, ClientType, Mails
<1>9. ASSUME NEW c \in Clients, Mirror(c) PROVE TypeOK'
  <2>0. client[c] \in ClientType
    BY <1>0
  <2>1. row' \in [Uids -> Mails]
    BY <1>0, <1>9, <2>0, OnFacts DEF Mirror, ClientType
  <2>2. client' \in [Clients -> ClientType]
    <3>1. [client[c] EXCEPT !.pc = "act", !.done = {}] \in ClientType
      BY <2>0 DEF ClientType
    <3> QED
      BY <1>0, <1>9, <3>1, OffTypes DEF Mirror
  <2> QED
    BY <1>9, <2>1, <2>2 DEF TypeOK, Mirror, ClientType, Mails
<1>10. CASE Crash
  <2>1. client' \in [Clients -> ClientType]
    BY <1>10, OffTypes DEF Crash
  <2> QED
    BY <1>10, <2>1, OffTypes DEF TypeOK, Crash, SyncType, ClientType, Mails
<1>11. CASE UNCHANGED vars
  BY <1>11 DEF TypeOK, vars
<1> QED
  BY <1>1, <1>2, <1>3, <1>4, <1>5, <1>6, <1>7, <1>8, <1>9, <1>10, <1>11 DEF Next, ClientStep

\* The state stays well typed.
THEOREM TypeCorrect == Spec => []TypeOK
<1>1. Init => TypeOK
  BY SizeAssumption, OffTypes DEF Init, TypeOK, Mails, SyncType, ClientType
<1> QED
  BY <1>1, TypeStep, PTL DEF Spec

-----------------------------------------------------------------------------
(* The inductive invariant.  A message that is gone stays gone, for UIDs   *)
(* are given once; so what a pass or a client has learnt to be gone may be *)
(* removed from the index however late that is.                            *)

Given(S) == \A u \in S : u < nextUid

\* Nothing is known of a UID before it is given.
NothingAhead ==
  /\ \A u \in Uids : u >= nextUid => box[u] = Absent /\ row[u] = Absent /\ sync.batch[u] = Absent
  /\ Given(sync.listed) /\ Given(sync.known)
  /\ \A c \in Clients : Given(client[c].todo) /\ Given(client[c].done)
  /\ lastUid < nextUid

\* What a client is about to forget is gone.
RemovedIsGone ==
  \A c \in Clients : client[c].what = "remove" => \A u \in client[c].done : box[u] = Absent

\* So is what a pass is about to prune, from the moment it reads the index.
PrunedIsGone ==
  /\ sync.pc = "read" => \A u \in Uids : row[u] # Absent /\ u \notin sync.listed => box[u] = Absent
  /\ sync.pc \in {"fetch", "store", "prune", "save"} =>
       \A u \in sync.known \ sync.listed : box[u] = Absent

\* The list has everything that is on the server and not newer than it.
ListComplete ==
  sync.pc \notin {"off", "list"} =>
    \A v \in sync.listed, u \in Uids : u <= v /\ box[u] # Absent => u \in sync.listed

\* What the pass listed is indexed or still to be fetched.
ListedInHand ==
  /\ sync.pc = "list" => sync.new \cup sync.refresh = {}
  /\ sync.new \cup sync.refresh \subseteq sync.listed
  /\ sync.pc \in {"fetch", "store", "prune", "save"} =>
       \A u \in sync.listed : box[u] # Absent => row[u] # Absent \/ u \in sync.new
  /\ sync.pc = "store" => \A u \in NextBatch : sync.batch[u] = Absent => box[u] = Absent
  /\ sync.pc \in {"prune", "save"} => sync.new = {}

IInv ==
  /\ NothingAhead /\ RemovedIsGone /\ PrunedIsGone
  /\ ListComplete /\ ListedInHand /\ SavedUidCovered

\* UIDs only grow, and a message that is gone from the server stays gone.
LEMMA GoneStaysGone ==
  ASSUME TypeOK, [Next]_vars
  PROVE  /\ nextUid <= nextUid'
         /\ \A u \in Uids : u < nextUid /\ box[u] = Absent => box'[u] = Absent
<1> USE SizeAssumption DEF Uids
<1>0. box \in [Uids -> Mails] /\ nextUid \in Nat /\ client \in [Clients -> ClientType]
  BY DEF TypeOK, Mails, ClientType
<1>1. CASE Deliver
  BY <1>0, <1>1 DEF Deliver
<1>2. ASSUME NEW u \in Uids, NEW what \in Outside, Elsewhere(u, what)
      PROVE  nextUid' = nextUid /\ \A v \in Uids : box[v] = Absent => box'[v] = Absent
  <2>1. what \in Actions
    BY <1>2, NameAssumption DEF Elsewhere, Actions
  <2> QED
    BY <1>0, <1>2, <2>1, OnFacts DEF Elsewhere
<1>3. ASSUME NEW c \in Clients, ActSome(c)
      PROVE  nextUid' = nextUid /\ \A v \in Uids : box[v] = Absent => box'[v] = Absent
  <2>1. client[c].what \in Actions
    BY <1>0 DEF ClientType
  <2>2. PICK E : nextUid' = nextUid /\ box' = On(box, E, client[c].what)
    BY <1>3 DEF ActSome, Act, ProviderCall
  <2> QED
    BY <1>0, <2>1, <2>2, OnFacts
<1>4. CASE UNCHANGED <<box, nextUid>>
  BY <1>0, <1>4
<1>5. SyncStep \/ SyncFail \/ Crash \/ UNCHANGED vars \/ (\E c \in Clients : Begin(c) \/ NoTurn(c) \/ Turn(c) \/ Mirror(c))
      => UNCHANGED <<box, nextUid>>
  BY DEF SyncStep, SyncStart, SyncList, SyncRead, SyncFetch, SyncStore, SyncPrune, SyncSave,
         SyncFail, Crash, vars, Begin, OpenMessage, BeginDirect, BeginBulk, BeginJob, NoTurn,
         Turn, Mirror
<1> QED
  BY <1>0, <1>1, <1>2, <1>3, <1>4, <1>5 DEF Next, ClientStep

\* A row goes only after its message did.
LEMMA RowsStay ==
  ASSUME TypeOK, IInv, [Next]_vars
  PROVE  \A u \in Uids : row[u] # Absent /\ row'[u] = Absent => box[u] = Absent
<1>0. /\ row \in [Uids -> Mails] /\ sync \in SyncType /\ client \in [Clients -> ClientType]
  BY DEF TypeOK, Mails, SyncType, ClientType
<1>1. CASE SyncStore
  BY <1>0, <1>1 DEF SyncStore
<1>2. CASE SyncPrune
  BY <1>0, <1>2, OnFacts DEF SyncPrune, IInv, PrunedIsGone, Actions
<1>3. ASSUME NEW c \in Clients, Mirror(c)
      PROVE  \A u \in Uids : row[u] # Absent /\ row'[u] = Absent => box[u] = Absent
  <2>1. client[c].what \in Actions
    BY <1>0 DEF ClientType
  <2>2. row' = On(row, client[c].done, client[c].what)
    BY <1>3 DEF Mirror
  <2> QED
    BY <1>0, <2>1, <2>2, OnFacts DEF IInv, RemovedIsGone
<1>4. CASE UNCHANGED row
  BY <1>4
<1>5. SyncStart \/ SyncList \/ SyncRead \/ SyncFetch \/ SyncSave \/ SyncFail \/ Crash \/ Deliver
      \/ (\E u \in Uids, what \in Outside : Elsewhere(u, what)) \/ UNCHANGED vars
      => UNCHANGED row
  BY DEF SyncStart, SyncList, SyncRead, SyncFetch, SyncSave, SyncFail, Crash, vars, Deliver,
         Elsewhere
<1>6. ASSUME NEW c \in Clients, Begin(c) \/ NoTurn(c) \/ Turn(c) \/ ActSome(c)
      PROVE  UNCHANGED row
  BY <1>6 DEF Begin, OpenMessage, BeginDirect, BeginBulk, BeginJob, NoTurn, Turn, ActSome, Act,
              ProviderCall
<1> QED
  BY <1>1, <1>2, <1>3, <1>4, <1>5, <1>6 DEF Next, ClientStep, SyncStep

\* A step that is not the pass's and adds no row leaves the pass's facts alone.
LEMMA OthersLeavePass ==
  ASSUME TypeOK, IInv, [Next]_vars, sync' = sync,
         \A u \in Uids : row'[u] # Absent => row[u] # Absent
  PROVE  PrunedIsGone' /\ ListComplete' /\ ListedInHand'
<1> USE SizeAssumption DEF Uids
<1>0. /\ nextUid \in Nat /\ nextUid' \in Nat /\ sync \in SyncType
      /\ \A u \in Uids : u < nextUid /\ box'[u] # Absent => box[u] # Absent
  BY TypeStep, GoneStaysGone DEF TypeOK, SyncType, Mails
<1>1. PrunedIsGone'
  BY <1>0 DEF IInv, PrunedIsGone, NothingAhead, Given, SyncType
<1>2. ListComplete'
  BY <1>0 DEF IInv, ListComplete, NothingAhead, Given, SyncType
<1>3. ListedInHand'
  <2>1. NextBatch' = NextBatch
    BY DEF NextBatch, Newest, Oldest
  <2>2. NextBatch \subseteq sync.listed
    BY BatchFacts DEF IInv, ListedInHand
  <2> QED
    BY <1>0, <2>1, <2>2, RowsStay DEF IInv, ListedInHand, NothingAhead, Given, SyncType
<1> QED
  BY <1>1, <1>2, <1>3

\* The mark stays covered as long as it stays.
LEMMA CoverStays ==
  ASSUME TypeOK, IInv, [Next]_vars, lastUid' = lastUid
  PROVE  SavedUidCovered'
  BY GoneStaysGone, RowsStay DEF IInv, SavedUidCovered, NothingAhead, TypeOK, Uids

\* Steps of the world and of the clients.
LEMMA OthersInv ==
  ASSUME TypeOK, IInv, [Next]_vars, UNCHANGED <<sync, lastUid>>,
         \A u \in Uids : row'[u] # Absent => row[u] # Absent,
         nextUid' = nextUid, \A u \in Uids : box'[u] # Absent => box[u] # Absent,
         (NothingAhead /\ RemovedIsGone)' \/ UNCHANGED client
  PROVE  IInv'
<1>1. NothingAhead' /\ RemovedIsGone'
  <2>1. CASE UNCHANGED client
    <3>1. client \in [Clients -> ClientType]
      BY DEF TypeOK, ClientType, Mails
    <3>2. NothingAhead'
      BY <2>1 DEF IInv, NothingAhead, Given
    <3>3. RemovedIsGone'
      BY <2>1, <3>1 DEF IInv, RemovedIsGone, ClientType
    <3> QED
      BY <3>2, <3>3
  <2> QED
    BY <2>1
<1> QED
  BY <1>1, OthersLeavePass, CoverStays DEF IInv

\* Only this client's locals change, and they mention given UIDs only.
LEMMA ClientInv ==
  ASSUME TypeOK, IInv, [Next]_vars, UNCHANGED <<sync, lastUid, nextUid>>,
         \A u \in Uids : row'[u] # Absent => row[u] # Absent,
         \A u \in Uids : box'[u] # Absent => box[u] # Absent,
         NEW c \in Clients, NEW k \in ClientType, client' = [client EXCEPT ![c] = k],
         Given(k.todo), Given(k.done),
         k.what = "remove" => \A u \in k.done : box'[u] = Absent
  PROVE  IInv'
<1>0. client \in [Clients -> ClientType]
  BY DEF TypeOK, ClientType, Mails
<1>1. NothingAhead'
  BY <1>0 DEF IInv, NothingAhead, Given
<1>2. RemovedIsGone'
  BY <1>0 DEF IInv, RemovedIsGone, ClientType
<1> QED
  BY <1>1, <1>2, OthersInv

\* A delivery is above the mark and in nobody's hands.
LEMMA DeliverInv ==
  ASSUME TypeOK, IInv, Deliver PROVE IInv'
<1> USE SizeAssumption DEF Uids
<1>0. [Next]_vars
  BY DEF Next
<1>1. /\ nextUid \in Uids /\ nextUid' = nextUid + 1 /\ nextUid \in Nat
      /\ box \in [Uids -> Mails] /\ box' = [box EXCEPT ![nextUid] = "unread"]
      /\ UNCHANGED <<row, lastUid, lock, sync, client>>
      /\ client \in [Clients -> ClientType] /\ sync \in SyncType
      /\ lastUid \in Nat
  BY DEF Deliver, TypeOK, Mails, ClientType, SyncType
<1>2. NothingAhead'
  <2>1. \A S \in SUBSET Uids : Given(S) => \A u \in S : u < nextUid'
    BY <1>1 DEF Given
  <2>2. \A u \in Uids : u >= nextUid' => u >= nextUid /\ u # nextUid
    BY <1>1
  <2>3. \A c \in Clients : client[c].todo \in SUBSET Uids /\ client[c].done \in SUBSET Uids
    BY <1>1 DEF ClientType
  <2>4. Given(sync.listed)' /\ Given(sync.known)' /\ lastUid' < nextUid'
    BY <1>1, <2>1 DEF IInv, NothingAhead, Given, SyncType
  <2>5. \A c \in Clients : Given(client[c].todo)' /\ Given(client[c].done)'
    BY <1>1, <2>1, <2>3 DEF IInv, NothingAhead, Given
  <2>6. \A u \in Uids : u >= nextUid' => box'[u] = Absent /\ row'[u] = Absent /\ sync'.batch[u] = Absent
    BY <1>1, <2>2 DEF IInv, NothingAhead
  <2> QED
    BY <2>4, <2>5, <2>6 DEF NothingAhead
<1>3. RemovedIsGone'
  BY <1>1 DEF IInv, RemovedIsGone, NothingAhead, Given, ClientType
<1> QED
  BY <1>0, <1>1, <1>2, <1>3, OthersLeavePass, CoverStays DEF IInv

\* A client begins with messages the index shows, so with given UIDs.
LEMMA BeginInv ==
  ASSUME TypeOK, IInv, NEW c \in Clients, Begin(c) PROVE IInv'
<1>0. [Next]_vars
  BY DEF Next
<1> DEFINE Begun ==
      \E k \in ClientType : /\ client' = [client EXCEPT ![c] = k]
                            /\ k.todo \subseteq Present(row) /\ k.done = {}
<1>1. UNCHANGED <<box, nextUid, row, lastUid, lock, sync>>
  BY DEF Begin, OpenMessage, BeginDirect, BeginBulk, BeginJob
<1>2. Begun
  <2>1. ASSUME NEW what \in Actions, NEW u \in Uids, BeginDirect(c, u, what) PROVE Begun
    <3>1. [Off EXCEPT !.pc = "act", !.what = what, !.todo = {u}] \in ClientType
      BY OffTypes DEF ClientType
    <3> QED
      BY <2>1, <3>1 DEF BeginDirect, Present, Off
  <2>2. ASSUME NEW what \in Actions, NEW U \in SUBSET Present(row),
               BeginBulk(c, U, what) \/ BeginJob(c, U, what)
        PROVE  Begun
    <3> DEFINE k(mode) == [pc |-> "wait", mode |-> mode, what |-> what, todo |-> U, done |-> {}]
    <3>1. k("bulk") \in ClientType /\ k("job") \in ClientType
      BY DEF ClientType, Present
    <3>2. client' = [client EXCEPT ![c] = k("bulk")] \/ client' = [client EXCEPT ![c] = k("job")]
      BY <2>2 DEF BeginBulk, BeginJob
    <3>3. \A mode : k(mode).todo = U /\ k(mode).done = {}
      OBVIOUS
    <3> HIDE DEF k
    <3> QED
      BY <3>1, <3>2, <3>3
  <2>3. "read" \in Actions
    BY DEF Actions
  <2> HIDE DEF Begun
  <2> QED
    BY <2>1, <2>2, <2>3 DEF Begin, OpenMessage
<1>3. PICK k \in ClientType : /\ client' = [client EXCEPT ![c] = k]
                              /\ k.todo \subseteq Present(row) /\ k.done = {}
  BY <1>2
<1>4. Given(k.todo) /\ Given(k.done)
  BY <1>3, SizeAssumption DEF Given, Present, IInv, NothingAhead, TypeOK, Uids
<1> QED
  BY <1>0, <1>1, <1>3, <1>4, ClientInv

\* Getting the mailbox, or not, changes no message.
LEMMA TurnInv ==
  ASSUME TypeOK, IInv, NEW c \in Clients, Turn(c) \/ NoTurn(c) PROVE IInv'
<1>0. [Next]_vars
  BY DEF Next, ClientStep
<1>1. client \in [Clients -> ClientType]
  BY DEF TypeOK, ClientType, Mails
<1>2. CASE Turn(c)
  <2>1. [client[c] EXCEPT !.pc = "act"] \in ClientType
    BY <1>1 DEF ClientType
  <2>2. client' = [client EXCEPT ![c] = [client[c] EXCEPT !.pc = "act"]]
    BY <1>1, <1>2 DEF Turn
  <2> DEFINE k == [client[c] EXCEPT !.pc = "act"]
  <2>3. k.todo = client[c].todo /\ k.done = client[c].done /\ k.what = client[c].what
    BY <1>1 DEF ClientType
  <2>4. UNCHANGED <<box, row, sync, lastUid, nextUid>>
    BY <1>2 DEF Turn
  <2>5. Given(k.todo) /\ Given(k.done)
    BY <2>3 DEF IInv, NothingAhead
  <2>6. k.what = "remove" => \A u \in k.done : box'[u] = Absent
    BY <2>3, <2>4 DEF IInv, RemovedIsGone
  <2> HIDE DEF k
  <2> QED
    BY <1>0, <2>1, <2>2, <2>4, <2>5, <2>6, ClientInv DEF k
<1>3. CASE NoTurn(c)
  BY <1>0, <1>3, OffTypes, ClientInv DEF NoTurn, Off, Given
<1> QED
  BY <1>2, <1>3

\* The provider reports done what is done: a removed message is gone.
LEMMA ActInv ==
  ASSUME TypeOK, IInv, NEW c \in Clients, ActSome(c) PROVE IInv'
<1>0. [Next]_vars
  BY DEF Next, ClientStep
<1>1. client \in [Clients -> ClientType] /\ client[c] \in ClientType /\ box \in [Uids -> Mails]
  BY DEF TypeOK, ClientType, Mails
<1>2. PICK K \in SUBSET client[c].todo : \E E \in SUBSET K : \E D \in SUBSET E :
        \E more \in BOOLEAN : ProviderCall(c, K, D, E, more)
  BY DEF ActSome, Act
<1>3. PICK E \in SUBSET K, D \in SUBSET K, more \in BOOLEAN :
        D \subseteq E /\ ProviderCall(c, K, D, E, more)
  BY <1>2
<1>4. PICK k \in ClientType :
        /\ client' = [client EXCEPT ![c] = k]
        /\ k.todo \subseteq client[c].todo
        /\ k.done \subseteq client[c].done \cup D
        /\ k.done = {} \/ k.what = client[c].what
  <2>1. K \subseteq Uids /\ D \subseteq Uids /\ client[c].mode \in {"direct", "bulk", "job"}
    BY <1>1 DEF ClientType
  <2>2. CASE client[c].mode = "direct" /\ D = {}
    BY <1>3, <2>2, OffTypes DEF ProviderCall, Off
  <2>3. CASE client[c].mode = "direct" /\ D # {}
    <3>1. [client[c] EXCEPT !.pc = "mirror", !.todo = {}, !.done = D] \in ClientType
      BY <1>1, <2>1 DEF ClientType
    <3> QED
      BY <1>1, <1>3, <2>3, <3>1 DEF ProviderCall, ClientType
  <2>4. CASE client[c].mode = "bulk"
    <3> DEFINE rest == IF more THEN client[c].todo \ K ELSE {}
    <3>1. rest \subseteq client[c].todo /\ rest \subseteq Uids
      BY <1>1 DEF ClientType
    <3>2. [client[c] EXCEPT !.pc = IF rest = {} THEN "mirror" ELSE "act",
                           !.todo = rest, !.done = client[c].done \cup D] \in ClientType
      BY <1>1, <2>1, <3>1 DEF ClientType
    <3>3. client' = [client EXCEPT ![c] =
            [client[c] EXCEPT !.pc = IF rest = {} THEN "mirror" ELSE "act",
                              !.todo = rest, !.done = client[c].done \cup D]]
      BY <1>3, <2>4 DEF ProviderCall
    <3> HIDE DEF rest
    <3> QED
      BY <1>1, <3>1, <3>2, <3>3 DEF ClientType
  <2>5. CASE client[c].mode = "job"
    <3> DEFINE rest == IF more THEN client[c].todo \ K ELSE {}
    <3>1. rest \subseteq client[c].todo /\ rest \subseteq Uids
      BY <1>1 DEF ClientType
    <3>2. [client[c] EXCEPT !.pc = "mirror", !.todo = rest, !.done = D] \in ClientType
      BY <1>1, <2>1, <3>1 DEF ClientType
    <3>3. client' = [client EXCEPT ![c] =
            [client[c] EXCEPT !.pc = "mirror", !.todo = rest, !.done = D]]
      BY <1>3, <2>5 DEF ProviderCall
    <3> HIDE DEF rest
    <3> QED
      BY <1>1, <3>1, <3>2, <3>3 DEF ClientType
  <2> QED
    BY <2>1, <2>2, <2>3, <2>4, <2>5
<1>5. UNCHANGED <<nextUid, row, lastUid, sync>> /\ box' = On(box, E, client[c].what)
  BY <1>3 DEF ProviderCall
<1>6. client[c].what \in Actions
  BY <1>1 DEF ClientType
<1>7. /\ \A u \in Uids : box'[u] # Absent => box[u] # Absent
      /\ client[c].what = "remove" => \A u \in E \cap Uids : box'[u] = Absent
  BY <1>1, <1>5, <1>6, OnFacts
<1>8. Given(k.todo) /\ Given(k.done)
  BY <1>1, <1>2, <1>3, <1>4 DEF IInv, NothingAhead, Given
<1>9. k.what = "remove" => \A u \in k.done : box'[u] = Absent
  BY <1>1, <1>3, <1>4, <1>7 DEF IInv, RemovedIsGone, ClientType
<1> QED
  BY <1>0, <1>4, <1>5, <1>7, <1>8, <1>9, ClientInv

\* The index is brought up to what was done on the server.
LEMMA MirrorInv ==
  ASSUME TypeOK, IInv, NEW c \in Clients, Mirror(c) PROVE IInv'
<1>0. [Next]_vars
  BY DEF Next, ClientStep
<1>1. client \in [Clients -> ClientType] /\ client[c] \in ClientType /\ row \in [Uids -> Mails]
  BY DEF TypeOK, ClientType, Mails
<1>2. PICK k \in ClientType :
        /\ client' = [client EXCEPT ![c] = k]
        /\ k.todo \subseteq client[c].todo /\ k.done = {}
  <2>1. [client[c] EXCEPT !.pc = "act", !.done = {}] \in ClientType
    BY <1>1 DEF ClientType
  <2>2. CASE client[c].todo # {}
    BY <1>1, <2>1, <2>2 DEF Mirror, ClientType
  <2>3. CASE client[c].todo = {}
    BY <2>3, OffTypes DEF Mirror, Off
  <2> QED
    BY <2>2, <2>3
<1>3. /\ UNCHANGED <<box, nextUid, lastUid, sync>>
      /\ row' = On(row, client[c].done, client[c].what)
  BY DEF Mirror
<1>4. client[c].what \in Actions
  BY <1>1 DEF ClientType
<1>5. \A u \in Uids : row'[u] # Absent => row[u] # Absent
  BY <1>1, <1>3, <1>4, OnFacts
<1>6. Given(k.todo) /\ Given(k.done)
  BY <1>2 DEF IInv, NothingAhead, Given
<1> QED
  BY <1>0, <1>2, <1>3, <1>5, <1>6, ClientInv

\* Another program changes the server only.
LEMMA ElsewhereInv ==
  ASSUME TypeOK, IInv, NEW u \in Uids, NEW what \in Outside, Elsewhere(u, what) PROVE IInv'
<1>0. [Next]_vars
  BY DEF Next
<1>1. what \in Actions /\ box \in [Uids -> Mails]
  BY NameAssumption DEF Actions, TypeOK, Mails
<1>2. UNCHANGED <<nextUid, row, lastUid, sync, client>> /\ box' = On(box, {u}, what)
  BY DEF Elsewhere
<1>3. \A v \in Uids : box'[v] # Absent => box[v] # Absent
  BY <1>1, <1>2, OnFacts
<1>4. NothingAhead'
  BY <1>2, <1>3 DEF IInv, NothingAhead, Given
<1>5. \A v \in Uids : box[v] = Absent => box'[v] = Absent
  BY <1>3
<1>6. RemovedIsGone'
  <2>1. client \in [Clients -> ClientType]
    BY DEF TypeOK, ClientType, Mails
  <2> QED
    BY <1>2, <1>5, <2>1 DEF IInv, RemovedIsGone, ClientType
<1> QED
  BY <1>0, <1>2, <1>3, <1>4, <1>6, OthersInv

\* An abandoned pass and a dead process leave the tables as they are.
LEMMA AbortInv ==
  ASSUME TypeOK, IInv, SyncFail \/ Crash PROVE IInv'
<1> USE SizeAssumption DEF Uids
<1>1. UNCHANGED <<box, nextUid, row, lastUid>> /\ sync' = SyncOff
  BY DEF SyncFail, Crash
<1>2. /\ sync'.pc = "off" /\ sync'.listed = {} /\ sync'.known = {} /\ sync'.new = {}
      /\ sync'.refresh = {} /\ sync'.batch = NoMail
  BY <1>1 DEF SyncOff
<1>3. \A c \in Clients : client'[c] = client[c] \/ client'[c] = Off
  BY DEF SyncFail, Crash
<1>4. NothingAhead'
  <2>1. \A c \in Clients : Given(client[c].todo)' /\ Given(client[c].done)'
    BY <1>1, <1>3 DEF IInv, NothingAhead, Given, Off
  <2> QED
    BY <1>1, <1>2, <2>1 DEF IInv, NothingAhead, Given, NoMail
<1>5. RemovedIsGone'
  BY <1>1, <1>3 DEF IInv, RemovedIsGone, Off
<1>6. PrunedIsGone' /\ ListComplete' /\ ListedInHand' /\ SavedUidCovered'
  BY <1>1, <1>2 DEF IInv, PrunedIsGone, ListComplete, ListedInHand, SavedUidCovered
<1> QED
  BY <1>4, <1>5, <1>6 DEF IInv

-----------------------------------------------------------------------------
(* The steps of the pass.                                                  *)

\* What a step of the pass owes the clients and the mark, when it does not
\* save the mark itself.
LEMMA PassInv ==
  ASSUME TypeOK, IInv, [Next]_vars, UNCHANGED <<box, nextUid, client, lastUid>>,
         sync' \in SyncType, Given(sync'.listed), Given(sync'.known),
         \A u \in Uids : u >= nextUid => row'[u] = Absent /\ sync'.batch[u] = Absent,
         PrunedIsGone', ListComplete', ListedInHand'
  PROVE  IInv'
<1>1. NothingAhead'
  BY DEF IInv, NothingAhead, Given
<1>2. RemovedIsGone'
  BY DEF IInv, RemovedIsGone
<1> QED
  BY <1>1, <1>2, CoverStays DEF IInv

\* A pass starts knowing nothing.
LEMMA StartInv ==
  ASSUME TypeOK, IInv, SyncStart PROVE IInv'
<1>0. [Next]_vars
  BY DEF Next, SyncStep
<1>1. /\ UNCHANGED <<box, nextUid, row, client, lastUid>>
      /\ sync' = [SyncOff EXCEPT !.pc = "list"]
  BY DEF SyncStart
<1>2. /\ sync'.pc = "list" /\ sync'.listed = {} /\ sync'.known = {} /\ sync'.new = {}
      /\ sync'.refresh = {} /\ sync'.batch = NoMail /\ sync' \in SyncType
  BY <1>1, OffTypes DEF SyncOff, SyncType
<1>3. PrunedIsGone' /\ ListComplete' /\ ListedInHand'
  BY <1>2 DEF PrunedIsGone, ListComplete, ListedInHand
<1>4. \A u \in Uids : u >= nextUid => row'[u] = Absent /\ sync'.batch[u] = Absent
  BY <1>1, <1>2 DEF IInv, NothingAhead, NoMail
<1> QED
  BY <1>0, <1>1, <1>2, <1>3, <1>4, PassInv DEF Given

\* The list is what is on the server: it is complete, and what has a row and
\* is not in it is gone.
LEMMA ListInv ==
  ASSUME TypeOK, IInv, SyncList PROVE IInv'
<1>0. [Next]_vars
  BY DEF Next, SyncStep
<1>1. /\ UNCHANGED <<box, nextUid, row, client, lastUid>> /\ sync.pc = "list"
      /\ sync' = [sync EXCEPT !.pc = "read", !.listed = Present(box)]
      /\ sync \in SyncType
  BY DEF SyncList, TypeOK, SyncType, Mails
<1>2. /\ sync'.pc = "read" /\ sync'.listed = Present(box) /\ sync'.known = sync.known
      /\ sync'.new = sync.new /\ sync'.refresh = sync.refresh /\ sync'.batch = sync.batch
      /\ sync' \in SyncType
  BY <1>1 DEF SyncType, Present
<1>3. Given(Present(box))
  BY SizeAssumption DEF Given, Present, IInv, NothingAhead, TypeOK, Uids
<1>4. PrunedIsGone' /\ ListComplete'
  BY <1>1, <1>2 DEF PrunedIsGone, ListComplete, Present
<1>5. ListedInHand'
  BY <1>1, <1>2 DEF IInv, ListedInHand, ListComplete, PrunedIsGone
<1> QED
  BY <1>0, <1>1, <1>2, <1>3, <1>4, <1>5, PassInv DEF IInv, NothingAhead

\* A pass compares what it listed with the index.
LEMMA ReadInv ==
  ASSUME TypeOK, IInv, SyncRead PROVE IInv'
<1>0. [Next]_vars
  BY DEF Next, SyncStep
<1> DEFINE known == Present(row)
           new == sync.listed \ known
           refresh == Newest(sync.listed \cap known, Window)
<1>1. /\ UNCHANGED <<box, nextUid, row, client, lastUid>> /\ sync.pc = "read"
      /\ sync' = [sync EXCEPT !.pc = Stage(new, refresh), !.known = known,
                              !.new = new, !.refresh = refresh]
      /\ sync \in SyncType
  BY DEF SyncRead, TypeOK, SyncType, Mails
<1>2. known \subseteq Uids /\ new \subseteq Uids /\ refresh \subseteq sync.listed
  BY <1>1 DEF SyncType, Present, Newest
<1>3. /\ sync'.pc = Stage(new, refresh) /\ sync'.listed = sync.listed /\ sync'.known = known
      /\ sync'.new = new /\ sync'.refresh = refresh /\ sync'.batch = sync.batch
      /\ sync' \in SyncType
  <2>1. Stage(new, refresh) \in {"prune", "fetch"}
    BY StageType
  <2> HIDE DEF known, new, refresh
  <2> QED
    BY <1>1, <1>2, <2>1 DEF SyncType
<1>4. sync'.pc \in {"prune", "fetch"} /\ (sync'.pc = "prune" => new = {})
  BY <1>3 DEF Stage
<1>5. Given(known)
  BY SizeAssumption DEF Given, Present, IInv, NothingAhead, TypeOK, Uids
<1>6. PrunedIsGone'
  BY <1>1, <1>3, <1>4 DEF IInv, PrunedIsGone, Present
<1>7. ListComplete'
  BY <1>1, <1>3, <1>4 DEF IInv, ListComplete
<1>8. ListedInHand'
  <2>1. \A u \in sync.listed : row[u] # Absent \/ u \in new
    BY <1>1 DEF Present, SyncType
  <2> HIDE DEF known, refresh
  <2> QED
    BY <1>1, <1>2, <1>3, <1>4, <2>1 DEF ListedInHand
<1>9. /\ Given(sync'.listed) /\ Given(sync'.known)
      /\ \A u \in Uids : u >= nextUid => row'[u] = Absent /\ sync'.batch[u] = Absent
  BY <1>1, <1>3, <1>5 DEF IInv, NothingAhead
<1> QED
  BY <1>0, <1>1, <1>3, <1>6, <1>7, <1>8, <1>9, PassInv

\* A listed message missing from the answer is gone from the server.
LEMMA FetchInv ==
  ASSUME TypeOK, IInv, SyncFetch PROVE IInv'
<1>0. [Next]_vars
  BY DEF Next, SyncStep
<1> DEFINE answer == [u \in Uids |-> IF u \in NextBatch THEN box[u] ELSE Absent]
<1>1. /\ UNCHANGED <<box, nextUid, row, client, lastUid>> /\ sync.pc = "fetch"
      /\ sync' = [sync EXCEPT !.pc = "store", !.batch = answer]
      /\ sync \in SyncType /\ box \in [Uids -> Mails]
  BY DEF SyncFetch, TypeOK, SyncType, Mails
<1>2. answer \in [Uids -> Mails] /\ \A u \in Uids : u >= nextUid => answer[u] = Absent
  BY <1>1 DEF IInv, NothingAhead, Mails
<1>3. \A u \in NextBatch : u \in Uids /\ (answer[u] = Absent => box[u] = Absent)
  BY <1>1, BatchFacts DEF SyncType
<1> HIDE DEF answer
<1>4. /\ sync'.pc = "store" /\ sync'.listed = sync.listed /\ sync'.known = sync.known
      /\ sync'.new = sync.new /\ sync'.refresh = sync.refresh /\ sync'.batch = answer
      /\ sync' \in SyncType
  BY <1>1, <1>2 DEF SyncType
<1>5. NextBatch' = NextBatch
  BY <1>4 DEF NextBatch, Newest, Oldest
<1>6. PrunedIsGone' /\ ListComplete'
  BY <1>1, <1>4 DEF IInv, PrunedIsGone, ListComplete
<1>7. ListedInHand'
  BY <1>1, <1>3, <1>4, <1>5 DEF IInv, ListedInHand
<1>8. Given(sync'.listed) /\ Given(sync'.known)
  BY <1>4 DEF IInv, NothingAhead
<1>9. \A u \in Uids : u >= nextUid => row'[u] = Absent /\ sync'.batch[u] = Absent
  BY <1>1, <1>2, <1>4 DEF IInv, NothingAhead
<1> QED
  BY <1>0, <1>1, <1>4, <1>6, <1>7, <1>8, <1>9, PassInv

\* A new message leaves the work list when it is stored or gone.
LEMMA StoreInv ==
  ASSUME TypeOK, IInv, SyncStore PROVE IInv'
<1>0. [Next]_vars
  BY DEF Next, SyncStep
<1> DEFINE new == sync.new \ NextBatch
           refresh == IF sync.new # {} THEN sync.refresh ELSE sync.refresh \ NextBatch
<1>1. /\ UNCHANGED <<box, nextUid, client, lastUid>> /\ sync.pc = "store"
      /\ row' = [u \in Uids |-> IF sync.batch[u] # Absent THEN sync.batch[u] ELSE row[u]]
      /\ sync' = [sync EXCEPT !.pc = Stage(new, refresh), !.new = new,
                              !.refresh = refresh, !.batch = NoMail]
      /\ sync \in SyncType
  BY DEF SyncStore, TypeOK, SyncType, Mails
<1>2. /\ new \subseteq sync.new /\ refresh \subseteq sync.refresh
      /\ \A u \in sync.new : u \in new \/ u \in NextBatch
  OBVIOUS
<1>3. sync.new \cup sync.refresh \subseteq sync.listed
  BY DEF IInv, ListedInHand
<1>4. /\ sync'.pc \in {"prune", "fetch"} /\ (sync'.pc = "prune" => new = {})
      /\ sync'.listed = sync.listed /\ sync'.known = sync.known
      /\ sync'.new = new /\ sync'.refresh = refresh /\ sync'.batch = NoMail
      /\ sync' \in SyncType
  <2>1. /\ Stage(new, refresh) \in {"prune", "fetch"}
        /\ Stage(new, refresh) = "prune" => new = {}
    BY StageType DEF Stage
  <2> HIDE DEF new, refresh
  <2> QED
    BY <1>1, <1>2, <2>1, OffTypes DEF SyncType
<1> HIDE DEF new, refresh
<1>5. PrunedIsGone'
  BY <1>1, <1>4 DEF IInv, PrunedIsGone
<1>6. ListComplete'
  BY <1>1, <1>4 DEF IInv, ListComplete
<1>7. ListedInHand'
  <2>1. \A u \in sync.listed : box[u] # Absent => row[u] # Absent \/ u \in sync.new
    BY <1>1 DEF IInv, ListedInHand
  <2>2. \A u \in NextBatch : sync.batch[u] = Absent => box[u] = Absent
    BY <1>1 DEF IInv, ListedInHand
  <2>3. sync.listed \subseteq Uids
    BY <1>1 DEF SyncType
  <2>4. \A u \in sync.listed : box[u] # Absent => row'[u] # Absent \/ u \in new
    BY <1>1, <1>2, <2>1, <2>2, <2>3
  <2> QED
    BY <1>1, <1>2, <1>3, <1>4, <2>4 DEF ListedInHand
<1>8. Given(sync'.listed) /\ Given(sync'.known)
  BY <1>4 DEF IInv, NothingAhead
<1>9. \A u \in Uids : u >= nextUid => row'[u] = Absent /\ sync'.batch[u] = Absent
  BY <1>1, <1>4 DEF IInv, NothingAhead, NoMail
<1> QED
  BY <1>0, <1>1, <1>4, <1>5, <1>6, <1>7, <1>8, <1>9, PassInv

\* Pruning takes away rows of messages that are gone.
LEMMA PruneInv ==
  ASSUME TypeOK, IInv, SyncPrune PROVE IInv'
<1>0. [Next]_vars
  BY DEF Next, SyncStep
<1>1. /\ UNCHANGED <<box, nextUid, client, lastUid>> /\ sync.pc = "prune"
      /\ row' = On(row, sync.known \ sync.listed, "remove")
      /\ sync' = [sync EXCEPT !.pc = "save"]
      /\ sync \in SyncType /\ row \in [Uids -> Mails]
  BY DEF SyncPrune, TypeOK, SyncType, Mails
<1>2. /\ sync'.pc = "save" /\ sync'.listed = sync.listed /\ sync'.known = sync.known
      /\ sync'.new = sync.new /\ sync'.refresh = sync.refresh /\ sync'.batch = sync.batch
      /\ sync' \in SyncType
  BY <1>1 DEF SyncType
<1>3. "remove" \in Actions
  BY DEF Actions
<1>4. /\ \A u \in Uids : row[u] = Absent => row'[u] = Absent
      /\ \A u \in sync.listed : u \in Uids => row'[u] = row[u]
  BY <1>1, <1>3, OnFacts
<1>5. PrunedIsGone' /\ ListComplete'
  BY <1>1, <1>2 DEF IInv, PrunedIsGone, ListComplete
<1>6. ListedInHand'
  BY <1>1, <1>2, <1>4 DEF IInv, ListedInHand, SyncType
<1>7. Given(sync'.listed) /\ Given(sync'.known)
  BY <1>2 DEF IInv, NothingAhead
<1>8. \A u \in Uids : u >= nextUid => row'[u] = Absent /\ sync'.batch[u] = Absent
  BY <1>2, <1>4 DEF IInv, NothingAhead
<1> QED
  BY <1>0, <1>1, <1>2, <1>5, <1>6, <1>7, <1>8, PassInv

\* At the end of a pass everything listed is indexed, and the list is complete
\* up to its largest UID: that UID may be the mark.
LEMMA SaveInv ==
  ASSUME TypeOK, IInv, SyncSave PROVE IInv'
<1> USE SizeAssumption
<1>1. /\ UNCHANGED <<box, nextUid, row, client>> /\ sync.pc = "save"
      /\ lastUid' = Largest(sync.listed) /\ sync' = SyncOff
      /\ sync \in SyncType /\ nextUid \in Nat \ {0}
  BY DEF SyncSave, TypeOK, SyncType, Mails, Uids
<1>2. sync.listed \in SUBSET Uids
  BY <1>1 DEF SyncType
<1>3. lastUid' \in sync.listed \cup {0}
  BY <1>1, <1>2, LargestBounds
<1>4. lastUid' < nextUid'
  BY <1>1, <1>3 DEF IInv, NothingAhead, Given
<1>5. SavedUidCovered'
  <2>1. SUFFICES ASSUME NEW u \in Uids, u <= lastUid', box[u] # Absent PROVE row[u] # Absent
    BY <1>1 DEF SavedUidCovered
  <2>2. lastUid' \in sync.listed
    BY <1>3, <2>1 DEF Uids
  <2>3. u \in sync.listed
    BY <1>1, <2>1, <2>2 DEF IInv, ListComplete
  <2> QED
    BY <1>1, <2>1, <2>3 DEF IInv, ListedInHand
<1>6. /\ sync'.pc = "off" /\ sync'.listed = {} /\ sync'.known = {} /\ sync'.new = {}
      /\ sync'.refresh = {} /\ sync'.batch = NoMail
  BY <1>1 DEF SyncOff
<1>7. NothingAhead' /\ RemovedIsGone'
  BY <1>1, <1>4, <1>6 DEF IInv, NothingAhead, RemovedIsGone, Given, NoMail
<1>8. PrunedIsGone' /\ ListComplete' /\ ListedInHand'
  BY <1>6 DEF PrunedIsGone, ListComplete, ListedInHand
<1> QED
  BY <1>5, <1>7, <1>8 DEF IInv

-----------------------------------------------------------------------------
\* The invariant holds of an empty mailbox.
LEMMA InitInv == Init => IInv
  BY SizeAssumption DEF Init, IInv, NothingAhead, RemovedIsGone, PrunedIsGone, ListComplete,
     ListedInHand, SavedUidCovered, Given, SyncOff, Off, NoMail, Uids

\* And is kept by every step.
LEMMA StepInv ==
  ASSUME TypeOK, IInv, [Next]_vars PROVE IInv'
<1>1. CASE UNCHANGED vars
  BY <1>1 DEF vars, IInv, NothingAhead, RemovedIsGone, PrunedIsGone, ListComplete, ListedInHand,
              SavedUidCovered, Given, NextBatch, Newest, Oldest
<1>2. CASE SyncStep
  BY <1>2, StartInv, ListInv, ReadInv, FetchInv, StoreInv, PruneInv, SaveInv DEF SyncStep
<1> QED
  BY <1>1, <1>2, DeliverInv, ElsewhereInv, AbortInv, BeginInv, TurnInv, ActInv, MirrorInv
     DEF Next, ClientStep

\* So it holds in every reachable state.
LEMMA InductiveInvariant == Spec => []IInv
<1>1. TypeOK /\ IInv /\ [Next]_vars => IInv'
  BY StepInv
<1> QED
  BY <1>1, InitInv, TypeCorrect, PTL DEF Spec

\* However passes, handlers, jobs, failures and crashes interleave, every
\* message on the server up to the saved last_uid is in the index.
THEOREM MarkCovered == Spec => []SavedUidCovered
<1>1. IInv => SavedUidCovered
  BY DEF IInv
<1> QED
  BY <1>1, InductiveInvariant, PTL

\* A message that is on the server never drops out of the index.
THEOREM LiveMessagesStay == Spec => LiveRowsStay
<1>1. TypeOK /\ IInv /\ [Next]_vars
      => [\A u \in Uids : row[u] # Absent /\ row'[u] = Absent => box[u] = Absent]_vars
  BY RowsStay
<1> QED
  BY <1>1, InductiveInvariant, TypeCorrect, PTL DEF Spec, LiveRowsStay
=============================================================================

--------------------------- MODULE ClassifierProofs ---------------------------
(***************************************************************************)
(* That the classifier's answers reach the messages they are about,        *)
(* whatever the index does meanwhile.  Of a step of the index the proof    *)
(* uses only Cascade: labels and the rows of pending messages go together. *)
(***************************************************************************)
EXTENDS Classifier, TLAPS

\* The strengthening: what is pending and not gone is still in the index, and
\* a goroutine asks only about what the cursor has passed.
AnswerInv ==
  /\ label \in [Uids -> BOOLEAN]
  /\ pass \in [on : BOOLEAN, pending : SUBSET Uids, taken : SUBSET Uids, gone : SUBSET Uids]
  /\ worker \in [Workers -> [pc : {"off", "loop", "asked"}, msg : Uids \cup {0}]]
  /\ pass.taken \subseteq pass.pending /\ pass.gone \subseteq pass.pending
  /\ \A w \in Workers : worker[w].pc # "off" => pass.on
  /\ \A w \in Workers : worker[w].pc = "asked" => worker[w].msg \in pass.taken
  /\ \A u \in pass.pending \ pass.gone : row[u] # Absent
  /\ OneAnswerEach

\* The composed system does nothing to the index that the index alone could
\* not do: every theorem about MailIndex holds beside the classifier too.
THEOREM ClassifierLeavesIndex == ClassifierSpec => Spec
<1>1. ClassifierInit => Init
  BY DEF ClassifierInit
<1>2. [ClassifierNext]_allVars => [Next]_vars
  <2> SUFFICES ASSUME [ClassifierNext]_allVars PROVE [Next]_vars
    OBVIOUS
  <2> USE DEF Next
  <2>1. CASE UNCHANGED allVars
    BY <2>1 DEF allVars, vars
  <2>2. CASE Deliver
    BY <2>2
  <2>3. CASE \E u \in Uids, what \in Outside : Elsewhere(u, what)
    BY <2>3
  <2>4. CASE SyncStep \/ SyncFail
    BY <2>4
  <2>5. CASE \E c \in Clients : Begin(c) \/ ClientStep(c) \/ NoTurn(c)
    BY <2>5
  <2>6. CASE Die
    BY <2>6 DEF Die
  <2>7. CASE UNCHANGED vars
    BY <2>7
  <2>8. QED
    BY <2>1, <2>2, <2>3, <2>4, <2>5, <2>6, <2>7
    DEF ClassifierNext, SyncStep, ClientStep, StartClassify, Claim, Leave, Store, Fails, EndPass
<1>3. QED
  BY <1>1, <1>2, PTL DEF ClassifierSpec, Spec

-----------------------------------------------------------------------------
\* A step of the index: labels go with their rows, and what was pending and
\* lost its row is gone.
LEMMA CascadeKeeps == AnswerInv /\ Cascade => AnswerInv'
<1> SUFFICES ASSUME AnswerInv, Cascade PROVE AnswerInv'
  OBVIOUS
<1> DEFINE lost == {u \in pass.pending : row'[u] = Absent}
<1>1. /\ pass'.on = pass.on /\ pass'.pending = pass.pending /\ pass'.taken = pass.taken
      /\ pass'.gone = pass.gone \cup lost
  BY DEF AnswerInv, Cascade
<1>2. pass' \in [on : BOOLEAN, pending : SUBSET Uids, taken : SUBSET Uids, gone : SUBSET Uids]
  BY DEF AnswerInv, Cascade
<1>3. /\ label' \in [Uids -> BOOLEAN]
      /\ \A u \in Uids : label'[u] = (label[u] /\ row'[u] # Absent)
  BY DEF AnswerInv, Cascade
<1>4. worker' = worker
  BY DEF Cascade
<1>5. pass'.gone \subseteq pass'.pending
  BY <1>1 DEF AnswerInv
<1>6. \A u \in pass'.pending \ pass'.gone : row'[u] # Absent /\ u \in pass.pending \ pass.gone
  BY <1>1
<1>7. OneAnswerEach'
  <2>1. \A u \in Uids : label'[u] => row'[u] # Absent
    BY <1>3
  <2>2. \A u \in pass'.pending \ pass'.gone :
          label'[u] => u \in pass'.taken /\ Asked(u)' = {}
    BY <1>1, <1>3, <1>4, <1>6 DEF AnswerInv, OneAnswerEach, Asked
  <2>3. \A u \in pass'.gone : ~label'[u]
    BY <1>1, <1>3 DEF AnswerInv, OneAnswerEach
  <2>4. QED
    BY <1>1, <1>4, <2>1, <2>2, <2>3 DEF AnswerInv, OneAnswerEach
<1>8. QED
  BY <1>1, <1>2, <1>3, <1>4, <1>5, <1>6, <1>7 DEF AnswerInv

\* The process dies: labels and rows stay, the pass is forgotten.
LEMMA DieKeeps == AnswerInv /\ Die => AnswerInv'
<1> SUFFICES ASSUME AnswerInv, Die PROVE AnswerInv'
  OBVIOUS
<1>1. row' = row /\ label' = label
  BY DEF Die, Crash, vars
<1>2. pass' = NoPass /\ worker' = [w \in Workers |-> NoWorker]
  BY DEF Die
<1>3. QED
  BY <1>1, <1>2 DEF AnswerInv, OneAnswerEach, Asked, NoPass, NoWorker

\* The messages listed have no label, and somebody is about to ask.
LEMMA StartKeeps ==
  ASSUME NEW W \in SUBSET Workers, AnswerInv, StartClassify(W)
  PROVE  AnswerInv'
<1>1. row' = row /\ label' = label
  BY DEF StartClassify, vars
<1>2. /\ pass'.on /\ pass'.pending = Pending /\ pass'.taken = {} /\ pass'.gone = {}
      /\ pass' \in [on : BOOLEAN, pending : SUBSET Uids, taken : SUBSET Uids, gone : SUBSET Uids]
  BY DEF StartClassify, Pending, Present
<1>3. /\ worker' \in [Workers -> [pc : {"off", "loop", "asked"}, msg : Uids \cup {0}]]
      /\ \A w \in Workers : worker'[w].pc # "asked"
      /\ \A w \in W : worker'[w].pc = "loop"
  BY DEF StartClassify, NoWorker
<1>4. \A u \in Pending : row[u] # Absent /\ ~label[u]
  BY DEF Pending, Present
<1>5. \E w \in Workers : worker'[w].pc # "off"
  BY <1>3 DEF StartClassify
<1>6. QED
  BY <1>1, <1>2, <1>3, <1>4, <1>5 DEF AnswerInv, OneAnswerEach

\* The message at the cursor has no label and nobody has asked about it.
LEMMA ClaimKeeps ==
  ASSUME NEW w \in Workers, NEW u \in Uids, AnswerInv, Claim(w, u)
  PROVE  AnswerInv'
<1>1. row' = row /\ label' = label
  BY DEF Claim, vars
<1>2. /\ pass'.on = pass.on /\ pass'.pending = pass.pending /\ pass'.gone = pass.gone
      /\ pass'.taken = pass.taken \cup {u}
      /\ pass' \in [on : BOOLEAN, pending : SUBSET Uids, taken : SUBSET Uids, gone : SUBSET Uids]
  BY DEF AnswerInv, Claim
<1>3. /\ worker' \in [Workers -> [pc : {"off", "loop", "asked"}, msg : Uids \cup {0}]]
      /\ worker'[w] = [pc |-> "asked", msg |-> u]
      /\ \A v \in Workers \ {w} : worker'[v] = worker[v]
  BY DEF AnswerInv, Claim
<1>4. u \in pass.pending \ pass.taken /\ pass.on
  BY DEF AnswerInv, Claim
<1>5. \A v \in Workers : worker[v].pc = "asked" => worker[v].msg # u
  BY <1>4 DEF AnswerInv
<1>6. u \in pass.gone \/ ~label[u]
  BY <1>4 DEF AnswerInv, OneAnswerEach
<1>7. \A x \in pass'.pending \ pass'.gone :
        label'[x] => x \in pass'.taken /\ Asked(x)' = {}
  BY <1>1, <1>2, <1>3, <1>6 DEF AnswerInv, OneAnswerEach, Asked
<1>8. \A v, x \in Workers :
        worker'[v].pc = "asked" /\ worker'[x].pc = "asked" /\ worker'[v].msg = worker'[x].msg
          => v = x
  BY <1>3, <1>5 DEF AnswerInv, OneAnswerEach
<1>9. OneAnswerEach'
  BY <1>1, <1>2, <1>3, <1>7, <1>8 DEF AnswerInv, OneAnswerEach
<1>10. QED
  BY <1>1, <1>2, <1>3, <1>4, <1>9 DEF AnswerInv

\* A goroutine that goes on to its next message, with or without a label for
\* the last one.
LEMMA OnwardKeeps ==
  ASSUME NEW w \in Workers, AnswerInv, Onward(w), worker[w].pc = "asked",
         UNCHANGED <<row, pass>>,
         \/ label' = label
         \/ /\ worker[w].msg \notin pass.gone
            /\ label' = [label EXCEPT ![worker[w].msg] = TRUE]
  PROVE  AnswerInv'
<1> DEFINE m == worker[w].msg
<1>1. m \in pass.taken /\ m \in Uids /\ pass.on
  BY DEF AnswerInv
<1>2. /\ worker' \in [Workers -> [pc : {"off", "loop", "asked"}, msg : Uids \cup {0}]]
      /\ worker'[w] = [pc |-> "loop", msg |-> 0]
      /\ \A v \in Workers \ {w} : worker'[v] = worker[v]
  BY DEF AnswerInv, Onward
<1>3. \A u \in Uids : Asked(u)' \subseteq Asked(u) \ {w}
  BY <1>2 DEF Asked
<1>4. ASSUME NEW u, u = m PROVE Asked(u)' = {}
  <2>1. \A v \in Workers \ {w} : ~(worker[v].pc = "asked" /\ worker[v].msg = m)
    BY DEF AnswerInv, OneAnswerEach
  <2>2. QED
    BY <1>2, <1>4, <2>1 DEF Asked
<1>5. /\ label' \in [Uids -> BOOLEAN]
      /\ \A u \in Uids \ {m} : label'[u] = label[u]
      /\ label'[m] => label[m] \/ m \notin pass.gone
  BY <1>1 DEF AnswerInv
<1>6. m \notin pass.gone => row[m] # Absent
  BY <1>1 DEF AnswerInv
<1>7. \A u \in pass'.pending \ pass'.gone :
        label'[u] => u \in pass'.taken /\ Asked(u)' = {}
  <2> SUFFICES ASSUME NEW u \in pass.pending \ pass.gone, label'[u]
               PROVE  u \in pass.taken /\ Asked(u)' = {}
    OBVIOUS
  <2>1. u \in Uids
    BY DEF AnswerInv
  <2>2. CASE u = m
    BY <2>2, <1>1, <1>4
  <2>3. CASE u # m
    BY <2>1, <2>3, <1>3, <1>5 DEF AnswerInv, OneAnswerEach
  <2>4. QED
    BY <2>2, <2>3
<1>8. \A u \in pass'.gone : ~label'[u]
  BY <1>5 DEF AnswerInv, OneAnswerEach
<1>9. \A u \in Uids : label'[u] => row'[u] # Absent
  BY <1>5, <1>6 DEF AnswerInv, OneAnswerEach
<1>10. OneAnswerEach'
  <2>1. \A v, x \in Workers :
          worker'[v].pc = "asked" /\ worker'[x].pc = "asked" /\ worker'[v].msg = worker'[x].msg
            => v = x
    BY <1>2 DEF AnswerInv, OneAnswerEach
  <2>2. QED
    BY <1>2, <1>7, <1>8, <1>9, <2>1 DEF OneAnswerEach
<1>11. QED
  BY <1>1, <1>2, <1>5, <1>10 DEF AnswerInv

\* A goroutine leaves only when the cursor is at the end.
LEMMA LeaveKeeps ==
  ASSUME NEW w \in Workers, AnswerInv, Leave(w)
  PROVE  AnswerInv'
<1>1. row' = row /\ label' = label /\ pass' = pass /\ pass.pending = pass.taken
  BY DEF Leave, vars
<1>2. /\ worker' \in [Workers -> [pc : {"off", "loop", "asked"}, msg : Uids \cup {0}]]
      /\ worker'[w] = NoWorker
      /\ \A v \in Workers \ {w} : worker'[v] = worker[v]
  BY DEF AnswerInv, Leave, NoWorker
<1>3. \A u \in Uids : Asked(u)' \subseteq Asked(u)
  BY <1>2 DEF Asked, NoWorker
<1>4. \A u \in pass'.pending \ pass'.gone :
        label'[u] => u \in pass'.taken /\ Asked(u)' = {}
  BY <1>1, <1>3 DEF AnswerInv, OneAnswerEach
<1>5. OneAnswerEach'
  BY <1>1, <1>2, <1>4 DEF AnswerInv, OneAnswerEach, NoWorker
<1>6. QED
  BY <1>1, <1>2, <1>5 DEF AnswerInv, NoWorker

\* Nothing is asked any more, and the pass is forgotten.
LEMMA EndKeeps == AnswerInv /\ EndPass => AnswerInv'
<1> SUFFICES ASSUME AnswerInv, EndPass PROVE AnswerInv'
  OBVIOUS
<1>1. row' = row /\ label' = label /\ worker' = worker /\ pass' = NoPass
  BY DEF EndPass, vars
<1>2. \A w \in Workers : worker[w].pc = "off"
  BY DEF EndPass
<1>3. QED
  BY <1>1, <1>2 DEF AnswerInv, OneAnswerEach, NoPass

-----------------------------------------------------------------------------
\* For any number of messages and goroutines: no message is asked about twice
\* or left out of a pass, and an answer reaches only the row it is about.
THEOREM AnswersReachTheirMessage == ClassifierSpec => []OneAnswerEach
<1>1. ClassifierInit => AnswerInv
  BY DEF ClassifierInit, Init, AnswerInv, OneAnswerEach, Asked, NoPass, NoWorker
<1>2. AnswerInv /\ [ClassifierNext]_allVars => AnswerInv'
  <2> SUFFICES ASSUME AnswerInv, [ClassifierNext]_allVars PROVE AnswerInv'
    OBVIOUS
  <2>1. CASE UNCHANGED allVars
    BY <2>1 DEF allVars, vars, AnswerInv, OneAnswerEach, Asked
  <2>2. CASE Cascade
    BY <2>2, CascadeKeeps
  <2>3. CASE Die
    BY <2>3, DieKeeps
  <2>4. CASE \E W \in SUBSET Workers : StartClassify(W)
    BY <2>4, StartKeeps
  <2>5. CASE \E w \in Workers, u \in Uids : Claim(w, u)
    BY <2>5, ClaimKeeps
  <2>6. CASE \E w \in Workers : Leave(w)
    BY <2>6, LeaveKeeps
  <2>7. CASE \E w \in Workers : Store(w) \/ Fails(w)
    BY <2>7, OnwardKeeps DEF Store, Fails, vars
  <2>8. CASE EndPass
    BY <2>8, EndKeeps
  <2>9. QED
    BY <2>1, <2>2, <2>3, <2>4, <2>5, <2>6, <2>7, <2>8 DEF ClassifierNext
<1>3. AnswerInv => OneAnswerEach
  BY DEF AnswerInv
<1>4. QED
  BY <1>1, <1>2, <1>3, PTL DEF ClassifierSpec
=============================================================================

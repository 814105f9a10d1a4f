-------------------------- MODULE PromiseJobsProofs --------------------------
(***************************************************************************)
(* TLAPS proofs about PromiseJobs, for every set of promises, every number *)
(* of calls and every build of the checkpoint.                             *)
(***************************************************************************)
EXTENDS PromiseJobs, FiniteSetTheorems, FunctionTheorems, TLAPS

(***************************************************************************)
(* Facts about naturals, positions and sequences                           *)
(***************************************************************************)
\* A nonempty set of naturals has a smallest element.
LEMMA LeastNatural ==
  ASSUME NEW S \in SUBSET Nat, S # {}
  PROVE  \E x \in S : \A y \in S : x <= y
<1> DEFINE R == OpToRel(<, Nat)
<1>1. IsWellFoundedOn(R, Nat)
  BY NatLessThanWellFounded
<1>2. \A x, y \in Nat : y < x => <<y, x>> \in R
  BY DEF OpToRel
<1> HIDE DEF R
<1>3. \E x \in S : \A y \in S : ~(<<y, x>> \in R)
  BY <1>1, WFMin
<1>4. \A x, y \in Nat : ~(<<y, x>> \in R) => x <= y
  BY <1>2
<1>5. PICK x \in S : \A y \in S : ~(<<y, x>> \in R)
  BY <1>3
<1>6. \A y \in S : x <= y
  BY <1>4, <1>5
<1> QED
  BY <1>6

\* A set of positions of a sequence is finite, and its size a natural number,
\* positive when the set has a member.
LEMMA PositionCount ==
  ASSUME NEW n \in Nat, NEW S \in SUBSET (1 .. n)
  PROVE  /\ IsFiniteSet(S) /\ Cardinality(S) \in Nat
         /\ S = {} <=> Cardinality(S) = 0
<1>1. IsFiniteSet(1 .. n)
  BY FS_Interval
<1>2. IsFiniteSet(S)
  BY <1>1, FS_Subset
<1> QED
  BY <1>2, FS_CardinalityType, FS_EmptySet

\* The positions S of a queue, and the same entries once its head is popped.
LEMMA PopCount ==
  ASSUME NEW n \in Nat \ {0}, NEW S \in SUBSET (1 .. n),
         NEW U, U = {i \in 1 .. (n - 1) : i + 1 \in S}
  PROVE  Cardinality(U) = IF 1 \in S THEN Cardinality(S) - 1 ELSE Cardinality(S)
<1> DEFINE R == S \ {1}
           f == [i \in U |-> i + 1]
<1>1. IsFiniteSet(S) /\ IsFiniteSet(U)
  <2>1. n - 1 \in Nat /\ U \in SUBSET (1 .. (n - 1))
    OBVIOUS
  <2>2. IsFiniteSet(U)
    BY <2>1, PositionCount
  <2> QED
    BY <2>2, PositionCount
<1>2. f \in Bijection(U, R)
  <2>1. \A i \in U : f[i] \in R
    OBVIOUS
  <2>2. \A i, j \in U : f[i] = f[j] => i = j
    OBVIOUS
  <2>3. \A r \in R : r - 1 \in U /\ f[r - 1] = r
    OBVIOUS
  <2> QED
    BY <2>1, <2>2, <2>3, Fun_IsBij
<1>3. Cardinality(R) = Cardinality(U)
  BY <1>1, <1>2, FS_Bijection DEF ExistsBijection
<1>4. CASE 1 \in S
  BY <1>1, <1>3, <1>4, FS_RemoveElement
<1>5. CASE 1 \notin S
  <2>1. R = S
    BY <1>5
  <2> QED
    BY <1>3, <1>5, <2>1
<1> QED
  BY <1>4, <1>5

\* The positions of a queue, and where its entries are once one has joined the
\* tail or left the head.
LEMMA QueuePositions ==
  ASSUME NEW S, NEW q \in Seq(S)
  PROVE  /\ DOMAIN q = 1 .. Len(q) /\ Len(q) \in Nat
         /\ \A e \in DOMAIN q : \A k \in 1 .. e : k \in DOMAIN q
         /\ \A k \in DOMAIN q : q[k] \in S
         /\ q # <<>> => 1 \in DOMAIN q /\ Len(q) \in DOMAIN q /\ Head(q) = q[1]
OBVIOUS

LEMMA QueueJoin ==
  ASSUME NEW S, NEW q \in Seq(S), NEW n \in S
  PROVE  /\ Append(q, n) \in Seq(S) /\ Len(Append(q, n)) = Len(q) + 1
         /\ DOMAIN Append(q, n) = DOMAIN q \union {Len(q) + 1}
         /\ \A k \in DOMAIN q : k \in DOMAIN Append(q, n) /\ Append(q, n)[k] = q[k]
         /\ Append(q, n)[Len(q) + 1] = n
         /\ Len(q) + 1 \notin DOMAIN q
OBVIOUS

LEMMA QueueLeave ==
  ASSUME NEW S, NEW q \in Seq(S), q # <<>>
  PROVE  /\ Tail(q) \in Seq(S) /\ Len(Tail(q)) = Len(q) - 1
         /\ DOMAIN Tail(q) = 1 .. (Len(q) - 1)
         /\ \A k \in 1 .. (Len(q) - 1) : Tail(q)[k] = q[k + 1]
         /\ Head(q) = q[1]
OBVIOUS

\* A waiter of p is well formed.
LEMMA WaiterType ==
  ASSUME NEW p \in Prom \union {NoProm}, NEW k \in Nat
  PROVE  [on |-> p, n |-> k] \in Waiters
BY DEF Waiters

\* What the sequence operators return.
LEMMA SeqOps ==
  ASSUME NEW S, NEW s \in Seq(S), NEW t \in Seq(S), NEW x \in S
  PROVE  /\ Append(s, x) \in Seq(S)
         /\ s \o t \in Seq(S)
         /\ s # <<>> => Head(s) \in S /\ Tail(s) \in Seq(S)
OBVIOUS

LEMMA EmptySeq == \A S : <<>> \in Seq(S)
OBVIOUS

LEMMA InitType == Init => TypeOK
<1> SUFFICES ASSUME Init PROVE TypeOK
  OBVIOUS
<1>1. PromType
  <2>1. waiters \in [Prom -> Seq(Waiters)]
    BY EmptySeq DEF Init
  <2> QED
    BY <2>1, EmptySeq DEF Init, PromType
<1>2. QueueType
  BY EmptySeq DEF Init, QueueType
<1>3. ControlType
  <2>1. budget \in Nat
    BY PromAssumption DEF Init
  <2>2. invoked \in BOOLEAN
    BY DEF Init
  <2> QED
    BY <2>1, <2>2 DEF Init, ControlType
<1>4. HistoryType
  BY DEF Init, HistoryType
<1> QED
  BY <1>1, <1>2, <1>3, <1>4 DEF TypeOK

(***************************************************************************)
(* Type correctness, one part of the state at a time                       *)
(***************************************************************************)
LEMMA PromTypeStep ==
  ASSUME TypeOK, [Next]_vars
  PROVE  PromType'
<1> USE DEF TypeOK, PromType
<1>1. ASSUME NEW p \in Prom, NEW s \in {"fulfilled", "rejected"}, settle(p, s)
      PROVE  PromType'
  <2>1. CASE pstate[p] # "pending"
    BY <1>1, <2>1 DEF settle
  <2>2. CASE pstate[p] = "pending"
    <3>1. ledger' \in Seq(Prom)
      <4>1. Append(ledger, p) \in Seq(Prom)
        BY SeqOps
      <4> QED
        BY <1>1, <2>2, <4>1 DEF settle
    <3>2. pstate' \in [Prom -> {"pending", "fulfilled", "rejected"}]
      BY <1>1, <2>2 DEF settle
    <3>3. waiters' \in [Prom -> Seq(Waiters)]
      BY <1>1, <2>2, EmptySeq DEF settle
    <3> QED
      BY <1>1, <3>1, <3>2, <3>3 DEF settle
  <2> QED
    BY <2>1, <2>2
<1>2. ASSUME NEW p \in Prom, park(p) PROVE waiters' \in [Prom -> Seq(Waiters)]
  <2>1. [on |-> p, n |-> attached[p] + 1] \in Waiters
    BY WaiterType DEF HistoryType
  <2>2. Append(waiters[p], [on |-> p, n |-> attached[p] + 1]) \in Seq(Waiters)
    BY <2>1, SeqOps
  <2> QED
    BY <1>2, <2>2 DEF park
<1>3. ASSUME NEW p \in Prom, enqueuePendingHandled(p) PROVE reported' \subseteq Prom
  BY <1>3 DEF enqueuePendingHandled
<1>4. ASSUME NEW p \in Prom, subscribe(p) \/ subscribeHandled(p) PROVE PromType'
  BY <1>2, <1>3, <1>4 DEF subscribe, subscribeHandled
<1>5. ASSUME RunMicrotask PROVE PromType'
  <2>1. Head(micros) \in Waiters
    BY <1>5 DEF RunMicrotask, QueueType
  <2> QED
    BY <1>5, <2>1 DEF RunMicrotask, emitRejectCheckOn, Waiters
<1>6. ASSUME report PROVE PromType'
  <2>1. PICK i \in unanswered : dispatch(i) \/ emitReport(i)
    BY <1>6 DEF report
  <2>2. ledger[i] \in Prom
    BY <2>1 DEF unanswered, ControlType
  <2> QED
    BY <1>6, <2>1, <2>2 DEF report, dispatch, emitReport
<1>7. ASSUME MainReturns PROVE PromType'
  BY <1>7, PromAssumption DEF MainReturns
<1>8. ASSUME \/ hop \/ nextTick \/ offUnhandledRejection
             \/ \E kind \in {"on", "once"} : onUnhandledRejection(kind)
             \/ TaskReturns \/ JobReturns \/ Throws \/ RunTick \/ TicksDone
             \/ emitRootCheck \/ FirstDrainDone \/ MicrotasksDone
             \/ fireRejectionHandled \/ HandledDone \/ reportReturns \/ Macrotask
             \/ UNCHANGED vars
      PROVE  UNCHANGED promVars
  BY <1>8 DEF hop, nextTick, offUnhandledRejection, onUnhandledRejection,
     TaskReturns, JobReturns, Throws, RunTick, TicksDone, emitRootCheck,
     FirstDrainDone, MicrotasksDone, fireRejectionHandled, HandledDone,
     reportReturns, Macrotask, vars
<1>9. ASSUME UNCHANGED promVars PROVE PromType'
  BY <1>9 DEF promVars
<1> QED
  BY <1>1, <1>4, <1>5, <1>6, <1>7, <1>8, <1>9 DEF Next, Calls, Checkpoint, Stopped

LEMMA QueueTypeStep ==
  ASSUME TypeOK, [Next]_vars
  PROVE  QueueType'
<1> USE DEF TypeOK, QueueType
<1>1. ASSUME NEW p \in Prom, NEW s \in {"fulfilled", "rejected"}, settle(p, s)
      PROVE  QueueType'
  <2>1. micros \o waiters[p] \in Seq(Waiters)
    BY SeqOps DEF PromType
  <2>2. micros' \in Seq(Waiters)
    BY <1>1, <2>1 DEF settle
  <2> QED
    BY <1>1, <2>2 DEF settle, call
<1>2. ASSUME NEW p \in Prom, park(p) PROVE micros' \in Seq(Waiters)
  <2>1. [on |-> p, n |-> attached[p] + 1] \in Waiters
    BY WaiterType DEF HistoryType
  <2>2. Append(micros, [on |-> p, n |-> attached[p] + 1]) \in Seq(Waiters)
    BY <2>1, SeqOps
  <2> QED
    BY <1>2, <2>2 DEF park
<1>3. ASSUME NEW p \in Prom, enqueuePendingHandled(p) PROVE pendingHandled' \in Seq(Prom)
  <2>1. Append(pendingHandled, p) \in Seq(Prom)
    BY SeqOps
  <2> QED
    BY <1>3, <2>1 DEF enqueuePendingHandled
<1>4. ASSUME NEW p \in Prom, subscribe(p) \/ subscribeHandled(p) PROVE QueueType'
  BY <1>2, <1>3, <1>4 DEF subscribe, subscribeHandled, call
<1>5. ASSUME hop PROVE QueueType'
  <2>1. [on |-> NoProm, n |-> 0] \in Waiters
    BY WaiterType
  <2>2. Append(micros, [on |-> NoProm, n |-> 0]) \in Seq(Waiters)
    BY <2>1, SeqOps
  <2> QED
    BY <1>5, <2>2 DEF hop, call
<1>6. ASSUME \/ nextTick \/ offUnhandledRejection
             \/ \E kind \in {"on", "once"} : onUnhandledRejection(kind)
      PROVE  QueueType'
  BY <1>6 DEF nextTick, offUnhandledRejection, onUnhandledRejection, call
<1>7. ASSUME \/ RunMicrotask \/ RunTick \/ MicrotasksDone \/ fireRejectionHandled
      PROVE  QueueType'
  <2>1. CASE RunMicrotask
    BY <2>1 DEF RunMicrotask
  <2>2. CASE RunTick
    BY <2>2 DEF RunTick
  <2>3. CASE MicrotasksDone
    BY <2>3, EmptySeq DEF MicrotasksDone
  <2>4. CASE fireRejectionHandled
    BY <2>4 DEF fireRejectionHandled
  <2> QED
    BY <1>7, <2>1, <2>2, <2>3, <2>4
<1>8. ASSUME \/ MainReturns \/ TaskReturns \/ JobReturns \/ Throws \/ TicksDone
             \/ emitRootCheck \/ FirstDrainDone
             \/ HandledDone \/ report \/ reportReturns \/ Macrotask
             \/ UNCHANGED vars
      PROVE  QueueType'
  BY <1>8 DEF MainReturns, TaskReturns, JobReturns, Throws, TicksDone, emitRootCheck,
     FirstDrainDone, HandledDone, report, reportReturns, Macrotask, vars, queueVars
<1> QED
  BY <1>1, <1>4, <1>5, <1>6, <1>7, <1>8 DEF Next, Calls, Checkpoint, Stopped

LEMMA ControlTypeStep ==
  ASSUME TypeOK, [Next]_vars
  PROVE  ControlType'
<1> USE DEF TypeOK, ControlType
<1>1. ASSUME Calls PROVE ControlType'
  <2>1. call
    BY <1>1 DEF Calls, settle, subscribe, subscribeHandled, hop, nextTick,
       onUnhandledRejection, offUnhandledRejection
  <2>2. listener' \in {"none", "on", "once"}
    BY <1>1 DEF Calls, settle, subscribe, subscribeHandled, hop, nextTick,
       onUnhandledRejection, offUnhandledRejection
  <2> QED
    BY <2>1, <2>2 DEF call, walkVars
<1>2. ASSUME report PROVE ControlType'
  <2>1. PICK i \in unanswered : dispatch(i) \/ emitReport(i)
    BY <1>2 DEF report
  <2>2. i \in Nat \ {0}
    BY <2>1 DEF unanswered
  <2>3. invoked' \in BOOLEAN
    BY <2>1 DEF dispatch, emitReport
  <2>4. UNCHANGED <<budget, GEN_BEFORE>>
    BY <1>2 DEF report
  <2>5. CASE dispatch(i)
    BY <2>2, <2>3, <2>4, <2>5 DEF dispatch
  <2>6. CASE emitReport(i)
    BY <2>2, <2>3, <2>4, <2>6 DEF emitReport
  <2> QED
    BY <2>1, <2>5, <2>6
<1>3. ASSUME MicrotasksDone PROVE ControlType'
  BY <1>3 DEF MicrotasksDone
<1>4. ASSUME HandledDone PROVE ControlType'
  BY <1>4 DEF HandledDone, PromType
<1>5. ASSUME reportReturns PROVE ControlType'
  BY <1>5 DEF reportReturns, walkVars
<1>6. ASSUME \/ MainReturns \/ TaskReturns \/ JobReturns \/ Throws \/ RunMicrotask
             \/ RunTick \/ TicksDone \/ emitRootCheck \/ FirstDrainDone
             \/ fireRejectionHandled \/ Macrotask \/ UNCHANGED vars
      PROVE  ControlType'
  <2>1. UNCHANGED <<listener, walkVars, budget>>
    BY <1>6 DEF MainReturns, TaskReturns, JobReturns, Throws, RunMicrotask, RunTick,
       TicksDone, emitRootCheck, FirstDrainDone, fireRejectionHandled, Macrotask, vars
  <2>2. /\ ctx' \in {"none", "main", "task", "tick", "resume", "micro", "listener"}
        /\ cp' \in {"off", "first", "ticks", "micro", "handled", "report"}
        /\ dead' \in {"no", "uncaught", "unhandled", "root"}
    BY <1>6 DEF MainReturns, TaskReturns, JobReturns, Throws, RunMicrotask, RunTick,
       TicksDone, emitRootCheck, FirstDrainDone, fireRejectionHandled, Macrotask, vars
  <2> QED
    BY <2>1, <2>2 DEF walkVars
<1>7. \/ Calls \/ report \/ MicrotasksDone \/ HandledDone \/ reportReturns
      \/ MainReturns \/ TaskReturns \/ JobReturns \/ Throws \/ RunMicrotask
      \/ RunTick \/ TicksDone \/ emitRootCheck \/ FirstDrainDone
      \/ fireRejectionHandled \/ Macrotask \/ UNCHANGED vars
  BY Zenon DEF Next, Checkpoint, Stopped
<1> HIDE DEF TypeOK, ControlType
<1> QED
  BY <1>1, <1>2, <1>3, <1>4, <1>5, <1>6, <1>7

LEMMA HistoryTypeStep ==
  ASSUME TypeOK, [Next]_vars
  PROVE  HistoryType'
<1> USE DEF TypeOK, HistoryType
<1>1. ASSUME NEW p \in Prom, subscribe(p) \/ subscribeHandled(p) PROVE HistoryType'
  <2>1. attached' = [attached EXCEPT ![p] = @ + 1]
    BY <1>1 DEF subscribe, subscribeHandled, park
  <2>2. UNCHANGED <<resumed, nReported, nHandled, culprit>>
    BY <1>1 DEF subscribe, subscribeHandled
  <2> QED
    BY <2>1, <2>2
<1>2. ASSUME RunMicrotask PROVE HistoryType'
  <2>1. Head(micros) \in Waiters
    BY <1>2 DEF RunMicrotask, QueueType
  <2> QED
    BY <1>2, <2>1, SMTT(20) DEF RunMicrotask, Waiters
<1>3. ASSUME emitRootCheck PROVE HistoryType'
  BY <1>3, PromAssumption DEF emitRootCheck
<1>4. ASSUME fireRejectionHandled PROVE HistoryType'
  <2>1. Head(handling) \in Prom
    BY <1>4 DEF fireRejectionHandled, QueueType
  <2> QED
    BY <1>4, <2>1, SMTT(20) DEF fireRejectionHandled
<1>5. ASSUME report PROVE HistoryType'
  <2>1. PICK i \in unanswered : dispatch(i) \/ emitReport(i)
    BY <1>5 DEF report
  <2>2. ledger[i] \in Prom
    BY <2>1 DEF unanswered, PromType, ControlType
  <2> QED
    BY <1>5, <2>1, <2>2 DEF report, dispatch, emitReport
<1>6. ASSUME \/ \E p \in Prom, s \in {"fulfilled", "rejected"} : settle(p, s)
             \/ hop \/ nextTick \/ offUnhandledRejection
             \/ \E kind \in {"on", "once"} : onUnhandledRejection(kind)
             \/ MainReturns \/ TaskReturns \/ JobReturns \/ Throws \/ RunTick
             \/ TicksDone \/ FirstDrainDone \/ MicrotasksDone
             \/ HandledDone \/ reportReturns \/ Macrotask \/ UNCHANGED vars
      PROVE  UNCHANGED history
  BY <1>6 DEF settle, hop, nextTick, offUnhandledRejection, onUnhandledRejection,
     MainReturns, TaskReturns, JobReturns, Throws, RunTick, TicksDone, FirstDrainDone,
     MicrotasksDone, HandledDone, reportReturns, Macrotask, vars
<1>7. ASSUME UNCHANGED history PROVE HistoryType'
  BY <1>7 DEF history
<1> QED
  BY <1>1, <1>2, <1>3, <1>4, <1>5, <1>6, <1>7 DEF Next, Calls, Checkpoint, Stopped

\* Type correctness of the promise structs, the queues, the ledger, the control
\* state and the histories, for every instance.
THEOREM TypeCorrect == Spec => []TypeOK
<1>1. Init => TypeOK
  BY InitType
<1>2. TypeOK /\ [Next]_vars => TypeOK'
  BY PromTypeStep, QueueTypeStep, ControlTypeStep, HistoryTypeStep DEF TypeOK
<1> QED
  BY <1>1, <1>2, PTL DEF Spec

(***************************************************************************)
(* The rejection ledger                                                    *)
(***************************************************************************)

\* Appending x to s adds the position Len(s) + 1 and keeps the others.
LEMMA AppendFacts ==
  ASSUME NEW S, NEW s \in Seq(S), NEW x \in S
  PROVE  /\ Len(s) \in Nat
         /\ Len(Append(s, x)) = Len(s) + 1
         /\ \A i \in 1..Len(s) : Append(s, x)[i] = s[i]
         /\ Append(s, x)[Len(s) + 1] = x
OBVIOUS

LEMMA LedgerStep ==
  ASSUME TypeOK, LedgerExact, [Next]_vars
  PROVE  LedgerExact'
<1>1. ASSUME NEW p \in Prom, NEW s \in {"fulfilled", "rejected"}, settle(p, s)
      PROVE  LedgerExact'
  <2>1. CASE pstate[p] # "pending" \/ s = "fulfilled"
    <3>1. ledger' = ledger
      BY <1>1, <2>1 DEF settle
    <3>2. \A q \in Prom : pstate'[q] = "rejected" <=> pstate[q] = "rejected"
      BY <1>1, <2>1 DEF settle, TypeOK, PromType
    <3> QED
      BY <3>1, <3>2 DEF LedgerExact
  <2>2. CASE pstate[p] = "pending" /\ s = "rejected"
    <3>1. ledger' = Append(ledger, p) /\ pstate' = [pstate EXCEPT ![p] = "rejected"]
      BY <1>1, <2>2 DEF settle
    <3>2. /\ Len(ledger) \in Nat
          /\ Len(ledger') = Len(ledger) + 1
          /\ \A i \in 1..Len(ledger) : ledger'[i] = ledger[i]
          /\ ledger'[Len(ledger) + 1] = p
      BY <3>1, AppendFacts DEF TypeOK, PromType
    <3>3. \A i \in 1..Len(ledger) : ledger[i] # p
      BY <2>2 DEF LedgerExact
    <3>4. \A q \in Prom : pstate'[q] = "rejected" <=> (q = p \/ pstate[q] = "rejected")
      BY <3>1 DEF TypeOK, PromType
    <3>5. \A q \in Prom :
            pstate'[q] = "rejected" <=> \E i \in 1..Len(ledger') : ledger'[i] = q
      BY <3>2, <3>4 DEF LedgerExact
    <3>6. \A i, j \in 1..Len(ledger') : ledger'[i] = ledger'[j] => i = j
      BY <3>2, <3>3 DEF LedgerExact
    <3> QED
      BY <3>5, <3>6 DEF LedgerExact
  <2> QED
    BY <2>1, <2>2 DEF TypeOK, PromType
<1>2. ASSUME ~ \E p \in Prom, s \in {"fulfilled", "rejected"} : settle(p, s)
      PROVE  UNCHANGED <<pstate, ledger>>
  BY <1>2 DEF Next, Calls, Checkpoint, Stopped, subscribe, subscribeHandled, hop,
     nextTick, offUnhandledRejection, onUnhandledRejection, MainReturns, TaskReturns,
     JobReturns, Throws, RunMicrotask, RunTick, TicksDone, emitRootCheck, FirstDrainDone,
     MicrotasksDone, fireRejectionHandled, HandledDone, report, reportReturns, Macrotask,
     vars, promVars
<1>3. ASSUME UNCHANGED <<pstate, ledger>> PROVE LedgerExact'
  BY <1>3 DEF LedgerExact
<1> QED
  BY <1>1, <1>2, <1>3

\* Every rejected promise is linked into the ledger exactly once and nothing
\* else is: the walk of the report terminates and misses nobody.
THEOREM LedgerCorrect == Spec => []LedgerExact
<1>1. Init => LedgerExact
  BY DEF Init, LedgerExact
<1>2. TypeOK /\ LedgerExact /\ [Next]_vars => LedgerExact'
  BY LedgerStep
<1> QED
  BY <1>1, <1>2, TypeCorrect, PTL DEF Spec

(***************************************************************************)
(* The inductive invariant behind CheckpointQuiesces.                      *)
(***************************************************************************)

\* Who may be running in which phase of the checkpoint.
ControlInv ==
  /\ ctx \in {"main", "task"} => cp = "off"
  /\ ctx = "tick" => cp = "ticks"
  /\ ctx \in {"resume", "micro"} => cp \in {"first", "micro"}
  /\ ctx = "listener" => cp \in {"handled", "report"} /\ ListenerLoop
  /\ dead # "no" => ctx = "none" /\ cp = "off"

\* From the end of the microtask drain to the end of the report, whatever is
\* in a queue was put there by a listener, and INVOKED remembers that one ran.
DrainedInv ==
  /\ cp # "handled" => handling = <<>>
  /\ ~HandledDispatch => pendingHandled = <<>>
  /\ ~UnhandledDispatch => listener = "none"
  /\ cp \in {"handled", "report"} /\ (handling # <<>> \/ ctx = "listener") => invoked
  /\ cp \in {"handled", "report"} /\ ~invoked => micros = <<>> /\ pendingHandled = <<>>
  /\ cp \in {"handled", "report"} /\ ~ListenerLoop => ticks = 0 /\ ~invoked

\* The report walk has left no unobserved rejection behind it.
WalkInv ==
  cp = "report" => /\ P <= Len(ledger) + 1
                   /\ \A i \in 1..Len(ledger) : i < P => ledger[i] \in observed

JobInv == ControlInv /\ DrainedInv /\ WalkInv /\ CheckpointQuiesces

\* A call of the promise surface leaves the control state alone.
LEMMA CallsFrame ==
  ASSUME Calls
  PROVE  ctx # "none" /\ UNCHANGED <<ctx, cp, walkVars, dead, handling>>
BY DEF Calls, settle, subscribe, subscribeHandled, hop, nextTick,
   onUnhandledRejection, offUnhandledRejection, call

\* The steps that are not calls, with Next unfolded.
LEMMA NextCases ==
  ASSUME [Next]_vars
  PROVE  \/ Calls \/ MainReturns \/ TaskReturns \/ JobReturns \/ Throws
         \/ RunMicrotask \/ RunTick \/ TicksDone \/ emitRootCheck \/ FirstDrainDone
         \/ MicrotasksDone \/ fireRejectionHandled \/ HandledDone \/ report
         \/ reportReturns \/ Macrotask \/ UNCHANGED vars
BY Zenon DEF Next, Checkpoint, Stopped

LEMMA ControlStep ==
  ASSUME TypeOK, ControlInv, DrainedInv, [Next]_vars
  PROVE  ControlInv'
<1> USE DEF ControlInv, ListenerLoop
<1>1. ASSUME Calls PROVE ControlInv'
  BY <1>1, CallsFrame
<1>2. ASSUME MainReturns \/ TaskReturns \/ JobReturns \/ Throws PROVE ControlInv'
  BY <1>2 DEF MainReturns, TaskReturns, JobReturns, Throws
<1>3. ASSUME RunMicrotask PROVE ControlInv'
  BY <1>3 DEF RunMicrotask, idle
<1>4. ASSUME \/ RunTick \/ TicksDone \/ emitRootCheck \/ FirstDrainDone
             \/ HandledDone \/ reportReturns \/ Macrotask
      PROVE  ControlInv'
  BY <1>4 DEF RunTick, TicksDone, emitRootCheck, FirstDrainDone, HandledDone,
     reportReturns, Macrotask, idle
<1>5. ASSUME MicrotasksDone PROVE ControlInv'
  BY <1>5 DEF MicrotasksDone, idle
<1>6. ASSUME fireRejectionHandled PROVE ControlInv'
  <2>1. ListenerLoop
    BY <1>6 DEF fireRejectionHandled, DrainedInv
  <2> QED
    BY <1>6, <2>1 DEF fireRejectionHandled, idle
<1>7. ASSUME report PROVE ControlInv'
  <2>1. PICK i \in unanswered : dispatch(i) \/ emitReport(i)
    BY <1>7 DEF report
  <2>2. CASE dispatch(i)
    BY <1>7, <2>2 DEF report, dispatch, idle, DrainedInv
  <2>3. CASE emitReport(i)
    BY <1>7, <2>3 DEF report, emitReport, idle
  <2> QED
    BY <2>1, <2>2, <2>3
<1>8. ASSUME UNCHANGED vars PROVE ControlInv'
  BY <1>8 DEF vars
<1> QED
  BY <1>1, <1>2, <1>3, <1>4, <1>5, <1>6, <1>7, <1>8, NextCases

LEMMA DrainedStep ==
  ASSUME TypeOK, ControlInv, DrainedInv, [Next]_vars
  PROVE  DrainedInv'
<1> USE DEF DrainedInv
<1>1. ASSUME Calls PROVE DrainedInv'
  <2>1. ctx # "none" /\ UNCHANGED <<ctx, cp, invoked, handling>>
    BY <1>1, CallsFrame DEF walkVars
  <2>2. ~HandledDispatch => pendingHandled' = pendingHandled
    BY <1>1 DEF Calls, settle, subscribe, subscribeHandled, hop, nextTick,
       onUnhandledRejection, offUnhandledRejection, enqueuePendingHandled
  <2>3. ~UnhandledDispatch => listener' = listener
    BY <1>1 DEF Calls, settle, subscribe, subscribeHandled, hop, nextTick,
       onUnhandledRejection, offUnhandledRejection
  <2>4. cp \in {"handled", "report"} => ctx = "listener"
    BY <2>1 DEF ControlInv, TypeOK, ControlType
  <2>5. cp \in {"handled", "report"} => invoked /\ ListenerLoop
    BY <2>4 DEF ControlInv
  <2> QED
    BY <2>1, <2>2, <2>3, <2>4, <2>5
<1>2. ASSUME MainReturns \/ TaskReturns \/ JobReturns \/ Throws PROVE DrainedInv'
  <2>1. UNCHANGED <<pendingHandled, handling, micros, ticks, listener, invoked>>
    BY <1>2 DEF MainReturns, TaskReturns, JobReturns, Throws, queueVars, walkVars
  <2>2. CASE JobReturns
    BY <2>1, <2>2 DEF JobReturns
  <2>3. CASE MainReturns \/ TaskReturns \/ Throws
    BY <2>1, <2>3 DEF MainReturns, TaskReturns, Throws, ControlInv
  <2> QED
    BY <1>2, <2>2, <2>3
<1>3. ASSUME \/ RunMicrotask \/ RunTick \/ TicksDone \/ emitRootCheck \/ FirstDrainDone
             \/ Macrotask
      PROVE  DrainedInv'
  <2>1. UNCHANGED <<pendingHandled, handling, listener>>
    BY <1>3 DEF RunMicrotask, RunTick, TicksDone, emitRootCheck, FirstDrainDone, Macrotask,
       queueVars
  <2>2. cp \notin {"handled", "report"} /\ cp' \notin {"handled", "report"}
    BY <1>3 DEF RunMicrotask, RunTick, TicksDone, emitRootCheck, FirstDrainDone, Macrotask
  <2> QED
    BY <2>1, <2>2
<1>4. ASSUME MicrotasksDone PROVE DrainedInv'
  <2>1. /\ ctx = "none" /\ cp = "micro" /\ handling = <<>> /\ micros = <<>>
        /\ UNCHANGED <<ctx, listener, micros, ticks>>
    BY <1>4 DEF MicrotasksDone, idle
  <2>2. CASE ListenerLoop \/ ticks = 0
    <3>1. /\ cp' = "handled" /\ handling' = pendingHandled /\ pendingHandled' = <<>>
          /\ invoked' = (pendingHandled # <<>>)
      BY <1>4, <2>2 DEF MicrotasksDone
    <3> QED
      BY <2>1, <2>2, <3>1 DEF ListenerLoop
  <2>3. CASE ~(ListenerLoop \/ ticks = 0)
    BY <1>4, <2>1, <2>3 DEF MicrotasksDone
  <2> QED
    BY <2>2, <2>3
<1>5. ASSUME fireRejectionHandled PROVE DrainedInv'
  <2>1. invoked
    BY <1>5 DEF fireRejectionHandled
  <2>2. /\ cp = "handled"
        /\ UNCHANGED <<pendingHandled, micros, ticks, listener, cp, invoked>>
    BY <1>5 DEF fireRejectionHandled, walkVars
  <2> QED
    BY <2>1, <2>2
<1>6. ASSUME HandledDone \/ reportReturns PROVE DrainedInv'
  <2>1. UNCHANGED <<pendingHandled, handling, micros, ticks, listener, invoked, ctx>>
    BY <1>6 DEF HandledDone, reportReturns, queueVars, walkVars
  <2>2. CASE HandledDone
    BY <2>1, <2>2 DEF HandledDone
  <2>3. CASE reportReturns
    BY <2>1, <2>3 DEF reportReturns
  <2> QED
    BY <1>6, <2>2, <2>3
<1>7. ASSUME report PROVE DrainedInv'
  <2>1. UNCHANGED <<pendingHandled, handling, micros, ticks>> /\ cp = "report"
    BY <1>7 DEF report, queueVars
  <2>2. PICK i \in unanswered : dispatch(i) \/ emitReport(i)
    BY <1>7 DEF report
  <2>3. CASE dispatch(i)
    <3>1. UnhandledDispatch
      BY <2>3 DEF dispatch
    <3> QED
      BY <2>1, <2>3, <3>1 DEF dispatch, ListenerLoop
  <2>4. CASE emitReport(i)
    BY <2>1, <2>4 DEF emitReport
  <2> QED
    BY <2>2, <2>3, <2>4
<1>8. ASSUME UNCHANGED vars PROVE DrainedInv'
  BY <1>8 DEF vars, queueVars, walkVars
<1> QED
  BY <1>1, <1>2, <1>3, <1>4, <1>5, <1>6, <1>7, <1>8, NextCases

\* When the walk finds nobody to answer for, everything from P on is observed.
LEMMA NobodyLeft ==
  ASSUME TypeOK, unanswered = {}
  PROVE  \A i \in P..Len(ledger) : ledger[i] \in observed
<1> DEFINE T == {i \in P..Len(ledger) : ledger[i] \notin observed}
<1>1. P \in Nat /\ Len(ledger) \in Nat
  BY DEF TypeOK, ControlType, PromType
<1>2. T \in SUBSET Nat
  BY <1>1
<1>3. ASSUME T # {} PROVE FALSE
  <2>1. PICK x \in T : \A y \in T : x <= y
    <3> HIDE DEF T
    <3> QED
      BY <1>2, <1>3, LeastNatural
  <2>2. \A j \in P..(x - 1) : ledger[j] \in observed
    BY <1>1, <2>1
  <2>3. x \in unanswered
    BY <2>1, <2>2 DEF unanswered
  <2> QED
    BY <2>3
<1> QED
  BY <1>3

LEMMA WalkStep ==
  ASSUME TypeOK, TypeOK', ControlInv, WalkInv, [Next]_vars
  PROVE  WalkInv'
<1> USE DEF WalkInv
<1>0. /\ P \in Nat \ {0} /\ ledger \in Seq(Prom) /\ Len(ledger) \in Nat
      /\ observed \subseteq Prom
  BY DEF TypeOK, ControlType, PromType
<1>1. ASSUME Calls PROVE WalkInv'
  <2>1. UNCHANGED <<cp, P>>
    BY <1>1, CallsFrame DEF walkVars
  <2>2. observed \subseteq observed'
    BY <1>1 DEF Calls, settle, subscribe, subscribeHandled, hop, nextTick,
       onUnhandledRejection, offUnhandledRejection, promVars
  <2>3. ledger' = ledger \/ \E p \in Prom : ledger' = Append(ledger, p)
    BY <1>1 DEF Calls, settle, subscribe, subscribeHandled, hop, nextTick,
       onUnhandledRejection, offUnhandledRejection, promVars
  <2>4. CASE ledger' = ledger
    BY <2>1, <2>2, <2>4
  <2>5. CASE \E p \in Prom : ledger' = Append(ledger, p)
    <3>1. PICK p \in Prom : ledger' = Append(ledger, p)
      BY <2>5
    <3>2. Len(ledger') = Len(ledger) + 1 /\ \A i \in 1..Len(ledger) : ledger'[i] = ledger[i]
      BY <1>0, <3>1, AppendFacts
    <3> QED
      BY <1>0, <2>1, <2>2, <3>2
  <2> QED
    BY <2>3, <2>4, <2>5
<1>2. ASSUME cp' # "report" PROVE WalkInv'
  BY <1>2
<1>3. ASSUME HandledDone PROVE WalkInv'
  <2>1. P' = 1 /\ ledger' = ledger
    BY <1>3 DEF HandledDone, promVars
  <2> QED
    BY <1>0, <2>1
<1>4. ASSUME report PROVE WalkInv'
  <2>1. PICK i \in unanswered : dispatch(i) \/ emitReport(i)
    BY <1>4 DEF report
  <2>2. CASE dispatch(i)
    <3>1. /\ i \in P..Len(ledger) /\ \A j \in P..(i - 1) : ledger[j] \in observed
          /\ P' = i + 1 /\ observed' = observed \union {ledger[i]} /\ ledger' = ledger
          /\ cp = "report"
      BY <1>4, <2>1, <2>2 DEF unanswered, dispatch, report
    <3>2. \A j \in 1..Len(ledger) : j < i + 1 => ledger[j] \in observed'
      <4> SUFFICES ASSUME NEW j \in 1..Len(ledger), j < i + 1 PROVE ledger[j] \in observed'
        OBVIOUS
      <4>1. CASE j < P
        BY <3>1, <4>1
      <4>2. CASE j \in P..(i - 1)
        BY <3>1, <4>2
      <4>3. CASE j = i
        BY <3>1, <4>3
      <4> QED
        BY <1>0, <3>1, <4>1, <4>2, <4>3
    <3> QED
      BY <1>0, <3>1, <3>2
  <2>3. CASE emitReport(i)
    BY <2>3 DEF emitReport
  <2> QED
    BY <2>1, <2>2, <2>3
<1>5. ASSUME JobReturns \/ UNCHANGED vars PROVE WalkInv'
  <2>1. UNCHANGED <<cp, P, ledger, observed>>
    BY <1>5 DEF JobReturns, vars, promVars, walkVars
  <2> QED
    BY <2>1
<1>6. ASSUME \/ MainReturns \/ TaskReturns \/ Throws \/ RunMicrotask \/ RunTick
             \/ TicksDone \/ emitRootCheck \/ FirstDrainDone \/ MicrotasksDone
             \/ fireRejectionHandled \/ reportReturns \/ Macrotask
      PROVE  cp' # "report"
  BY <1>6 DEF MainReturns, TaskReturns, Throws, RunMicrotask, RunTick, TicksDone,
     emitRootCheck, FirstDrainDone, MicrotasksDone, fireRejectionHandled, reportReturns,
     Macrotask
<1> HIDE DEF WalkInv
<1> QED
  BY <1>1, <1>2, <1>3, <1>4, <1>5, <1>6, NextCases

LEMMA QuiesceStep ==
  ASSUME TypeOK, LedgerExact, ControlInv, DrainedInv, WalkInv, CheckpointQuiesces,
         [Next]_vars
  PROVE  CheckpointQuiesces'
<1>1. ASSUME reportReturns, idle', cp' = "off"
      PROVE  CheckpointQuiesces'
  <2>1. /\ cp = "report" /\ unanswered = {} /\ ~(ListenerLoop /\ moreWork)
        /\ UNCHANGED <<pstate, observed, micros, ticks, pendingHandled, handling>>
    BY <1>1 DEF reportReturns, promVars, queueVars
  <2>2. ticks = 0 /\ ~invoked
    BY <2>1 DEF moreWork, DrainedInv, TypeOK, QueueType
  <2>3. micros = <<>> /\ pendingHandled = <<>> /\ handling = <<>>
    BY <2>1, <2>2 DEF DrainedInv
  <2>4. \A i \in 1..Len(ledger) : ledger[i] \in observed
    BY <2>1, NobodyLeft DEF WalkInv, TypeOK, ControlType, PromType
  <2>5. \A p \in Prom : pstate[p] = "rejected" => p \in observed
    BY <2>4 DEF LedgerExact
  <2> QED
    BY <2>1, <2>2, <2>3, <2>5 DEF CheckpointQuiesces
<1>2. ASSUME UNCHANGED vars PROVE CheckpointQuiesces'
  BY <1>2 DEF vars, promVars, queueVars, CheckpointQuiesces, idle
<1>3. ASSUME Calls PROVE ~idle'
  BY <1>3, CallsFrame DEF idle
<1>4. ASSUME JobReturns PROVE cp' # "off"
  BY <1>4 DEF JobReturns, ControlInv
<1>5. ASSUME \/ MainReturns \/ TaskReturns \/ RunMicrotask \/ RunTick \/ TicksDone
             \/ FirstDrainDone \/ MicrotasksDone \/ fireRejectionHandled \/ HandledDone
      PROVE  cp' # "off"
  BY <1>5 DEF MainReturns, TaskReturns, RunMicrotask, RunTick, TicksDone, FirstDrainDone,
     MicrotasksDone, fireRejectionHandled, HandledDone
<1>6. ASSUME Throws \/ emitRootCheck \/ Macrotask PROVE ~idle'
  BY <1>6 DEF Throws, emitRootCheck, Macrotask, idle
<1>7. ASSUME report PROVE ~idle'
  BY <1>7 DEF report, dispatch, emitReport, idle
<1>8. ASSUME ~idle' \/ cp' # "off" PROVE CheckpointQuiesces'
  BY <1>8 DEF CheckpointQuiesces
<1> QED
  BY <1>1, <1>2, <1>3, <1>4, <1>5, <1>6, <1>7, <1>8, NextCases

\* The control state, the queues and the report walk agree in every reachable
\* state of the checkpoint.
THEOREM JobInvariant == Spec => []JobInv
<1>1. Init => JobInv
  BY DEF Init, JobInv, ControlInv, DrainedInv, WalkInv, CheckpointQuiesces, idle
<1>2. TypeOK /\ TypeOK' /\ LedgerExact /\ JobInv /\ [Next]_vars => JobInv'
  BY ControlStep, DrainedStep, WalkStep, QuiesceStep DEF JobInv
<1> QED
  BY <1>1, <1>2, TypeCorrect, LedgerCorrect, PTL DEF Spec

\* When a checkpoint is over, both job queues and the rejectionHandled FIFO are
\* empty and every rejection has been observed: in both builds of the loop,
\* for any number of promises and calls.
THEOREM CheckpointCorrect == Spec => []CheckpointQuiesces
<1>1. JobInv => CheckpointQuiesces
  BY DEF JobInv
<1> QED
  BY <1>1, JobInvariant, PTL

(***************************************************************************)
(* Awaited rejections are not reported by the listener-free build          *)
(***************************************************************************)

\* Where an attached waiter is: parked while the promise is pending, queued
\* when it is rejected and no frame has observed that yet.
AwaitInv ==
  \A p \in Prom :
    /\ \A i \in 1..Len(waiters[p]) : waiters[p][i].on = p
    /\ attached[p] > 0 /\ pstate[p] = "pending" => waiters[p] # <<>>
    /\ attached[p] > 0 /\ pstate[p] = "rejected" /\ p \notin observed
         => \E i \in 1..Len(micros) : micros[i].on = p

\* What concatenation and Tail do to the elements of a sequence.
LEMMA ConcatFacts ==
  ASSUME NEW S, NEW s \in Seq(S), NEW t \in Seq(S)
  PROVE  /\ Len(s \o t) = Len(s) + Len(t)
         /\ \A i \in 1..Len(s) : (s \o t)[i] = s[i]
         /\ \A i \in 1..Len(t) : (s \o t)[Len(s) + i] = t[i]
         /\ Len(s) \in Nat /\ Len(t) \in Nat
         /\ t # <<>> => Len(t) > 0
OBVIOUS

LEMMA TailFacts ==
  ASSUME NEW S, NEW s \in Seq(S), s # <<>>
  PROVE  /\ Len(s) \in Nat \ {0}
         /\ Len(Tail(s)) = Len(s) - 1
         /\ \A i \in 1..Len(Tail(s)) : Tail(s)[i] = s[i + 1]
         /\ Head(s) = s[1]
OBVIOUS

LEMMA SettleAwait ==
  ASSUME TypeOK, AwaitInv, NEW p \in Prom, NEW s \in {"fulfilled", "rejected"}, settle(p, s)
  PROVE  AwaitInv'
<1>1. UNCHANGED <<observed, attached>>
  BY DEF settle, history
<1>2. CASE pstate[p] # "pending"
  BY <1>1, <1>2 DEF settle, AwaitInv
<1>3. CASE pstate[p] = "pending"
  <2>1. /\ pstate' = [pstate EXCEPT ![p] = s]
        /\ micros' = micros \o waiters[p]
        /\ waiters' = [waiters EXCEPT ![p] = <<>>]
    BY <1>3 DEF settle
  <2>2. /\ micros \in Seq(Waiters) /\ waiters[p] \in Seq(Waiters)
        /\ pstate \in [Prom -> {"pending", "fulfilled", "rejected"}]
        /\ waiters \in [Prom -> Seq(Waiters)]
    BY DEF TypeOK, PromType, QueueType
  <2>3. /\ Len(micros') = Len(micros) + Len(waiters[p])
        /\ \A i \in 1..Len(micros) : micros'[i] = micros[i]
        /\ \A i \in 1..Len(waiters[p]) : micros'[Len(micros) + i] = waiters[p][i]
        /\ Len(micros) \in Nat /\ Len(waiters[p]) \in Nat
        /\ waiters[p] # <<>> => Len(waiters[p]) > 0
    BY <2>1, <2>2, ConcatFacts
  <2> SUFFICES ASSUME NEW q \in Prom
               PROVE  /\ \A i \in 1..Len(waiters'[q]) : waiters'[q][i].on = q
                      /\ attached[q] > 0 /\ pstate'[q] = "pending" => waiters'[q] # <<>>
                      /\ attached[q] > 0 /\ pstate'[q] = "rejected" /\ q \notin observed
                           => \E i \in 1..Len(micros') : micros'[i].on = q
    BY <1>1 DEF AwaitInv
  <2>4. CASE q = p
    <3>1. waiters'[q] = <<>> /\ pstate'[q] # "pending"
      BY <2>1, <2>2, <2>4
    <3>2. ASSUME attached[q] > 0 PROVE \E i \in 1..Len(micros') : micros'[i].on = q
      <4>1. Len(waiters[p]) > 0 /\ waiters[p][1].on = p
        BY <1>3, <2>3, <2>4, <3>2 DEF AwaitInv
      <4>2. micros'[Len(micros) + 1].on = q /\ Len(micros) + 1 \in 1..Len(micros')
        BY <2>3, <2>4, <4>1
      <4> QED
        BY <4>2
    <3> QED
      BY <3>1, <3>2
  <2>5. CASE q # p
    <3>1. waiters'[q] = waiters[q] /\ pstate'[q] = pstate[q]
      BY <2>1, <2>2, <2>5
    <3> QED
      BY <2>3, <3>1 DEF AwaitInv
  <2> QED
    BY <2>4, <2>5
<1> QED
  BY <1>2, <1>3

LEMMA SubscribeAwait ==
  ASSUME TypeOK, AwaitInv, NEW p \in Prom, subscribe(p) \/ subscribeHandled(p)
  PROVE  AwaitInv'
<1> DEFINE w == [on |-> p, n |-> attached[p] + 1]
<1>1. /\ park(p) /\ pstate' = pstate /\ observed \subseteq observed'
      /\ pstate[p] = "rejected" => p \in observed'
  BY DEF subscribe, subscribeHandled
<1>2. /\ micros \in Seq(Waiters) /\ waiters \in [Prom -> Seq(Waiters)]
      /\ attached \in [Prom -> Nat]
      /\ pstate \in [Prom -> {"pending", "fulfilled", "rejected"}]
  BY DEF TypeOK, PromType, QueueType, HistoryType
<1>3. w \in Waiters /\ w.on = p
  BY <1>2, WaiterType
<1>4. attached' = [attached EXCEPT ![p] = attached[p] + 1]
  BY <1>1 DEF park
<1>5. CASE pstate[p] = "pending"
  <2>1. micros' = micros /\ waiters' = [waiters EXCEPT ![p] = Append(waiters[p], w)]
    BY <1>1, <1>5 DEF park
  <2> HIDE DEF w
  <2>2. /\ Len(waiters[p]) \in Nat
        /\ Len(Append(waiters[p], w)) = Len(waiters[p]) + 1
        /\ \A i \in 1..Len(waiters[p]) : Append(waiters[p], w)[i] = waiters[p][i]
        /\ Append(waiters[p], w)[Len(waiters[p]) + 1] = w
    BY <1>2, <1>3, AppendFacts
  <2>3. waiters'[p] = Append(waiters[p], w)
    BY <1>2, <2>1
  <2>4. \A i \in 1..Len(waiters'[p]) : waiters'[p][i].on = p
    BY <1>3, <2>2, <2>3 DEF AwaitInv
  <2>5. waiters'[p] # <<>>
    BY <2>2, <2>3
  <2>6. \A q \in Prom \ {p} : waiters'[q] = waiters[q] /\ attached'[q] = attached[q]
    BY <1>2, <1>4, <2>1
  <2> QED
    BY <1>1, <1>5, <2>1, <2>4, <2>5, <2>6 DEF AwaitInv
<1>6. CASE pstate[p] # "pending"
  <2>1. micros' = Append(micros, w) /\ waiters' = waiters
    BY <1>1, <1>6 DEF park
  <2> HIDE DEF w
  <2>2. /\ Len(micros) \in Nat /\ Len(micros') = Len(micros) + 1
        /\ \A i \in 1..Len(micros) : micros'[i] = micros[i]
    BY <1>2, <1>3, <2>1, AppendFacts
  <2>3. \A q \in Prom \ {p} : attached'[q] = attached[q]
    BY <1>2, <1>4
  <2> QED
    BY <1>1, <1>6, <2>1, <2>2, <2>3 DEF AwaitInv
<1> QED
  BY <1>5, <1>6

LEMMA MicrotaskAwait ==
  ASSUME TypeOK, AwaitInv, RunMicrotask
  PROVE  AwaitInv'
<1> DEFINE w == Head(micros)
<1>1. /\ UNCHANGED <<pstate, waiters, attached>>
      /\ micros # <<>> /\ micros' = Tail(micros) /\ emitRejectCheckOn(w)
  BY DEF RunMicrotask
<1>2. micros \in Seq(Waiters) /\ w \in Waiters
  BY <1>1 DEF TypeOK, QueueType
<1>3. /\ Len(micros) \in Nat \ {0} /\ Len(micros') = Len(micros) - 1
      /\ \A i \in 1..Len(micros') : micros'[i] = micros[i + 1]
      /\ w = micros[1]
  BY <1>1, <1>2, TailFacts
<1> HIDE DEF w
<1>4. observed \subseteq observed'
  BY <1>1 DEF emitRejectCheckOn
<1>5. ASSUME NEW q \in Prom, attached[q] > 0, pstate[q] = "rejected", q \notin observed'
      PROVE  \E i \in 1..Len(micros') : micros'[i].on = q
  <2>1. PICK i \in 1..Len(micros) : micros[i].on = q
    BY <1>4, <1>5 DEF AwaitInv
  <2>2. w.on # q
    <3> SUFFICES ASSUME w.on = q PROVE FALSE
      OBVIOUS
    <3>1. w.on # NoProm
      BY PromAssumption
    <3> QED
      BY <1>1, <1>5, <3>1 DEF emitRejectCheckOn
  <2>3. i # 1
    BY <1>3, <2>1, <2>2
  <2>4. i - 1 \in 1..Len(micros') /\ micros'[i - 1] = micros[i]
    BY <1>3, <2>3
  <2> QED
    BY <2>1, <2>4
<1> QED
  BY <1>1, <1>5 DEF AwaitInv

LEMMA AwaitStep ==
  ASSUME TypeOK, AwaitInv, [Next]_vars
  PROVE  AwaitInv'
<1>1. ASSUME NEW p \in Prom, NEW s \in {"fulfilled", "rejected"}, settle(p, s)
      PROVE  AwaitInv'
  BY <1>1, SettleAwait
<1>2. ASSUME NEW p \in Prom, subscribe(p) \/ subscribeHandled(p) PROVE AwaitInv'
  BY <1>2, SubscribeAwait
<1>3. ASSUME RunMicrotask PROVE AwaitInv'
  BY <1>3, MicrotaskAwait
<1>4. ASSUME hop PROVE AwaitInv'
  <2> DEFINE w == [on |-> NoProm, n |-> 0]
  <2>1. micros' = Append(micros, w) /\ UNCHANGED <<pstate, waiters, observed, attached>>
    BY <1>4 DEF hop, promVars, history
  <2>2. micros \in Seq(Waiters) /\ w \in Waiters
    BY WaiterType DEF TypeOK, QueueType
  <2> HIDE DEF w
  <2>3. /\ Len(micros) \in Nat /\ Len(micros') = Len(micros) + 1
        /\ \A i \in 1..Len(micros) : micros'[i] = micros[i]
    BY <2>1, <2>2, AppendFacts
  <2> QED
    BY <2>1, <2>3 DEF AwaitInv
<1>5. ASSUME MainReturns PROVE AwaitInv'
  <2>1. observed \subseteq observed' /\ UNCHANGED <<pstate, waiters, micros, attached>>
    BY <1>5 DEF MainReturns, queueVars, history
  <2> QED
    BY <2>1 DEF AwaitInv
<1>6. ASSUME report PROVE AwaitInv'
  <2>1. observed \subseteq observed' /\ UNCHANGED <<pstate, waiters, micros, attached>>
    BY <1>6 DEF report, dispatch, emitReport, queueVars
  <2> QED
    BY <2>1 DEF AwaitInv
<1>7. ASSUME \/ nextTick \/ offUnhandledRejection
             \/ \E kind \in {"on", "once"} : onUnhandledRejection(kind)
             \/ TaskReturns \/ JobReturns \/ Throws \/ RunTick \/ TicksDone
             \/ emitRootCheck \/ FirstDrainDone \/ MicrotasksDone
             \/ fireRejectionHandled \/ HandledDone \/ reportReturns \/ Macrotask
             \/ UNCHANGED vars
      PROVE  UNCHANGED <<pstate, waiters, observed, micros, attached>>
  BY <1>7 DEF nextTick, offUnhandledRejection, onUnhandledRejection,
     TaskReturns, JobReturns, Throws, RunTick, TicksDone, emitRootCheck,
     FirstDrainDone, MicrotasksDone, fireRejectionHandled, HandledDone,
     reportReturns, Macrotask, vars, promVars, queueVars, history
<1>8. ASSUME UNCHANGED <<pstate, waiters, observed, micros, attached>> PROVE AwaitInv'
  BY <1>8 DEF AwaitInv
<1> QED
  BY <1>1, <1>2, <1>3, <1>4, <1>5, <1>6, <1>7, <1>8 DEF Next, Calls, Checkpoint, Stopped

LEMMA AwaitInvariant == Spec => []AwaitInv
<1>1. Init => AwaitInv
  BY DEF Init, AwaitInv
<1>2. TypeOK /\ AwaitInv /\ [Next]_vars => AwaitInv'
  BY AwaitStep
<1> QED
  BY <1>1, <1>2, TypeCorrect, PTL DEF Spec

\* Only the report and the root check answer for a rejection.
LEMMA WhoAnswers ==
  ASSUME TypeOK, [Next]_vars, NEW p \in Prom \ {Root}, Answers(p)
  PROVE  report
<1>1. nReported[p] \in Nat
  BY DEF TypeOK, HistoryType
<1>2. ~(UNCHANGED <<nReported, culprit>>)
  BY <1>1 DEF Answers
<1>3. ~emitRootCheck
  BY <1>1 DEF Answers, emitRootCheck
<1>4. ASSUME Calls PROVE UNCHANGED <<nReported, culprit>>
  BY <1>4 DEF Calls, settle, subscribe, subscribeHandled, hop, nextTick,
     offUnhandledRejection, onUnhandledRejection, history
<1>5. ASSUME \/ MainReturns \/ TaskReturns \/ JobReturns \/ Throws \/ RunMicrotask
             \/ RunTick \/ TicksDone \/ FirstDrainDone \/ MicrotasksDone
             \/ fireRejectionHandled \/ HandledDone \/ reportReturns \/ Macrotask
             \/ UNCHANGED vars
      PROVE  UNCHANGED <<nReported, culprit>>
  BY <1>5 DEF MainReturns, TaskReturns, JobReturns, Throws, RunMicrotask, RunTick,
     TicksDone, FirstDrainDone, MicrotasksDone, fireRejectionHandled, HandledDone,
     reportReturns, Macrotask, vars, history
<1> QED
  BY <1>2, <1>3, <1>4, <1>5, NextCases

\* In a program that can register no rejection listener, a rejection that
\* somebody awaits is never reported as unhandled.
THEOREM PlainAwaitsNotReported ==
  ASSUME ~ListenerLoop
  PROVE  Spec => AwaitedNeverReported
<1>1. ASSUME TypeOK, LedgerExact, JobInv, AwaitInv, [Next]_vars,
             NEW p \in Prom \ {Root}, Answers(p)
      PROVE  attached[p] = 0
  <2>1. report
    BY <1>1, WhoAnswers
  <2>2. cp = "report" /\ listener = "none" /\ micros = <<>>
    BY <1>1, <2>1 DEF report, JobInv, DrainedInv, ListenerLoop
  <2>3. PICK i \in unanswered : emitReport(i) /\ UNCHANGED nReported
    BY <2>1, <2>2 DEF report, dispatch, emitReport
  <2>4. ledger[i] = p
    BY <1>1, <2>3 DEF Answers, emitReport, TypeOK, HistoryType
  <2>5. i \in 1..Len(ledger) /\ p \notin observed
    BY <1>1, <2>3, <2>4 DEF unanswered, TypeOK, ControlType, PromType
  <2>6. pstate[p] = "rejected"
    BY <1>1, <2>4, <2>5 DEF LedgerExact
  <2>7. ~(attached[p] > 0)
    BY <1>1, <2>2, <2>5, <2>6 DEF AwaitInv
  <2> QED
    BY <1>1, <2>7 DEF TypeOK, HistoryType
<1>2. TypeOK /\ LedgerExact /\ JobInv /\ AwaitInv /\ [Next]_vars
        => [\A p \in Prom \ {Root} : Answers(p) => attached[p] = 0]_vars
  BY <1>1
<1> QED
  BY <1>2, TypeCorrect, LedgerCorrect, JobInvariant, AwaitInvariant, PTL
     DEF Spec, AwaitedNeverReported

(***************************************************************************)
(* No await is lost, doubled or overtaken                                  *)
(***************************************************************************)
\* The places of p's waiters in a queue, and those up to place i.
Marked(m, p) == {i \in DOMAIN m : m[i].on = p}
UpTo(T, i) == {j \in T : j <= i}

\* The waiters of p in the queue m and then those parked in w are, in this order,
\* the ones numbered r + 1 to a.
InLine(m, w, a, r, p) ==
  /\ a = r + Cardinality(Marked(m, p)) + Len(w)
  /\ \A i \in Marked(m, p) : m[i].n = r + Cardinality(UpTo(Marked(m, p), i))
  /\ \A i \in DOMAIN w : w[i].n = r + Cardinality(Marked(m, p)) + i

LEMMA MarkedCount ==
  ASSUME NEW m \in Seq(Waiters), NEW p
  PROVE  /\ Marked(m, p) \in SUBSET (1 .. Len(m)) /\ Len(m) \in Nat
         /\ IsFiniteSet(Marked(m, p)) /\ Cardinality(Marked(m, p)) \in Nat
         /\ \A i \in Nat : /\ UpTo(Marked(m, p), i) \in SUBSET (1 .. Len(m))
                           /\ Cardinality(UpTo(Marked(m, p), i)) \in Nat
<1>1. DOMAIN m = 1 .. Len(m) /\ Len(m) \in Nat
  BY QueuePositions
<1>2. Marked(m, p) \in SUBSET (1 .. Len(m))
  BY <1>1 DEF Marked
<1>3. \A i \in Nat : UpTo(Marked(m, p), i) \in SUBSET (1 .. Len(m))
  BY <1>2 DEF UpTo
<1> QED
  BY <1>1, <1>2, <1>3, PositionCount

\* Nothing changes for p when its waiters keep their places.
LEMMA InLineSame ==
  ASSUME NEW m, NEW m2, NEW w, NEW a, NEW r, NEW p, InLine(m, w, a, r, p),
         Marked(m2, p) = Marked(m, p), \A i \in Marked(m, p) : m2[i] = m[i]
  PROVE  InLine(m2, w, a, r, p)
BY DEF InLine

\* A waiter of a settled promise joins the queue.
LEMMA InLineQueue ==
  ASSUME NEW m \in Seq(Waiters), NEW a \in Nat, NEW r \in Nat, NEW p \in Prom,
         NEW x \in Waiters, x.on = p, x.n = a + 1, InLine(m, <<>>, a, r, p)
  PROVE  InLine(Append(m, x), <<>>, a + 1, r, p)
<1> DEFINE M == Marked(m, p)
           M2 == Marked(Append(m, x), p)
           k == Len(m) + 1
<1>0. /\ DOMAIN m = 1 .. Len(m) /\ Len(m) \in Nat
      /\ DOMAIN Append(m, x) = DOMAIN m \union {k}
      /\ \A i \in DOMAIN m : Append(m, x)[i] = m[i]
      /\ Append(m, x)[k] = x
  BY QueuePositions, QueueJoin
<1>1. M \in SUBSET (1 .. Len(m)) /\ IsFiniteSet(M) /\ Cardinality(M) \in Nat
  BY MarkedCount
<1>2. M2 = M \union {k} /\ k \notin M
  BY <1>0 DEF Marked
<1>3. /\ a = r + Cardinality(M)
      /\ \A i \in M : m[i].n = r + Cardinality(UpTo(M, i))
  <2>1. Len(<<>>) = 0
    OBVIOUS
  <2> QED
    BY <1>1, <2>1 DEF InLine
<1> HIDE DEF M, M2
<1>4. Cardinality(M2) = Cardinality(M) + 1
  BY <1>1, <1>2, FS_AddElement
<1>5. \A i \in M : UpTo(M2, i) = UpTo(M, i)
  BY <1>0, <1>1, <1>2 DEF UpTo
<1>6. UpTo(M2, k) = M2
  <2>1. \A j \in M2 : j <= k
    BY <1>0, <1>1, <1>2
  <2> HIDE DEF k
  <2> QED
    BY <2>1 DEF UpTo
<1>7. \A i \in M2 : Append(m, x)[i].n = r + Cardinality(UpTo(M2, i))
  <2> SUFFICES ASSUME NEW i \in M2
               PROVE  Append(m, x)[i].n = r + Cardinality(UpTo(M2, i))
    OBVIOUS
  <2>1. CASE i = k
    BY <1>0, <1>1, <1>3, <1>4, <1>6, <2>1
  <2>2. CASE i # k
    <3>1. i \in M /\ i \in DOMAIN m
      BY <1>0, <1>1, <1>2, <2>2
    <3> QED
      BY <1>0, <1>3, <1>5, <3>1
  <2> QED
    BY <2>1, <2>2
<1>8. a + 1 = r + Cardinality(M2) + Len(<<>>)
  <2>1. Len(<<>>) = 0
    OBVIOUS
  <2> QED
    BY <1>1, <1>3, <1>4, <2>1
<1>9. \A i \in DOMAIN <<>> : <<>>[i].n = r + Cardinality(M2) + i
  OBVIOUS
<1> QED
  BY <1>7, <1>8, <1>9 DEF InLine, M2

\* A waiter of a pending promise is parked.
LEMMA InLinePark ==
  ASSUME NEW m \in Seq(Waiters), NEW w \in Seq(Waiters), NEW a \in Nat, NEW r \in Nat,
         NEW p \in Prom, NEW x \in Waiters, x.n = a + 1, InLine(m, w, a, r, p)
  PROVE  InLine(m, Append(w, x), a + 1, r, p)
<1>0. /\ DOMAIN w = 1 .. Len(w) /\ Len(w) \in Nat
      /\ DOMAIN Append(w, x) = DOMAIN w \union {Len(w) + 1}
      /\ Len(Append(w, x)) = Len(w) + 1
      /\ \A i \in DOMAIN w : Append(w, x)[i] = w[i]
      /\ Append(w, x)[Len(w) + 1] = x
  BY QueuePositions, QueueJoin
<1>1. PICK c \in Nat : c = Cardinality(Marked(m, p))
  BY MarkedCount
<1>2. a = r + c + Len(w) /\ \A i \in DOMAIN w : w[i].n = r + c + i
  BY <1>1 DEF InLine
<1>3. \A i \in DOMAIN Append(w, x) : Append(w, x)[i].n = r + c + i
  <2> SUFFICES ASSUME NEW i \in DOMAIN Append(w, x) PROVE Append(w, x)[i].n = r + c + i
    OBVIOUS
  <2>1. CASE i = Len(w) + 1
    BY <1>0, <1>2, <2>1
  <2>2. CASE i # Len(w) + 1
    BY <1>0, <1>2, <2>2
  <2> QED
    BY <2>1, <2>2
<1>4. a + 1 = r + c + Len(Append(w, x))
  BY <1>0, <1>2
<1> QED
  BY <1>1, <1>3, <1>4 DEF InLine

\* The parked waiters of p are spliced onto a queue that has none of p's.
LEMMA InLineSplice ==
  ASSUME NEW m \in Seq(Waiters), NEW w \in Seq(Waiters), NEW a \in Nat, NEW r \in Nat,
         NEW p \in Prom, \A i \in DOMAIN w : w[i].on = p,
         Marked(m, p) = {}, InLine(m, w, a, r, p)
  PROVE  InLine(m \o w, <<>>, a, r, p)
<1>0. /\ Len(m) \in Nat /\ Len(w) \in Nat /\ DOMAIN m = 1 .. Len(m) /\ DOMAIN w = 1 .. Len(w)
      /\ m \o w \in Seq(Waiters) /\ Len(m \o w) = Len(m) + Len(w)
      /\ \A i \in 1 .. Len(m) : (m \o w)[i] = m[i]
      /\ \A i \in 1 .. Len(w) : (m \o w)[Len(m) + i] = w[i]
  BY QueuePositions, ConcatFacts
<1> DEFINE s == m \o w
           n == Len(m)
<1>1. DOMAIN s = 1 .. (n + Len(w))
  BY <1>0, QueuePositions
<1>2. \A i \in (n + 1) .. (n + Len(w)) : i - n \in 1 .. Len(w) /\ s[i] = w[i - n]
  <2> SUFFICES ASSUME NEW i \in (n + 1) .. (n + Len(w))
               PROVE  i - n \in 1 .. Len(w) /\ s[i] = w[i - n]
    OBVIOUS
  <2>1. i - n \in 1 .. Len(w) /\ n + (i - n) = i
    BY <1>0
  <2> HIDE DEF n, s
  <2>2. \A l \in 1 .. Len(w) : s[n + l] = w[l]
    BY <1>0 DEF n, s
  <2>3. s[n + (i - n)] = w[i - n]
    BY <2>1, <2>2
  <2> QED
    BY <2>1, <2>3
<1>3. Cardinality({}) = 0
  BY FS_EmptySet
<1>4. a = r + Len(w) /\ \A i \in 1 .. Len(w) : w[i].n = r + i
  <2>1. PICK c : c = Cardinality(Marked(m, p))
    OBVIOUS
  <2>2. c = 0
    BY <1>3, <2>1
  <2>3. a = r + c + Len(w) /\ \A i \in DOMAIN w : w[i].n = r + c + i
    BY <2>1 DEF InLine
  <2> QED
    BY <1>0, <2>2, <2>3
<1>5. \A i \in 1 .. n : s[i].on # p
  BY <1>0 DEF Marked
<1>6. Marked(s, p) = (n + 1) .. (n + Len(w))
  <2>1. \A i \in DOMAIN s : s[i].on = p <=> i \in (n + 1) .. (n + Len(w))
    BY <1>0, <1>1, <1>2, <1>5
  <2>2. (n + 1) .. (n + Len(w)) \in SUBSET DOMAIN s
    BY <1>0, <1>1
  <2> HIDE DEF s, n
  <2> QED
    BY <2>1, <2>2 DEF Marked
<1> HIDE DEF s
<1>7. \A i \in 0 .. Len(w) : Cardinality((n + 1) .. (n + i)) = i
  <2> SUFFICES ASSUME NEW i \in 0 .. Len(w) PROVE Cardinality((n + 1) .. (n + i)) = i
    OBVIOUS
  <2>1. n + 1 \in Int /\ n + i \in Int
    BY <1>0
  <2> HIDE DEF n
  <2>2. Cardinality((n + 1) .. (n + i)) = IF n + 1 > n + i THEN 0 ELSE (n + i) - (n + 1) + 1
    BY <2>1, FS_Interval
  <2>3. n \in Nat
    BY <1>0 DEF n
  <2> QED
    BY <1>0, <2>2, <2>3
<1>8. \A i \in Marked(s, p) : s[i].n = r + Cardinality(UpTo(Marked(s, p), i))
  <2> SUFFICES ASSUME NEW i \in (n + 1) .. (n + Len(w))
               PROVE  s[i].n = r + Cardinality(UpTo((n + 1) .. (n + Len(w)), i))
    BY <1>6
  <2>1. i - n \in 0 .. Len(w) /\ n + (i - n) = i /\ i \in Nat
    BY <1>0
  <2>2. UpTo((n + 1) .. (n + Len(w)), i) = (n + 1) .. (n + (i - n))
    BY <1>0, <2>1 DEF UpTo
  <2>3. s[i].n = r + (i - n)
    BY <1>2, <1>4
  <2> QED
    BY <1>7, <2>1, <2>2, <2>3
<1>9. a = r + Cardinality(Marked(s, p)) + Len(<<>>)
  <2>1. Cardinality(Marked(s, p)) = Len(w)
    BY <1>0, <1>6, <1>7
  <2>2. Len(<<>>) = 0
    OBVIOUS
  <2> QED
    BY <1>0, <1>4, <2>1, <2>2
<1>10. \A i \in DOMAIN <<>> : <<>>[i].n = r + Cardinality(Marked(s, p)) + i
  OBVIOUS
<1> QED
  BY <1>8, <1>9, <1>10 DEF InLine, s

\* The head of the queue runs.
LEMMA InLinePop ==
  ASSUME NEW m \in Seq(Waiters), m # <<>>, NEW w \in Seq(Waiters), NEW a \in Nat,
         NEW r \in Nat, NEW p \in Prom, InLine(m, w, a, r, p)
  PROVE  /\ Head(m).on = p => InLine(Tail(m), w, a, r + 1, p)
         /\ Head(m).on # p => InLine(Tail(m), w, a, r, p)
<1> DEFINE M == Marked(m, p)
           M2 == Marked(Tail(m), p)
           n == Len(m)
<1>0. /\ DOMAIN m = 1 .. n /\ n \in Nat \ {0}
      /\ DOMAIN Tail(m) = 1 .. (n - 1)
      /\ \A i \in 1 .. (n - 1) : Tail(m)[i] = m[i + 1]
      /\ Head(m) = m[1] /\ Tail(m) \in Seq(Waiters)
  <2>1. DOMAIN m = 1 .. n /\ n \in Nat /\ 1 \in DOMAIN m
    BY QueuePositions
  <2>2. n # 0
    BY <2>1
  <2> QED
    BY <2>1, <2>2, QueueLeave
<1>1. /\ M \in SUBSET (1 .. n) /\ Cardinality(M) \in Nat
      /\ \A i \in Nat : UpTo(M, i) \in SUBSET (1 .. n) /\ Cardinality(UpTo(M, i)) \in Nat
  BY MarkedCount
<1>2. 1 \in M <=> Head(m).on = p
  BY <1>0 DEF Marked
<1>3. M2 = {i \in 1 .. (n - 1) : i + 1 \in M}
  BY <1>0 DEF Marked
<1>4. /\ a = r + Cardinality(M) + Len(w)
      /\ \A i \in M : m[i].n = r + Cardinality(UpTo(M, i))
      /\ \A i \in DOMAIN w : w[i].n = r + Cardinality(M) + i
  BY DEF InLine
<1>5. DOMAIN w = 1 .. Len(w) /\ Len(w) \in Nat
  BY QueuePositions
<1> HIDE DEF M, M2, n
<1>6. Cardinality(M2) = IF 1 \in M THEN Cardinality(M) - 1 ELSE Cardinality(M)
  <2>1. n \in Nat \ {0} /\ M \in SUBSET (1 .. n)
    BY <1>0, <1>1
  <2> QED
    BY <1>3, <2>1, PopCount
<1>7. ASSUME NEW i \in M2
      PROVE  /\ Tail(m)[i].n = r + Cardinality(UpTo(M, i + 1))
             /\ Cardinality(UpTo(M2, i))
                  = IF 1 \in M THEN Cardinality(UpTo(M, i + 1)) - 1
                    ELSE Cardinality(UpTo(M, i + 1))
  <2>1. i \in 1 .. (n - 1) /\ i + 1 \in M /\ i + 1 \in Nat
    BY <1>0, <1>3
  <2>2. UpTo(M2, i) = {j \in 1 .. (n - 1) : j + 1 \in UpTo(M, i + 1)}
    BY <1>0, <1>3, <2>1 DEF UpTo
  <2>3. 1 \in UpTo(M, i + 1) <=> 1 \in M
    BY <2>1 DEF UpTo
  <2>4. UpTo(M, i + 1) \in SUBSET (1 .. n)
    BY <1>1, <2>1
  <2>5. Cardinality(UpTo(M2, i)) = IF 1 \in UpTo(M, i + 1) THEN Cardinality(UpTo(M, i + 1)) - 1
                                   ELSE Cardinality(UpTo(M, i + 1))
    BY <1>0, <2>2, <2>4, PopCount
  <2> QED
    BY <1>0, <1>4, <2>1, <2>3, <2>5
<1>8. \A i \in M2 : Cardinality(UpTo(M, i + 1)) \in Nat
  BY <1>0, <1>1, <1>3
<1>9. CASE 1 \in M
  <2>0. Cardinality(M) \in Nat /\ Cardinality(M2) = Cardinality(M) - 1
    BY <1>1, <1>6, <1>9
  <2>1. a = r + 1 + Cardinality(M2) + Len(w)
    <3>1. a = r + Cardinality(M) + Len(w)
      BY <1>4
    <3> QED
      BY <1>5, <2>0, <3>1
  <2>2. \A i \in M2 : Tail(m)[i].n = r + 1 + Cardinality(UpTo(M2, i))
    <3> SUFFICES ASSUME NEW i \in M2
                 PROVE  Tail(m)[i].n = r + 1 + Cardinality(UpTo(M2, i))
      OBVIOUS
    <3>1. PICK c \in Nat : c = Cardinality(UpTo(M, i + 1))
      BY <1>8
    <3>2. Tail(m)[i].n = r + c /\ Cardinality(UpTo(M2, i)) = c - 1
      BY <1>7, <1>9, <3>1
    <3>3. PICK d : d = Cardinality(UpTo(M2, i))
      OBVIOUS
    <3>4. d = c - 1 /\ r + c = r + 1 + d
      <4>1. d = c - 1
        BY <3>2, <3>3
      <4> QED
        BY <3>1, <4>1
    <3> QED
      BY <3>2, <3>3, <3>4
  <2>3. \A i \in DOMAIN w : w[i].n = r + 1 + Cardinality(M2) + i
    BY <1>4, <1>5, <2>0
  <2> QED
    BY <1>2, <1>9, <2>1, <2>2, <2>3 DEF InLine, M2
<1>10. CASE 1 \notin M
  <2>1. \A i \in M2 : Tail(m)[i].n = r + Cardinality(UpTo(M2, i))
    BY <1>7, <1>8, <1>10
  <2> QED
    BY <1>2, <1>4, <1>6, <1>10, <2>1 DEF InLine, M2
<1> QED
  BY <1>9, <1>10

\* The property for one promise.
Conserved(p) ==
  /\ InLine(micros, waiters[p], attached[p], resumed[p], p)
  /\ IF pstate[p] = "pending" THEN Marked(micros, p) = {} ELSE waiters[p] = <<>>

LEMMA ConservedMeans == WaitersConserved <=> \A p \in Prom : Conserved(p)
BY DEF WaitersConserved, Conserved, InLine, Marked, UpTo

\* The waiters of q when waiters of others join the queue.
LEMMA OthersJoin ==
  ASSUME NEW m \in Seq(Waiters), NEW t \in Seq(Waiters), NEW q, \A i \in DOMAIN t : t[i].on # q
  PROVE  /\ Marked(m \o t, q) = Marked(m, q)
         /\ \A i \in Marked(m, q) : (m \o t)[i] = m[i]
<1> DEFINE s == m \o t
<1>1. /\ DOMAIN m = 1 .. Len(m) /\ Len(m) \in Nat /\ DOMAIN t = 1 .. Len(t) /\ Len(t) \in Nat
      /\ s \in Seq(Waiters) /\ Len(s) = Len(m) + Len(t)
      /\ \A i \in 1 .. Len(m) : s[i] = m[i]
      /\ \A i \in 1 .. Len(t) : s[Len(m) + i] = t[i]
  BY QueuePositions, ConcatFacts
<1> HIDE DEF s
<1>2. DOMAIN s = 1 .. (Len(m) + Len(t))
  BY <1>1, QueuePositions
<1>3. \A i \in DOMAIN s : i \notin DOMAIN m => s[i].on # q
  <2> SUFFICES ASSUME NEW i \in DOMAIN s, i \notin DOMAIN m PROVE s[i].on # q
    OBVIOUS
  <2>1. i - Len(m) \in 1 .. Len(t) /\ Len(m) + (i - Len(m)) = i
    BY <1>1, <1>2
  <2>2. s[Len(m) + (i - Len(m))] = t[i - Len(m)]
    BY <1>1, <2>1
  <2> QED
    BY <1>1, <2>1, <2>2
<1>4. DOMAIN m \in SUBSET DOMAIN s
  BY <1>1, <1>2
<1>5. Marked(s, q) = Marked(m, q) /\ \A i \in Marked(m, q) : s[i] = m[i]
  BY <1>1, <1>3, <1>4 DEF Marked
<1> QED
  BY <1>5 DEF s

LEMMA OtherJoins ==
  ASSUME NEW m \in Seq(Waiters), NEW x \in Waiters, NEW q, x.on # q
  PROVE  /\ Marked(Append(m, x), q) = Marked(m, q)
         /\ \A i \in Marked(m, q) : Append(m, x)[i] = m[i]
<1>1. /\ DOMAIN Append(m, x) = DOMAIN m \union {Len(m) + 1}
      /\ \A i \in DOMAIN m : Append(m, x)[i] = m[i]
      /\ Append(m, x)[Len(m) + 1] = x
  BY QueueJoin
<1> QED
  BY <1>1 DEF Marked

LEMMA ConservedStep ==
  ASSUME TypeOK, AwaitInv, WaitersConserved, [Next]_vars
  PROVE  WaitersConserved'
<1>0. /\ micros \in Seq(Waiters) /\ waiters \in [Prom -> Seq(Waiters)]
      /\ attached \in [Prom -> Nat] /\ resumed \in [Prom -> Nat]
      /\ pstate \in [Prom -> {"pending", "fulfilled", "rejected"}]
      /\ \A p \in Prom : waiters[p] \in Seq(Waiters) /\ attached[p] \in Nat /\ resumed[p] \in Nat
  BY DEF TypeOK, PromType, QueueType, HistoryType
<1>1. \A p \in Prom : /\ Conserved(p)
                      /\ \A i \in DOMAIN waiters[p] : waiters[p][i].on = p
  <2>1. \A p \in Prom : DOMAIN waiters[p] = 1 .. Len(waiters[p])
    BY <1>0, QueuePositions
  <2> QED
    BY <2>1, ConservedMeans DEF AwaitInv
<1>2. ASSUME \A p \in Prom : Conserved(p)' PROVE WaitersConserved'
  BY <1>2 DEF WaitersConserved, Conserved, InLine, Marked, UpTo
<1>3. ASSUME NEW p \in Prom, NEW s \in {"fulfilled", "rejected"}, settle(p, s)
      PROVE  WaitersConserved'
  <2>1. CASE pstate[p] # "pending"
    <3>1. UNCHANGED <<pstate, micros, waiters, attached, resumed>>
      BY <1>3, <2>1 DEF settle, history
    <3> QED
      BY <3>1 DEF WaitersConserved
  <2>2. CASE pstate[p] = "pending"
    <3>1. /\ pstate' = [pstate EXCEPT ![p] = s] /\ micros' = micros \o waiters[p]
          /\ waiters' = [waiters EXCEPT ![p] = <<>>] /\ UNCHANGED <<attached, resumed>>
      BY <1>3, <2>2 DEF settle, history
    <3>2. Conserved(p)'
      <4>1. InLine(micros \o waiters[p], <<>>, attached[p], resumed[p], p)
        BY <1>0, <1>1, <2>2, InLineSplice DEF Conserved
      <4>2. waiters'[p] = <<>> /\ pstate'[p] # "pending"
        BY <1>0, <3>1
      <4> QED
        BY <3>1, <4>1, <4>2 DEF Conserved
    <3>3. ASSUME NEW q \in Prom, q # p PROVE Conserved(q)'
      <4>1. /\ Marked(micros', q) = Marked(micros, q)
            /\ \A i \in Marked(micros, q) : micros'[i] = micros[i]
        <5>1. /\ micros \in Seq(Waiters) /\ waiters[p] \in Seq(Waiters)
              /\ \A i \in DOMAIN waiters[p] : waiters[p][i].on # q
          BY <1>0, <1>1, <3>3
        <5>2. /\ Marked(micros \o waiters[p], q) = Marked(micros, q)
              /\ \A i \in Marked(micros, q) : (micros \o waiters[p])[i] = micros[i]
          BY <5>1, OthersJoin
        <5> QED
          BY <3>1, <5>2
      <4>2. waiters'[q] = waiters[q] /\ pstate'[q] = pstate[q]
        BY <1>0, <3>1, <3>3
      <4>3. InLine(micros', waiters[q], attached[q], resumed[q], q)
        BY <1>1, <4>1, InLineSame DEF Conserved
      <4> QED
        BY <1>1, <3>1, <4>1, <4>2, <4>3 DEF Conserved
    <3> QED
      BY <1>2, <3>2, <3>3
  <2> QED
    BY <2>1, <2>2
<1>4. ASSUME NEW p \in Prom, subscribe(p) \/ subscribeHandled(p) PROVE WaitersConserved'
  <2>1. park(p) /\ UNCHANGED <<pstate, resumed>>
    BY <1>4 DEF subscribe, subscribeHandled
  <2>2. PICK x : x = [on |-> p, n |-> attached[p] + 1]
    OBVIOUS
  <2>3. x \in Waiters /\ x.on = p /\ x.n = attached[p] + 1
    BY <1>0, <2>2, WaiterType
  <2>4. /\ attached' = [attached EXCEPT ![p] = @ + 1]
        /\ IF pstate[p] = "pending"
           THEN waiters' = [waiters EXCEPT ![p] = Append(@, x)] /\ micros' = micros
           ELSE micros' = Append(micros, x) /\ waiters' = waiters
    BY <2>1, <2>2 DEF park
  <2>5. attached'[p] = attached[p] + 1 /\ \A q \in Prom : q # p => attached'[q] = attached[q]
    BY <1>0, <2>4
  <2>6. CASE pstate[p] = "pending"
    <3>1. /\ waiters'[p] = Append(waiters[p], x) /\ micros' = micros
          /\ \A q \in Prom : q # p => waiters'[q] = waiters[q]
      BY <1>0, <2>4, <2>6
    <3>2. InLine(micros, Append(waiters[p], x), attached[p] + 1, resumed[p], p)
      BY <1>0, <1>1, <2>3, InLinePark DEF Conserved
    <3>3. Conserved(p)'
      BY <1>1, <2>1, <2>5, <2>6, <3>1, <3>2 DEF Conserved
    <3>4. \A q \in Prom : q # p => Conserved(q)'
      BY <1>1, <2>1, <2>5, <3>1 DEF Conserved
    <3> QED
      BY <1>2, <3>3, <3>4
  <2>7. CASE pstate[p] # "pending"
    <3>1. micros' = Append(micros, x) /\ waiters' = waiters /\ waiters[p] = <<>>
      BY <1>1, <2>4, <2>7 DEF Conserved
    <3>2. InLine(Append(micros, x), <<>>, attached[p] + 1, resumed[p], p)
      BY <1>0, <1>1, <2>3, <3>1, InLineQueue DEF Conserved
    <3>3. Conserved(p)'
      BY <2>1, <2>5, <2>7, <3>1, <3>2 DEF Conserved
    <3>4. ASSUME NEW q \in Prom, q # p PROVE Conserved(q)'
      <4>1. /\ Marked(micros', q) = Marked(micros, q)
            /\ \A i \in Marked(micros, q) : micros'[i] = micros[i]
        BY <1>0, <2>3, <3>1, <3>4, OtherJoins
      <4>2. InLine(micros', waiters[q], attached[q], resumed[q], q)
        BY <1>1, <4>1, InLineSame DEF Conserved
      <4> QED
        BY <1>1, <2>1, <2>5, <3>1, <3>4, <4>1, <4>2 DEF Conserved
    <3> QED
      BY <1>2, <3>3, <3>4
  <2> QED
    BY <2>6, <2>7
<1>5. ASSUME hop PROVE WaitersConserved'
  <2>1. PICK x : x = [on |-> NoProm, n |-> 0]
    OBVIOUS
  <2>2. x \in Waiters /\ \A q \in Prom : x.on # q
    BY <2>1, WaiterType, PromAssumption
  <2>3. micros' = Append(micros, x) /\ UNCHANGED <<pstate, waiters, attached, resumed>>
    BY <1>5, <2>1 DEF hop, promVars, history
  <2>4. ASSUME NEW q \in Prom PROVE Conserved(q)'
    <3>1. /\ Marked(micros', q) = Marked(micros, q)
          /\ \A i \in Marked(micros, q) : micros'[i] = micros[i]
      <4>1. micros \in Seq(Waiters) /\ x \in Waiters /\ x.on # q
        BY <1>0, <2>2
      <4>2. /\ Marked(Append(micros, x), q) = Marked(micros, q)
            /\ \A i \in Marked(micros, q) : Append(micros, x)[i] = micros[i]
        BY <4>1, OtherJoins
      <4> QED
        BY <2>3, <4>2
    <3>2. InLine(micros', waiters[q], attached[q], resumed[q], q)
      BY <1>1, <3>1, InLineSame DEF Conserved
    <3> QED
      BY <1>1, <2>3, <3>1, <3>2 DEF Conserved
  <2> QED
    BY <1>2, <2>4
<1>6. ASSUME RunMicrotask PROVE WaitersConserved'
  <2>1. PICK w : w = Head(micros)
    OBVIOUS
  <2>2. /\ micros # <<>> /\ micros' = Tail(micros)
        /\ resumed' = IF w.on = NoProm THEN resumed ELSE [resumed EXCEPT ![w.on] = @ + 1]
        /\ UNCHANGED <<pstate, waiters, attached>>
    BY <1>6, <2>1 DEF RunMicrotask
  <2>3. w \in Waiters
    BY <1>0, <2>1, <2>2
  <2>4. w.on \in Prom \union {NoProm}
    BY <2>3 DEF Waiters
  <2>5. ASSUME NEW q \in Prom PROVE Conserved(q)'
    <3>1. /\ w.on = q => InLine(micros', waiters[q], attached[q], resumed[q] + 1, q)
          /\ w.on # q => InLine(micros', waiters[q], attached[q], resumed[q], q)
      BY <1>0, <1>1, <2>1, <2>2, InLinePop DEF Conserved
    <3>2. resumed'[q] = IF w.on = q THEN resumed[q] + 1 ELSE resumed[q]
      BY <1>0, <2>2, <2>4, PromAssumption
    <3>3. InLine(micros', waiters[q], attached[q], resumed'[q], q)
      BY <3>1, <3>2
    <3>4. Marked(micros, q) = {} => Marked(micros', q) = {}
      <4>1. /\ DOMAIN micros = 1 .. Len(micros) /\ Len(micros) \in Nat
            /\ DOMAIN micros' = 1 .. (Len(micros) - 1)
            /\ \A i \in 1 .. (Len(micros) - 1) : micros'[i] = micros[i + 1]
        BY <1>0, <2>2, QueuePositions, QueueLeave
      <4>2. \A i \in DOMAIN micros' : i + 1 \in DOMAIN micros /\ micros'[i] = micros[i + 1]
        BY <4>1
      <4> QED
        BY <4>2 DEF Marked
    <3> QED
      BY <1>1, <2>2, <3>3, <3>4 DEF Conserved
  <2> QED
    BY <1>2, <2>5
<1>7. ASSUME \/ nextTick \/ offUnhandledRejection
             \/ \E kind \in {"on", "once"} : onUnhandledRejection(kind)
             \/ MainReturns \/ TaskReturns \/ JobReturns \/ Throws \/ RunTick \/ TicksDone
             \/ emitRootCheck \/ FirstDrainDone \/ MicrotasksDone
             \/ fireRejectionHandled \/ HandledDone \/ report \/ reportReturns \/ Macrotask
             \/ UNCHANGED vars
      PROVE  UNCHANGED <<pstate, waiters, micros, attached, resumed>>
  BY <1>7 DEF nextTick, offUnhandledRejection, onUnhandledRejection,
     MainReturns, TaskReturns, JobReturns, Throws, RunTick, TicksDone, emitRootCheck,
     FirstDrainDone, MicrotasksDone, fireRejectionHandled, HandledDone, report,
     reportReturns, Macrotask, vars, promVars, queueVars, history
<1>8. ASSUME UNCHANGED <<pstate, waiters, micros, attached, resumed>> PROVE WaitersConserved'
  BY <1>8 DEF WaitersConserved
<1> QED
  BY <1>3, <1>4, <1>5, <1>6, <1>7, <1>8 DEF Next, Calls, Checkpoint, Stopped

\* No await is lost, doubled or overtaken, by settle's splice, by either arm of
\* subscribe or by the drain, for any number of promises and calls.
THEOREM AwaitsAreConserved == Spec => []WaitersConserved
<1>1. Init => WaitersConserved
  <2>1. Cardinality({}) = 0
    BY FS_EmptySet
  <2>2. Len(<<>>) = 0
    OBVIOUS
  <2> QED
    BY <2>1, <2>2 DEF Init, WaitersConserved
<1>2. TypeOK /\ AwaitInv /\ WaitersConserved /\ [Next]_vars => WaitersConserved'
  BY ConservedStep
<1> QED
  BY <1>1, <1>2, TypeCorrect, AwaitInvariant, PTL DEF Spec

(***************************************************************************)
(* A rejection is told once and answered once                              *)
(***************************************************************************)
\* The places of p in a queue of promises.
Places(q, p) == {i \in DOMAIN q : q[i] = p}

\* What a listener was told is observed, for ever: it is not told again.
ToldInv == \A p \in Prom : nReported[p] > 0 => p \in observed

LEMMA PlacesCount ==
  ASSUME NEW q \in Seq(Prom), NEW p
  PROVE  /\ Places(q, p) \in SUBSET (1 .. Len(q)) /\ Len(q) \in Nat
         /\ IsFiniteSet(Places(q, p)) /\ Cardinality(Places(q, p)) \in Nat
<1>1. DOMAIN q = 1 .. Len(q) /\ Len(q) \in Nat
  BY QueuePositions
<1>2. Places(q, p) \in SUBSET (1 .. Len(q))
  BY <1>1 DEF Places
<1> QED
  BY <1>1, <1>2, PositionCount

LEMMA PlacesJoin ==
  ASSUME NEW q \in Seq(Prom), NEW x \in Prom, NEW p
  PROVE  Cardinality(Places(Append(q, x), p))
           = Cardinality(Places(q, p)) + (IF x = p THEN 1 ELSE 0)
<1>1. /\ DOMAIN Append(q, x) = DOMAIN q \union {Len(q) + 1}
      /\ \A i \in DOMAIN q : Append(q, x)[i] = q[i]
      /\ Append(q, x)[Len(q) + 1] = x /\ Len(q) + 1 \notin DOMAIN q
  BY QueueJoin
<1>2. IsFiniteSet(Places(q, p)) /\ Cardinality(Places(q, p)) \in Nat
  BY PlacesCount
<1>3. CASE x = p
  <2>1. Places(Append(q, x), p) = Places(q, p) \union {Len(q) + 1} /\ Len(q) + 1 \notin Places(q, p)
    BY <1>1, <1>3 DEF Places
  <2> QED
    BY <1>2, <1>3, <2>1, FS_AddElement
<1>4. CASE x # p
  <2>1. Places(Append(q, x), p) = Places(q, p)
    BY <1>1, <1>4 DEF Places
  <2> QED
    BY <1>2, <1>4, <2>1
<1> QED
  BY <1>3, <1>4

LEMMA PlacesLeave ==
  ASSUME NEW q \in Seq(Prom), q # <<>>, NEW p
  PROVE  Cardinality(Places(Tail(q), p)) + (IF Head(q) = p THEN 1 ELSE 0)
           = Cardinality(Places(q, p))
<1> DEFINE S == Places(q, p)
           U == Places(Tail(q), p)
           n == Len(q)
<1>1. /\ DOMAIN q = 1 .. n /\ n \in Nat /\ 1 \in DOMAIN q
      /\ DOMAIN Tail(q) = 1 .. (n - 1)
      /\ \A i \in 1 .. (n - 1) : Tail(q)[i] = q[i + 1]
      /\ Head(q) = q[1]
  BY QueuePositions, QueueLeave
<1>2. n \in Nat \ {0} /\ S \in SUBSET (1 .. n) /\ Cardinality(S) \in Nat
  BY <1>1, PlacesCount
<1>3. U = {i \in 1 .. (n - 1) : i + 1 \in S}
  BY <1>1 DEF Places
<1>4. 1 \in S <=> Head(q) = p
  BY <1>1 DEF Places
<1> HIDE DEF S, U, n
<1>5. Cardinality(U) = IF 1 \in S THEN Cardinality(S) - 1 ELSE Cardinality(S)
  BY <1>2, <1>3, PopCount
<1>6. Cardinality(U) + (IF Head(q) = p THEN 1 ELSE 0) = Cardinality(S)
  BY <1>2, <1>4, <1>5
<1> QED
  BY <1>6 DEF S, U

\* The accounts of one promise.
Balanced(p) ==
  nReported[p] = (IF p \in reported THEN 1 ELSE 0) + Cardinality(Places(pendingHandled, p))
                   + Cardinality(Places(handling, p)) + nHandled[p]

AnswerInv == ToldInv /\ \A p \in Prom : nReported[p] <= 1 /\ Balanced(p)

LEMMA AnswerStep ==
  ASSUME TypeOK, TypeOK', DrainedInv, AnswerInv, [Next]_vars
  PROVE  AnswerInv'
<1>0. /\ pendingHandled \in Seq(Prom) /\ handling \in Seq(Prom) /\ ledger \in Seq(Prom)
      /\ nReported \in [Prom -> Nat] /\ nHandled \in [Prom -> Nat]
      /\ \A p \in Prom : nReported[p] \in Nat /\ nHandled[p] \in Nat
  BY DEF TypeOK, PromType, QueueType, HistoryType
<1>1. \A p \in Prom : /\ Cardinality(Places(pendingHandled, p)) \in Nat
                      /\ Cardinality(Places(handling, p)) \in Nat
  BY <1>0, PlacesCount
<1>2. ASSUME observed \subseteq observed', UNCHANGED <<reported, pendingHandled, handling,
             nReported, nHandled>>
      PROVE  AnswerInv'
  BY <1>2 DEF AnswerInv, ToldInv, Balanced
<1>3. ASSUME NEW p \in Prom, subscribe(p) \/ subscribeHandled(p) PROVE AnswerInv'
  <2>1. /\ enqueuePendingHandled(p) /\ observed \subseteq observed'
        /\ UNCHANGED <<nReported, nHandled, handling>>
    BY <1>3 DEF subscribe, subscribeHandled, call
  <2>2. CASE UNCHANGED <<pendingHandled, reported>>
    BY <1>2, <2>1, <2>2
  <2>3. CASE /\ p \in reported /\ pendingHandled' = Append(pendingHandled, p)
             /\ reported' = reported \ {p}
    <3>1. ASSUME NEW q \in Prom PROVE Balanced(q)'
      <4>1. Cardinality(Places(pendingHandled', q))
              = Cardinality(Places(pendingHandled, q)) + (IF p = q THEN 1 ELSE 0)
        BY <1>0, <2>3, PlacesJoin
      <4>2. (IF q \in reported' THEN 1 ELSE 0) + (IF p = q THEN 1 ELSE 0)
              = (IF q \in reported THEN 1 ELSE 0)
        BY <2>3
      <4>3. Balanced(q)
        BY DEF AnswerInv
      <4> QED
        BY <1>0, <1>1, <2>1, <4>1, <4>2, <4>3, SMTT(20) DEF Balanced
    <3> QED
      BY <2>1, <3>1 DEF AnswerInv, ToldInv
  <2> QED
    BY <2>1, <2>2, <2>3 DEF enqueuePendingHandled
<1>4. ASSUME MicrotasksDone PROVE AnswerInv'
  <2>1. cp = "micro" /\ UNCHANGED <<reported, observed, nReported, nHandled>>
    BY <1>4 DEF MicrotasksDone, promVars, history
  <2>2. CASE UNCHANGED <<pendingHandled, handling>>
    BY <1>2, <2>1, <2>2
  <2>3. CASE handling' = pendingHandled /\ pendingHandled' = <<>>
    <3>1. handling = <<>>
      BY <2>1 DEF DrainedInv
    <3>2. ASSUME NEW q \in Prom PROVE Balanced(q)'
      <4>1. Places(pendingHandled', q) = Places(handling, q)
        BY <2>3, <3>1
      <4>2. Places(handling', q) = Places(pendingHandled, q)
        BY <2>3
      <4>3. Balanced(q)
        BY DEF AnswerInv
      <4> QED
        BY <1>0, <1>1, <2>1, <4>1, <4>2, <4>3 DEF Balanced
    <3> QED
      BY <2>1, <3>2 DEF AnswerInv, ToldInv
  <2> QED
    BY <1>4, <2>2, <2>3 DEF MicrotasksDone
<1>5. ASSUME fireRejectionHandled PROVE AnswerInv'
  <2>1. /\ handling # <<>> /\ handling' = Tail(handling)
        /\ nHandled' = [nHandled EXCEPT ![Head(handling)] = @ + 1]
        /\ UNCHANGED <<reported, observed, nReported, pendingHandled>>
    BY <1>5 DEF fireRejectionHandled, promVars
  <2>2. ASSUME NEW q \in Prom PROVE Balanced(q)'
    <3>1. Cardinality(Places(handling', q)) + (IF Head(handling) = q THEN 1 ELSE 0)
            = Cardinality(Places(handling, q))
      BY <1>0, <2>1, PlacesLeave
    <3>2. nHandled'[q] = nHandled[q] + (IF Head(handling) = q THEN 1 ELSE 0)
      BY <1>0, <2>1
    <3>3. Balanced(q)
      BY DEF AnswerInv
    <3>4. handling' \in Seq(Prom)
      BY DEF TypeOK, QueueType
    <3>5. Cardinality(Places(handling', q)) \in Nat
      BY <3>4, PlacesCount
    <3>6. PICK h \in Nat, h2 \in Nat, d \in Nat, e \in Nat :
             /\ h = Cardinality(Places(handling, q)) /\ h2 = Cardinality(Places(handling', q))
             /\ d = (IF Head(handling) = q THEN 1 ELSE 0) /\ e = nHandled[q]
      BY <1>0, <1>1, <3>5
    <3>7. h2 + d = h /\ nHandled'[q] = e + d
      BY <3>1, <3>2, <3>6
    <3>8. \A x \in Nat : x + h + e = x + h2 + (e + d)
      BY <3>6, <3>7
    <3>9. PICK x \in Nat : x = (IF q \in reported THEN 1 ELSE 0)
                                 + Cardinality(Places(pendingHandled, q))
      BY <1>1
    <3>10. nReported[q] = x + h + e
      BY <3>3, <3>6, <3>9 DEF Balanced
    <3>11. nReported[q] = x + h2 + nHandled'[q]
      BY <3>7, <3>8, <3>10
    <3> QED
      BY <2>1, <3>6, <3>9, <3>11 DEF Balanced
  <2> QED
    BY <2>1, <2>2 DEF AnswerInv, ToldInv
<1>6. ASSUME report PROVE AnswerInv'
  <2>1. UNCHANGED <<pendingHandled, handling, nHandled>>
    BY <1>6 DEF report, queueVars
  <2>2. PICK i \in unanswered : dispatch(i) \/ emitReport(i)
    BY <1>6 DEF report
  <2>3. CASE emitReport(i)
    BY <1>2, <2>1, <2>3 DEF emitReport
  <2>4. CASE dispatch(i)
    <3>1. PICK l : l = ledger[i]
      OBVIOUS
    <3>2. l \in Prom /\ l \notin observed
      <4>1. i \in 1 .. Len(ledger) /\ ledger[i] \notin observed
        BY <2>2 DEF unanswered, TypeOK, ControlType
      <4> QED
        BY <1>0, <3>1, <4>1
    <3>3. /\ observed' = observed \union {l} /\ reported' = reported \union {l}
          /\ nReported' = [nReported EXCEPT ![l] = @ + 1]
      BY <2>4, <3>1 DEF dispatch
    <3>4. nReported[l] = 0
      BY <1>0, <3>2 DEF AnswerInv, ToldInv
    <3>5. l \notin reported
      <4>1. Balanced(l)
        BY <3>2 DEF AnswerInv
      <4> QED
        BY <1>0, <1>1, <3>2, <3>4, <4>1 DEF Balanced
    <3>6. /\ nReported'[l] = 1
          /\ \A q \in Prom : q # l => nReported'[q] = nReported[q]
      BY <1>0, <3>2, <3>3, <3>4
    <3>7. ASSUME NEW q \in Prom
          PROVE  nReported'[q] <= 1 /\ Balanced(q)' /\ (nReported'[q] > 0 => q \in observed')
      <4>1. Balanced(q) /\ nReported[q] <= 1 /\ (nReported[q] > 0 => q \in observed)
        BY DEF AnswerInv, ToldInv
      <4>2. CASE q = l
        <5>1. (IF q \in reported THEN 1 ELSE 0) = 0 /\ (IF q \in reported' THEN 1 ELSE 0) = 1
          BY <3>3, <3>5, <4>2
        <5>2. nReported'[q] = nReported[q] + 1 /\ nReported[q] = 0
          BY <3>4, <3>6, <4>2
        <5>3. Balanced(q)'
          BY <1>0, <1>1, <2>1, <4>1, <5>1, <5>2, SMTT(20) DEF Balanced
        <5> QED
          BY <3>3, <4>2, <5>2, <5>3
      <4>3. CASE q # l
        <5>1. q \in reported' <=> q \in reported
          BY <3>3, <4>3
        <5> QED
          BY <2>1, <3>3, <3>6, <4>1, <4>3, <5>1 DEF Balanced
      <4> QED
        BY <4>2, <4>3
    <3> QED
      BY <3>7 DEF AnswerInv, ToldInv
  <2> QED
    BY <2>2, <2>3, <2>4
<1>7. ASSUME \/ \E p \in Prom, s \in {"fulfilled", "rejected"} : settle(p, s)
             \/ hop \/ nextTick \/ offUnhandledRejection
             \/ \E kind \in {"on", "once"} : onUnhandledRejection(kind)
             \/ MainReturns \/ TaskReturns \/ JobReturns \/ Throws \/ RunMicrotask \/ RunTick
             \/ TicksDone \/ emitRootCheck \/ FirstDrainDone \/ HandledDone
             \/ reportReturns \/ Macrotask \/ UNCHANGED vars
      PROVE  observed \subseteq observed' /\ UNCHANGED <<reported, pendingHandled, handling,
                                                        nReported, nHandled>>
  BY <1>7 DEF settle, call, hop, nextTick, offUnhandledRejection, onUnhandledRejection,
     MainReturns, TaskReturns, JobReturns, Throws, RunMicrotask, emitRejectCheckOn, RunTick,
     TicksDone, emitRootCheck, FirstDrainDone, HandledDone, reportReturns, Macrotask, vars,
     promVars, queueVars, history
<1> QED
  BY <1>2, <1>3, <1>4, <1>5, <1>6, <1>7 DEF Next, Calls, Checkpoint, Stopped

\* A promise is told to unhandledRejection listeners at most once, and each
\* telling is open, in the rejectionHandled FIFO or answered exactly once, for
\* every build of the checkpoint.
THEOREM TellingsAreAnsweredOnce == Spec => []AnsweredOnce
<1>1. Init => AnswerInv
  <2> SUFFICES ASSUME Init PROVE AnswerInv
    OBVIOUS
  <2>1. \A p \in Prom : Places(<<>>, p) = {}
    BY DEF Places
  <2>2. Cardinality({}) = 0
    BY FS_EmptySet
  <2>3. ASSUME NEW p \in Prom
        PROVE  nReported[p] <= 1 /\ Balanced(p) /\ ~(nReported[p] > 0)
    <3>1. nReported[p] = 0 /\ nHandled[p] = 0 /\ p \notin reported
      BY DEF Init
    <3>2. Places(pendingHandled, p) = {} /\ Places(handling, p) = {}
      BY <2>1 DEF Init
    <3> QED
      BY <2>2, <3>1, <3>2 DEF Balanced
  <2> QED
    BY <2>3 DEF AnswerInv, ToldInv
<1>2. TypeOK /\ TypeOK' /\ JobInv /\ AnswerInv /\ [Next]_vars => AnswerInv'
  BY AnswerStep DEF JobInv
<1>3. AnswerInv => AnsweredOnce
  BY DEF AnswerInv, AnsweredOnce, Balanced, Places
<1> QED
  BY <1>1, <1>2, <1>3, TypeCorrect, JobInvariant, PTL DEF Spec
===============================================================================

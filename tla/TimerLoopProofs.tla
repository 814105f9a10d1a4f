--------------------------- MODULE TimerLoopProofs ---------------------------
(***************************************************************************)
(* TLAPS proofs about TimerLoop, for every value of its constants.         *)
(***************************************************************************)
EXTENDS TimerLoop, FiniteSetTheorems, FunctionTheorems, TLAPS

(***************************************************************************)
(* Facts about naturals, positions and sequences                           *)
(***************************************************************************)
\* A nonempty set of naturals has a smallest element.
LEMMA LeastNatural ==
  ASSUME NEW S \in SUBSET Nat, S # {}
  PROVE  \E x \in S : \A y \in S : x <= y
<1> DEFINE R == OpToRel(<, Nat)
<1>1. IsWellFoundedOn(R, Nat)
  BY NatLessThanWellFounded
<1>2. \A x, y \in Nat : y < x => <<y, x>> \in R
  BY DEF OpToRel
<1> HIDE DEF R
<1>3. \E x \in S : \A y \in S : ~(<<y, x>> \in R)
  BY <1>1, WFMin
<1>4. \A x, y \in Nat : ~(<<y, x>> \in R) => x <= y
  BY <1>2
<1>5. PICK x \in S : \A y \in S : ~(<<y, x>> \in R)
  BY <1>3
<1>6. \A y \in S : x <= y
  BY <1>4, <1>5
<1> QED
  BY <1>6

\* A set of positions of a sequence is finite, and its size a natural number,
\* positive when the set has a member.
LEMMA PositionCount ==
  ASSUME NEW n \in Nat, NEW S \in SUBSET (1 .. n)
  PROVE  /\ IsFiniteSet(S) /\ Cardinality(S) \in Nat
         /\ S = {} <=> Cardinality(S) = 0
<1>1. IsFiniteSet(1 .. n)
  BY FS_Interval
<1>2. IsFiniteSet(S)
  BY <1>1, FS_Subset
<1> QED
  BY <1>2, FS_CardinalityType, FS_EmptySet

\* The positions S of a queue, and the same entries once its head is popped.
LEMMA PopCount ==
  ASSUME NEW n \in Nat \ {0}, NEW S \in SUBSET (1 .. n),
         NEW U, U = {i \in 1 .. (n - 1) : i + 1 \in S}
  PROVE  Cardinality(U) = IF 1 \in S THEN Cardinality(S) - 1 ELSE Cardinality(S)
<1> DEFINE R == S \ {1}
           f == [i \in U |-> i + 1]
<1>1. IsFiniteSet(S) /\ IsFiniteSet(U)
  <2>1. n - 1 \in Nat /\ U \in SUBSET (1 .. (n - 1))
    OBVIOUS
  <2>2. IsFiniteSet(U)
    BY <2>1, PositionCount
  <2> QED
    BY <2>2, PositionCount
<1>2. f \in Bijection(U, R)
  <2>1. \A i \in U : f[i] \in R
    OBVIOUS
  <2>2. \A i, j \in U : f[i] = f[j] => i = j
    OBVIOUS
  <2>3. \A r \in R : r - 1 \in U /\ f[r - 1] = r
    OBVIOUS
  <2> QED
    BY <2>1, <2>2, <2>3, Fun_IsBij
<1>3. Cardinality(R) = Cardinality(U)
  BY <1>1, <1>2, FS_Bijection DEF ExistsBijection
<1>4. CASE 1 \in S
  BY <1>1, <1>3, <1>4, FS_RemoveElement
<1>5. CASE 1 \notin S
  <2>1. R = S
    BY <1>5
  <2> QED
    BY <1>3, <1>5, <2>1
<1> QED
  BY <1>4, <1>5

\* The positions of a queue, and where its entries are once one has joined the
\* tail or left the head.
LEMMA QueuePositions ==
  ASSUME NEW S, NEW q \in Seq(S)
  PROVE  /\ DOMAIN q = 1 .. Len(q) /\ Len(q) \in Nat
         /\ \A e \in DOMAIN q : \A k \in 1 .. e : k \in DOMAIN q
         /\ \A k \in DOMAIN q : q[k] \in S
         /\ q # <<>> => 1 \in DOMAIN q /\ Len(q) \in DOMAIN q /\ Head(q) = q[1]
OBVIOUS

LEMMA QueueJoin ==
  ASSUME NEW S, NEW q \in Seq(S), NEW n \in S
  PROVE  /\ Append(q, n) \in Seq(S) /\ Len(Append(q, n)) = Len(q) + 1
         /\ DOMAIN Append(q, n) = DOMAIN q \union {Len(q) + 1}
         /\ \A k \in DOMAIN q : k \in DOMAIN Append(q, n) /\ Append(q, n)[k] = q[k]
         /\ Append(q, n)[Len(q) + 1] = n
         /\ Len(q) + 1 \notin DOMAIN q
OBVIOUS

LEMMA QueueLeave ==
  ASSUME NEW S, NEW q \in Seq(S), q # <<>>
  PROVE  /\ Tail(q) \in Seq(S) /\ Len(Tail(q)) = Len(q) - 1
         /\ DOMAIN Tail(q) = 1 .. (Len(q) - 1)
         /\ \A k \in 1 .. (Len(q) - 1) : Tail(q)[k] = q[k + 1]
         /\ Head(q) = q[1]
OBVIOUS

\* A delay is coerced to a positive number of milliseconds.
LEMMA CoercePositive ==
  ASSUME NEW ms \in Int
  PROVE  coerce(ms) \in Nat /\ coerce(ms) >= 1
BY BoundsAssumption DEF coerce

\* An armed entry is well formed.
LEMMA EntryType ==
  ASSUME NEW d \in Nat, NEW s \in Nat, NEW r \in Nat, NEW i \in Nat,
         NEW f \in BOOLEAN, NEW l \in Nat
  PROVE  [deadline |-> d, seq |-> s, repeat |-> r, id |-> i,
          reffed |-> f, delay |-> l] \in Timers
BY DEF Timers

LEMMA EntryRewrite ==
  ASSUME NEW t \in Timers, NEW d \in Nat, NEW s \in Nat, NEW f \in BOOLEAN
  PROVE  /\ [t EXCEPT !.deadline = d, !.seq = s, !.reffed = f] \in Timers
         /\ [t EXCEPT !.deadline = d, !.seq = s] \in Timers
         /\ [t EXCEPT !.reffed = f] \in Timers
BY DEF Timers

LEMMA NoTimerType == NoTimer \in Timers
BY DEF NoTimer, Timers

LEMMA InitType == Init => TypeOK
<1> SUFFICES ASSUME Init PROVE TypeOK
  OBVIOUS
<1>1. TimerType
  BY FS_EmptySet DEF Init, TimerType
<1>2. FiringType
  BY NoTimerType DEF Init, FiringType
<1>3. ImmType
  BY DEF Init, ImmType
<1>4. ControlType
  BY BoundsAssumption DEF Init, ControlType
<1>5. HistoryType
  BY DEF Init, HistoryType
<1> QED
  BY <1>1, <1>2, <1>3, <1>4, <1>5 DEF TypeOK

LEMMA FiringTypeStep ==
  ASSUME TypeOK, [Next]_vars
  PROVE  FiringType'
<1> USE DEF TypeOK, TimerType, FiringType
<1>1. ASSUME UserCall PROVE FiringType'
  BY <1>1 DEF UserCall, setTimeout, handleArm, clear, refOp, refresh,
     setImmediate, clearImmediate, immRefOp, nextTick, queueMicrotask,
     firingVars
<1>2. ASSUME FireTimer PROVE FiringType'
  BY <1>2 DEF FireTimer, top, Timers
<1>3. ASSUME TimerReturns PROVE FiringType'
  BY <1>3, NoTimerType DEF TimerReturns
<1>4. ASSUME Loop, ~FireTimer, ~TimerReturns PROVE UNCHANGED firingVars
  BY <1>4 DEF Loop, JobReturns, MainReturns, ImmediateReturns,
     RunTick, RunMicrotask, DrainDone, TimersDone, RunImmediate,
     Answer, HostTick
<1>5. ASSUME Throws \/ ClockAdvances \/ UNCHANGED vars PROVE UNCHANGED firingVars
  BY <1>5 DEF Throws, ClockAdvances, vars
<1>6. ASSUME UNCHANGED firingVars PROVE FiringType'
  BY <1>6 DEF firingVars
<1> QED
  BY <1>1, <1>2, <1>3, <1>4, <1>5, <1>6 DEF Next, Stopped

LEMMA ControlTypeStep ==
  ASSUME TypeOK, [Next]_vars
  PROVE  ControlType'
<1> USE DEF TypeOK, ControlType
<1>1. ASSUME UserCall PROVE ControlType'
  <2>1. Call
    BY <1>1 DEF UserCall, setTimeout, handleArm, clear, refOp, refresh,
       setImmediate, clearImmediate, immRefOp, nextTick, queueMicrotask
  <2>2. /\ ticks' = ticks \/ ticks' = ticks + 1
        /\ micros' = micros \/ micros' = micros + 1
    BY <1>1 DEF UserCall, setTimeout, handleArm, clear, refOp, refresh,
       setImmediate, clearImmediate, immRefOp, nextTick, queueMicrotask
  <2> QED
    BY <2>1, <2>2 DEF Call, hostVars
<1>2. CASE Loop
  <2>1. ASSUME Answer PROVE due' \in Int
    BY <2>1 DEF Answer, answers, top, TimerType, Timers
  <2>2. ASSUME Answer PROVE ControlType'
    BY <2>1, <2>2 DEF Answer
  <2>3. ASSUME DrainDone PROVE ControlType'
    BY <2>3 DEF DrainDone, hostVars
  <2>4. ASSUME RunImmediate PROVE ControlType'
    BY <2>4 DEF RunImmediate, hostVars
  <2>5. ASSUME Loop, ~Answer, ~DrainDone, ~RunImmediate PROVE ControlType'
    BY <2>5 DEF Loop, JobReturns, MainReturns, ImmediateReturns, TimerReturns,
       RunTick, RunMicrotask, FireTimer, TimersDone, HostTick, hostVars
  <2> QED
    BY <1>2, <2>2, <2>3, <2>4, <2>5
<1>3. ASSUME Throws \/ ClockAdvances \/ UNCHANGED vars PROVE ControlType'
  BY <1>3 DEF Throws, ClockAdvances, vars, hostVars
<1> QED
  BY <1>1, <1>2, <1>3 DEF Next, Stopped
\* Elements of a sequence, and a sequence with elements replaced.
LEMMA SeqElement ==
  ASSUME NEW S, NEW s \in Seq(S), NEW i \in DOMAIN s
  PROVE  s[i] \in S
OBVIOUS

LEMMA SeqUpdate ==
  ASSUME NEW S, NEW s \in Seq(S), NEW i \in DOMAIN s, NEW v \in S
  PROVE  [s EXCEPT ![i] = v] \in Seq(S)
OBVIOUS

LEMMA SeqRewrite ==
  ASSUME NEW S, NEW s \in Seq(S), NEW f,
         DOMAIN f = DOMAIN s, f = [i \in DOMAIN s |-> f[i]],
         \A i \in DOMAIN s : f[i] \in S
  PROVE  f \in Seq(S) /\ Len(f) = Len(s)
OBVIOUS

LEMMA ImmRewrite ==
  ASSUME NEW n \in Immediates, NEW b \in BOOLEAN
  PROVE  /\ [n EXCEPT !.live = FALSE, !.reffed = FALSE] \in Immediates
         /\ [n EXCEPT !.reffed = b] \in Immediates
         /\ [n EXCEPT !.late = FALSE] \in Immediates
BY DEF Immediates

LEMMA ImmTypeStep ==
  ASSUME TypeOK, [Next]_vars
  PROVE  ImmType'
<1> USE DEF TypeOK, ImmType
<1>1. ASSUME setImmediate PROVE ImmType'
  BY <1>1 DEF setImmediate, Call, Immediates
<1>2. ASSUME NEW h \in Nat, clearImmediate(h) PROVE ImmType'
  <2>1. CASE immFind(h) = {}
    BY <1>2, <2>1 DEF clearImmediate, Call
  <2>2. CASE immFind(h) # {}
    <3>1. PICK i \in immFind(h) :
             /\ imms' = [imms EXCEPT ![i] = [@ EXCEPT !.live = FALSE, !.reffed = FALSE]]
             /\ immPending' = unreff(immPending)
             /\ immReffed' = IF imms[i].reffed THEN unreff(immReffed) ELSE immReffed
      BY <1>2, <2>2 DEF clearImmediate
    <3>2. i \in DOMAIN imms
      BY DEF immFind
    <3>3. [imms[i] EXCEPT !.live = FALSE, !.reffed = FALSE] \in Immediates
      BY <3>2, SeqElement, ImmRewrite
    <3>4. imms' \in Seq(Immediates)
      BY <3>1, <3>2, <3>3, SeqUpdate
    <3>5. immNextId' = immNextId /\ END' = END
      BY <1>2 DEF clearImmediate, Call
    <3> QED
      BY <3>1, <3>4, <3>5 DEF unreff
  <2> QED
    BY <2>1, <2>2
<1>3. ASSUME NEW h \in Nat, NEW on \in BOOLEAN, immRefOp(h, on) PROVE ImmType'
  <2> DEFINE changes == {i \in immFind(h) : imms[i].reffed # on}
  <2>1. CASE changes = {}
    BY <1>3, <2>1 DEF immRefOp, Call
  <2>2. CASE changes # {}
    <3>1. PICK i \in changes :
             /\ imms' = [imms EXCEPT ![i] = [@ EXCEPT !.reffed = on]]
             /\ immReffed' = IF on THEN immReffed + 1 ELSE unreff(immReffed)
      BY <1>3, <2>2 DEF immRefOp
    <3>2. i \in DOMAIN imms
      BY DEF immFind
    <3>3. [imms[i] EXCEPT !.reffed = on] \in Immediates
      BY <3>2, SeqElement, ImmRewrite
    <3>4. imms' \in Seq(Immediates)
      BY <3>1, <3>2, <3>3, SeqUpdate
    <3>5. immNextId' = immNextId /\ END' = END /\ immPending' = immPending
      BY <1>3 DEF immRefOp, Call
    <3> QED
      BY <3>1, <3>4, <3>5 DEF unreff
  <2> QED
    BY <2>1, <2>2
<1>4. ASSUME RunImmediate PROVE ImmType'
  <2>1. Head(imms) \in Immediates /\ Tail(imms) \in Seq(Immediates)
    BY <1>4 DEF RunImmediate, CheckDone
  <2>2. imms' = Tail(imms) /\ immNextId' = immNextId
    BY <1>4 DEF RunImmediate
  <2>3. immPending' \in Nat /\ immReffed' \in Nat
    BY <1>4 DEF RunImmediate, unreff
  <2>4. END' \in Nat
    BY <1>4 DEF RunImmediate
  <2> QED
    BY <2>1, <2>2, <2>3, <2>4
<1>5. ASSUME TimersDone PROVE ImmType'
  <2>1. imms # <<>> => imms[Len(imms)] \in Immediates
    OBVIOUS
  <2> QED
    BY <1>5, <2>1 DEF TimersDone, Immediates
<1>6. ASSUME Answer PROVE ImmType'
  <2>1. \A i \in DOMAIN imms : [imms[i] EXCEPT !.late = FALSE] \in Immediates
    BY SeqElement, ImmRewrite
  <2>2. imms' = [i \in DOMAIN imms |-> [imms[i] EXCEPT !.late = FALSE]]
    BY <1>6 DEF Answer
  <2>3. imms' \in Seq(Immediates)
    BY <2>1, <2>2, SeqRewrite
  <2> QED
    BY <1>6, <2>3 DEF Answer
<1>7. ASSUME UNCHANGED immVars PROVE ImmType'
  BY <1>7 DEF immVars
<1>8. ASSUME UserCall, ~setImmediate,
             ~ \E h \in 1 .. immNextId : clearImmediate(h),
             ~ \E h \in 1 .. immNextId, on \in BOOLEAN : immRefOp(h, on)
      PROVE  UNCHANGED immVars
  BY <1>8 DEF UserCall, setTimeout, handleArm, clear, refOp, refresh,
     nextTick, queueMicrotask, Call, immVars
<1>9. ASSUME Loop, ~RunImmediate, ~TimersDone, ~Answer
      PROVE  UNCHANGED immVars
  BY <1>9 DEF Loop, JobReturns, MainReturns, ImmediateReturns, TimerReturns,
     RunTick, RunMicrotask, DrainDone, FireTimer, HostTick
<1>10. ASSUME Throws \/ ClockAdvances \/ UNCHANGED vars PROVE UNCHANGED immVars
  BY <1>10 DEF Throws, ClockAdvances, vars
<1> QED
  BY <1>1, <1>2, <1>3, <1>4, <1>5, <1>6, <1>7, <1>8, <1>9, <1>10 DEF Next, Stopped

LEMMA HistoryTypeStep ==
  ASSUME TypeOK, [Next]_vars
  PROVE  HistoryType'
<1> USE DEF TypeOK, HistoryType
<1>1. ASSUME UserCall PROVE HistoryType'
  <2>1. cleared' = cleared \/ \E h \in Handles : cleared' = cleared \union {h}
    BY <1>1 DEF UserCall, setTimeout, handleArm, clear, refOp, refresh,
       setImmediate, clearImmediate, immRefOp, nextTick, queueMicrotask
  <2>2. Call
    BY <1>1 DEF UserCall, setTimeout, handleArm, clear, refOp, refresh,
       setImmediate, clearImmediate, immRefOp, nextTick, queueMicrotask
  <2>3. Handles \subseteq Nat
    BY DEF Handles, TimerType
  <2>4. cleared' \subseteq Nat
    BY <2>1, <2>3
  <2> QED
    BY <2>2, <2>4 DEF Call
<1>2. ASSUME FireTimer PROVE HistoryType'
  BY <1>2 DEF FireTimer, top, TimerType, Timers
<1>3. ASSUME HostTick PROVE HistoryType'
  BY <1>3 DEF HostTick
<1>4. ASSUME Loop, ~FireTimer, ~HostTick PROVE UNCHANGED history
  BY <1>4 DEF Loop, JobReturns, MainReturns, ImmediateReturns, TimerReturns,
     RunTick, RunMicrotask, DrainDone, TimersDone, RunImmediate, Answer
<1>5. ASSUME Throws \/ ClockAdvances \/ UNCHANGED vars PROVE UNCHANGED history
  BY <1>5 DEF Throws, ClockAdvances, vars
<1>6. ASSUME UNCHANGED history PROVE HistoryType'
  BY <1>6 DEF history
<1> QED
  BY <1>1, <1>2, <1>3, <1>4, <1>5, <1>6 DEF Next, Stopped
(***************************************************************************)
(* What a step does to the heap: nothing, push a fresh entry, remove one,  *)
(* or replace one.  Sequence numbers identify entries, which is what keeps *)
(* the count of ref'd entries in step with the set of them.                *)
(***************************************************************************)
HeapStep ==
  \/ UNCHANGED <<heap, reffed, seq>>
  \/ \E t \in Timers : t.seq = seq /\ push(t) /\ seq' = seq + 1
  \/ \E t \in heap : removeAt(t) /\ seq' = seq
  \/ \E t \in heap, u \in Timers :
        /\ replace(t, u)
        /\ \/ u.seq = t.seq /\ seq' = seq
           \/ u.seq = seq /\ seq' = seq + 1

\* Armed entries carry distinct sequence numbers already handed out.
SeqOK ==
  /\ \A t \in heap : t.seq < seq
  /\ \A s, t \in heap : s.seq = t.seq => s = t

HeapInv == TimerType /\ SeqOK /\ ReffedExact

\* Cardinality of the ref'd entries when one entry joins or leaves.
LEMMA CountJoin ==
  ASSUME NEW H, IsFiniteSet(H), NEW t, t \notin H
  PROVE  Cardinality({x \in H \union {t} : x.reffed}) =
           IF t.reffed THEN Cardinality({x \in H : x.reffed}) + 1
           ELSE Cardinality({x \in H : x.reffed})
<1> DEFINE R == {x \in H : x.reffed}
<1>1. IsFiniteSet(R) /\ t \notin R
  BY FS_Subset
<1>2. CASE t.reffed
  <2>1. {x \in H \union {t} : x.reffed} = R \union {t}
    BY <1>2
  <2> QED
    BY <1>1, <1>2, <2>1, FS_AddElement
<1>3. CASE ~t.reffed
  <2>1. {x \in H \union {t} : x.reffed} = R
    BY <1>3
  <2> QED
    BY <1>3, <2>1
<1> QED
  BY <1>2, <1>3

LEMMA CountLeave ==
  ASSUME NEW H, IsFiniteSet(H), NEW t \in H
  PROVE  Cardinality({x \in H \ {t} : x.reffed}) =
           IF t.reffed THEN Cardinality({x \in H : x.reffed}) - 1
           ELSE Cardinality({x \in H : x.reffed})
<1> DEFINE R == {x \in H : x.reffed}
<1>1. IsFiniteSet(R)
  BY FS_Subset
<1>2. CASE t.reffed
  <2>1. {x \in H \ {t} : x.reffed} = R \ {t} /\ t \in R
    BY <1>2
  <2> QED
    BY <1>1, <1>2, <2>1, FS_RemoveElement
<1>3. CASE ~t.reffed
  <2>1. {x \in H \ {t} : x.reffed} = R
    BY <1>3
  <2> QED
    BY <1>3, <2>1
<1> QED
  BY <1>2, <1>3

LEMMA CountNat ==
  ASSUME NEW H, IsFiniteSet(H)
  PROVE  /\ Cardinality({x \in H : x.reffed}) \in Nat
         /\ \A t \in H : t.reffed => Cardinality({x \in H : x.reffed}) > 0
<1> DEFINE R == {x \in H : x.reffed}
<1>1. IsFiniteSet(R)
  BY FS_Subset
<1>2. Cardinality(R) \in Nat
  BY <1>1, FS_CardinalityType
<1>3. ASSUME NEW t \in H, t.reffed PROVE Cardinality(R) > 0
  <2>1. R # {}
    BY <1>3
  <2> QED
    BY <1>1, <1>2, <2>1, FS_EmptySet
<1> QED
  BY <1>2, <1>3
\* A heap step keeps the sequence numbers distinct and the count exact.
LEMMA HeapStepKeeps ==
  ASSUME HeapInv, HeapStep, nextId' \in Nat \ {0}
  PROVE  HeapInv'
<1> USE DEF HeapInv, TimerType
<1>1. CASE UNCHANGED <<heap, reffed, seq>>
  BY <1>1 DEF SeqOK, ReffedExact
<1>2. ASSUME NEW t \in Timers, t.seq = seq, push(t), seq' = seq + 1
      PROVE  HeapInv'
  <2>1. t \notin heap
    BY <1>2 DEF SeqOK
  <2>2. TimerType'
    BY <1>2, FS_AddElement DEF push
  <2>3. SeqOK'
    BY <1>2 DEF push, SeqOK, Timers
  <2>4. ReffedExact'
    BY <1>2, <2>1, CountJoin DEF push, ReffedExact
  <2> QED
    BY <2>2, <2>3, <2>4
<1>3. ASSUME NEW t \in heap, removeAt(t), seq' = seq
      PROVE  HeapInv'
  <2>1. reffed' = IF t.reffed THEN reffed - 1 ELSE reffed
    BY <1>3, CountNat DEF removeAt, unreff, ReffedExact
  <2>2. ReffedExact'
    BY <1>3, <2>1, CountLeave DEF removeAt, ReffedExact
  <2>3. IsFiniteSet(heap')
    BY <1>3, FS_RemoveElement DEF removeAt
  <2>4. reffed' \in Nat
    BY <1>3, CountNat DEF removeAt, unreff
  <2>5. SeqOK'
    BY <1>3 DEF removeAt, SeqOK
  <2> QED
    BY <1>3, <2>2, <2>3, <2>4, <2>5 DEF removeAt
<1>4. ASSUME NEW t \in heap, NEW u \in Timers, replace(t, u),
             \/ u.seq = t.seq /\ seq' = seq
             \/ u.seq = seq /\ seq' = seq + 1
      PROVE  HeapInv'
  <2> DEFINE H == heap \ {t}
             left == IF t.reffed THEN reffed - 1 ELSE reffed
  <2>1. IsFiniteSet(H)
    BY FS_RemoveElement
  <2>2. u \notin H
    BY <1>4 DEF SeqOK
  <2>3. left = Cardinality({x \in H : x.reffed})
    BY CountLeave DEF ReffedExact
  <2>4. heap' = H \union {u} /\ reffed' = IF u.reffed THEN left + 1 ELSE left
    BY <1>4, CountNat DEF replace, unreff, ReffedExact
  <2>5. ReffedExact'
    BY <2>1, <2>2, <2>3, <2>4, CountJoin DEF ReffedExact
  <2>6. IsFiniteSet(heap') /\ heap' \subseteq Timers
    BY <2>1, <2>4, FS_AddElement
  <2>7. left \in Nat
    BY <2>1, <2>3, CountNat
  <2>8. seq' \in Nat /\ reffed' \in Nat
    BY <1>4, <2>4, <2>7
  <2>9. SeqOK'
    <3>1. \A x \in H : x.seq < seq /\ x.seq # u.seq /\ x.seq \in Nat
      BY <1>4 DEF SeqOK, Timers
    <3>2. u.seq < seq' /\ seq <= seq'
      BY <1>4 DEF SeqOK
    <3> HIDE DEF H
    <3>3. \A x \in heap' : x.seq < seq'
      BY <2>4, <3>1, <3>2, <2>8
    <3>4. \A x, y \in H : x.seq = y.seq => x = y
      BY DEF SeqOK, H
    <3> QED
      BY <2>4, <3>1, <3>3, <3>4 DEF SeqOK
  <2> QED
    BY <2>5, <2>6, <2>8, <2>9
<1> QED
  BY <1>1, <1>2, <1>3, <1>4 DEF HeapStep

\* Every step of the program is a heap step.
LEMMA NextIsHeapStep ==
  ASSUME TypeOK, [Next]_vars
  PROVE  HeapStep /\ nextId' \in Nat \ {0}
<1> USE DEF TypeOK, TimerType, FiringType, ControlType
<1>1. ASSUME NEW ms \in DelayInputs, NEW rep \in BOOLEAN, NEW id \in Nat,
             arm(ms, rep, id)
      PROVE  HeapStep
  <2>1. coerce(ms) \in Nat /\ clock + coerce(ms) \in Nat
        /\ (IF rep THEN coerce(ms) ELSE 0) \in Nat
    BY CoercePositive, BoundsAssumption
  <2> DEFINE t == [deadline |-> clock + coerce(ms), seq |-> seq,
                   repeat |-> IF rep THEN coerce(ms) ELSE 0,
                   id |-> id, reffed |-> TRUE, delay |-> coerce(ms)]
  <2>2. t \in Timers
    BY <2>1, EntryType
  <2>3. t.seq = seq /\ push(t) /\ seq' = seq + 1
    BY <1>1 DEF arm
  <2> HIDE DEF t
  <2> QED
    BY <2>2, <2>3 DEF HeapStep
<1>2. ASSUME NEW h \in Handles, clear(h) PROVE HeapStep
  BY <1>2 DEF clear, HeapStep, find, timerVars
<1>3. ASSUME NEW h \in Handles, NEW on \in BOOLEAN, refOp(h, on) PROVE HeapStep
  <2>1. ASSUME NEW t \in find(h), replace(t, [t EXCEPT !.reffed = on]), seq' = seq
        PROVE  HeapStep
    <3>1. t \in heap /\ [t EXCEPT !.reffed = on] \in Timers
      BY DEF find, Timers
    <3>2. [t EXCEPT !.reffed = on].seq = t.seq
      BY <3>1 DEF Timers
    <3> QED
      BY <2>1, <3>1, <3>2 DEF HeapStep
  <2> QED
    BY <1>3, <2>1 DEF refOp, HeapStep, timerVars
<1>4. ASSUME NEW h \in Handles, refresh(h) PROVE HeapStep
  <2>1. ASSUME NEW t \in find(h), seq' = seq + 1,
               replace(t, [t EXCEPT !.deadline = clock + t.delay, !.seq = seq])
        PROVE  HeapStep
    <3>1. t \in heap /\ t \in Timers
      BY DEF find
    <3>2. clock + t.delay \in Nat
      BY <3>1 DEF Timers
    <3>3. [t EXCEPT !.deadline = clock + t.delay, !.seq = seq] \in Timers
      BY <3>1, <3>2, EntryRewrite
    <3>4. [t EXCEPT !.deadline = clock + t.delay, !.seq = seq].seq = seq
      BY <3>1 DEF Timers
    <3> QED
      BY <2>1, <3>1, <3>3, <3>4 DEF HeapStep
  <2> QED
    BY <1>4, <2>1 DEF refresh, HeapStep, timerVars
<1>5. ASSUME TimerReturns PROVE HeapStep
  <2>1. CASE rearmDelay > 0
    <3> DEFINE t == [T EXCEPT !.deadline = clock + rearmDelay, !.seq = seq,
                              !.reffed = firingReffed]
    <3>1. rearmDelay \in Nat
      BY DEF rearmDelay, Timers
    <3>2. t \in Timers /\ t.seq = seq
      <4>1. clock + rearmDelay \in Nat
        BY <3>1
      <4>2. t \in Timers
        BY <4>1, EntryRewrite
      <4>3. t.seq = seq
        BY DEF Timers
      <4> QED
        BY <4>2, <4>3
    <3>3. push(t) /\ seq' = seq + 1
      BY <1>5, <2>1 DEF TimerReturns
    <3> HIDE DEF t
    <3> QED
      BY <3>2, <3>3 DEF HeapStep
  <2>2. CASE ~(rearmDelay > 0)
    BY <1>5, <2>2 DEF TimerReturns, HeapStep
  <2> QED
    BY <2>1, <2>2
<1>6. ASSUME FireTimer PROVE HeapStep
  BY <1>6 DEF FireTimer, top, HeapStep
<1>7. ASSUME UserCall PROVE HeapStep
  BY <1>1, <1>2, <1>3, <1>4, <1>7 DEF UserCall, setTimeout, handleArm,
     setImmediate, clearImmediate, immRefOp, nextTick, queueMicrotask,
     timerVars, HeapStep
<1>8. ASSUME Loop PROVE HeapStep
  <2>1. ASSUME Loop, ~TimerReturns, ~FireTimer PROVE UNCHANGED timerVars
    BY <2>1 DEF Loop, JobReturns, MainReturns, ImmediateReturns, RunTick,
       RunMicrotask, DrainDone, TimersDone, RunImmediate, Answer, HostTick
  <2> QED
    BY <1>5, <1>6, <1>8, <2>1 DEF timerVars, HeapStep
<1>9. ASSUME Throws \/ ClockAdvances \/ UNCHANGED vars PROVE HeapStep
  BY <1>9 DEF Throws, ClockAdvances, vars, timerVars, HeapStep
<1>10. nextId' \in Nat \ {0}
  <2>1. nextId' = nextId \/ nextId' = nextId + 1
    <3>1. ASSUME UserCall PROVE nextId' = nextId \/ nextId' = nextId + 1
      BY <3>1 DEF UserCall, setTimeout, handleArm, clear, refOp, refresh,
         setImmediate, clearImmediate, immRefOp, nextTick, queueMicrotask,
         timerVars
    <3>2. ASSUME Loop \/ Throws \/ ClockAdvances \/ UNCHANGED vars
          PROVE  nextId' = nextId
      BY <3>2 DEF Loop, JobReturns, MainReturns, ImmediateReturns, RunTick,
         RunMicrotask, DrainDone, TimersDone, RunImmediate, Answer, HostTick,
         TimerReturns, FireTimer, Throws, ClockAdvances, vars, timerVars
    <3> QED
      BY <3>1, <3>2 DEF Next, Stopped
  <2> QED
    BY <2>1
<1> QED
  BY <1>7, <1>8, <1>9, <1>10 DEF Next, Stopped

TypedHeap == TypeOK /\ SeqOK /\ ReffedExact

\* The variables keep their types, and the ref'd count that decides whether the
\* program lives is exact, in every behaviour of the loop.
THEOREM TypedHeapInvariant == Spec => []TypedHeap
<1>1. Init => TypedHeap
  <2> SUFFICES ASSUME Init PROVE TypedHeap
    OBVIOUS
  <2>1. SeqOK
    BY DEF Init, SeqOK
  <2>2. ReffedExact
    <3>1. {t \in heap : t.reffed} = {}
      BY DEF Init
    <3> QED
      BY <3>1, FS_EmptySet DEF Init, ReffedExact
  <2> QED
    BY <2>1, <2>2, InitType DEF TypedHeap
<1>2. TypedHeap /\ [Next]_vars => TypedHeap'
  <2> SUFFICES ASSUME TypedHeap, [Next]_vars PROVE TypedHeap'
    OBVIOUS
  <2>1. TypeOK /\ HeapInv
    BY DEF TypedHeap, HeapInv, TypeOK
  <2>2. HeapInv'
    BY <2>1, NextIsHeapStep, HeapStepKeeps
  <2> QED
    BY <2>1, <2>2, FiringTypeStep, ImmTypeStep, ControlTypeStep,
       HistoryTypeStep DEF TypedHeap, HeapInv, TypeOK
<1> QED
  BY <1>1, <1>2, PTL DEF Spec

\* TypeOK holds in every reachable state.
THEOREM TypeCorrect == Spec => []TypeOK
BY TypedHeapInvariant, PTL DEF TypedHeap

\* The ref'd count is the number of ref'd armed timers in every reachable state.
THEOREM ReffedCountExact == Spec => []ReffedExact
BY TypedHeapInvariant, PTL DEF TypedHeap

(***************************************************************************)
(* Control: user code runs where the phase and the checkpoint called it,   *)
(* and no phase of _tick goes on while a job is queued.                    *)
(***************************************************************************)
ControlInv ==
  /\ ctx = "main" => phase = "start" /\ cp = "off"
  /\ ctx = "timer" => phase = "timers" /\ cp = "off"
  /\ ctx = "imm" => phase = "check" /\ cp = "off"
  /\ ctx \in {"tick", "micro"} => cp # "off"
  /\ phase \in {"host", "exit"} => cp = "off" /\ ctx = "none"
  /\ phase = "dead" => ctx = "none"
  /\ phase = "start" /\ cp = "off" => ctx = "main"

JobsInv ==
  cp = "off" /\ ctx = "none" /\ phase # "dead" => ticks = 0 /\ micros = 0

\* The calls user code makes leave the control alone.
LEMMA CallFrame ==
  ASSUME UserCall
  PROVE  /\ ctx # "none"
         /\ UNCHANGED <<phase, cp, ctx, hostVars, END, firedNow>>
BY DEF UserCall, setTimeout, handleArm, clear, refOp, refresh,
   setImmediate, clearImmediate, immRefOp, nextTick, queueMicrotask, Call

LEMMA ControlStep ==
  ASSUME TypeOK, ControlInv, JobsInv, [Next]_vars
  PROVE  ControlInv' /\ JobsInv'
<1> USE DEF TypeOK, ControlType, ControlInv, JobsInv
<1>1. ASSUME UserCall PROVE ControlInv' /\ JobsInv'
  BY <1>1, CallFrame
<1>2. ASSUME MainReturns \/ JobReturns \/ ImmediateReturns \/ TimerReturns
      PROVE  ControlInv' /\ JobsInv'
  BY <1>2 DEF MainReturns, JobReturns, ImmediateReturns, TimerReturns
<1>3. ASSUME Throws PROVE ControlInv' /\ JobsInv'
  BY <1>3 DEF Throws
<1>4. ASSUME RunTick \/ RunMicrotask \/ DrainDone PROVE ControlInv' /\ JobsInv'
  BY <1>4 DEF RunTick, RunMicrotask, DrainDone, InCheckpoint
<1>5. ASSUME FireTimer \/ TimersDone PROVE ControlInv' /\ JobsInv'
  BY <1>5 DEF FireTimer, TimersDone, AtPhase
<1>6. ASSUME RunImmediate PROVE ControlInv' /\ JobsInv'
  BY <1>6 DEF RunImmediate, AtPhase
<1>7. ASSUME Answer PROVE ControlInv' /\ JobsInv'
  BY <1>7 DEF Answer, AtPhase
<1>8. ASSUME HostTick \/ ClockAdvances \/ UNCHANGED vars
      PROVE  ControlInv' /\ JobsInv'
  BY <1>8 DEF HostTick, ClockAdvances, vars
<1> QED
  BY <1>1, <1>2, <1>3, <1>4, <1>5, <1>6, <1>7, <1>8 DEF Next, Loop, Stopped

(***************************************************************************)
(* Handles: a handle names at most one entry, and the running timer is out *)
(* of the heap.  What the program cleared is in neither, unless it is the  *)
(* running timer, which then remembers it.  Every entry that is armed      *)
(* while a turn runs is due after the NOW of the turn.                     *)
(***************************************************************************)
HandleInv ==
  /\ \A s, t \in heap : s.id = t.id /\ s.id # 0 => s = t
  /\ \A t \in heap : t.id < nextId /\ (t.id # firingId \/ t.id = 0)
  /\ firingId < nextId
  /\ ctx = "timer" => T.id = firingId
  /\ ctx # "timer" /\ phase # "dead" => firingId = 0

ClearedInv ==
  /\ \A h \in cleared : h # 0 /\ h < nextId
  /\ \A t \in heap : t.id \notin cleared
  /\ ctx = "timer" /\ firingId \in cleared => firingCleared

TimeInv ==
  /\ tickNow <= clock
  /\ \A t \in heap : t.delay >= 1
  /\ \A t \in heap : phase = "check" \/ t.id \in firedNow => tickNow < t.deadline
  /\ 0 \notin firedNow
  /\ ctx = "timer" => T.delay >= 1

\* A finite heap that is not empty has a root.
LEMMA RootExists ==
  ASSUME TypeOK, SeqOK, heap # {}
  PROVE  top # {}
<1> USE DEF TypeOK, TimerType
<1> DEFINE D == {t.deadline : t \in heap}
<1>1. D \in SUBSET Nat /\ D # {}
  BY DEF Timers
<1>2. PICK d \in D : \A e \in D : d <= e
  BY <1>1, LeastNatural
<1> DEFINE S == {t.seq : t \in {u \in heap : u.deadline = d}}
<1>3. S \in SUBSET Nat /\ S # {}
  BY DEF Timers
<1>4. PICK n \in S : \A m \in S : n <= m
  BY <1>3, LeastNatural
<1>5. PICK t \in heap : t.deadline = d /\ t.seq = n
  OBVIOUS
<1>6. ASSUME NEW u \in heap \ {t} PROVE before(t, u)
  <2>1. t.seq # u.seq
    BY <1>5 DEF SeqOK
  <2>2. t.deadline <= u.deadline
    BY <1>2, <1>5
  <2>3. u.deadline = d => t.seq <= u.seq
    BY <1>4, <1>5
  <2>4. /\ t.deadline \in Nat /\ u.deadline \in Nat
        /\ t.seq \in Nat /\ u.seq \in Nat
    BY DEF Timers
  <2> QED
    BY <1>5, <2>1, <2>2, <2>3, <2>4 DEF before
<1> QED
  BY <1>5, <1>6 DEF top

\* The root is due first.
LEMMA RootIsLeast ==
  ASSUME TypeOK, NEW t \in top
  PROVE  t \in heap /\ \A u \in heap : t.deadline <= u.deadline
BY DEF top, before, TypeOK, TimerType, Timers

\* The fields of an entry that ref, unref, refresh or a re-arm rewrites.
LEMMA RewrittenFields ==
  ASSUME NEW t \in Timers, NEW d, NEW s, NEW f
  PROVE  /\ [t EXCEPT !.deadline = d, !.seq = s, !.reffed = f].id = t.id
         /\ [t EXCEPT !.deadline = d, !.seq = s, !.reffed = f].delay = t.delay
         /\ [t EXCEPT !.deadline = d, !.seq = s, !.reffed = f].deadline = d
         /\ [t EXCEPT !.deadline = d, !.seq = s].id = t.id
         /\ [t EXCEPT !.deadline = d, !.seq = s].delay = t.delay
         /\ [t EXCEPT !.deadline = d, !.seq = s].deadline = d
         /\ [t EXCEPT !.reffed = f].id = t.id
         /\ [t EXCEPT !.reffed = f].delay = t.delay
         /\ [t EXCEPT !.reffed = f].deadline = t.deadline
BY DEF Timers

\* What a step of the program does to the entries and their handles.
\*   Arms: a new entry, with no handle or a fresh one, due after the clock;
\*   Drops: the program clears h, which is not running;
\*   Moves: one entry is rewritten in place or due again after the clock.
Arms ==
  /\ ctx # "none"
  /\ \E u \in Timers :
       /\ heap' = heap \union {u}
       /\ u.delay >= 1 /\ clock < u.deadline
       /\ \/ u.id = 0 /\ nextId' = nextId
          \/ u.id = nextId /\ nextId' = nextId + 1
  /\ UNCHANGED <<firingVars, cleared>>

Drops ==
  /\ ctx # "none"
  /\ \E h \in Handles :
       /\ h # firingId \/ h = 0
       /\ IF h = 0 THEN heap' = heap ELSE \/ heap' = heap /\ \A t \in heap : t.id # h
                                          \/ \E t \in heap : t.id = h /\ heap' = heap \ {t}
       /\ cleared' = IF h = 0 THEN cleared ELSE cleared \union {h}
  /\ UNCHANGED <<nextId, firingVars>>

Moves ==
  /\ ctx # "none"
  /\ \E t \in heap, u \in Timers :
       /\ heap' = (heap \ {t}) \union {u}
       /\ u.id = t.id /\ u.delay = t.delay
       /\ u.deadline = t.deadline \/ u.deadline = clock + t.delay
  /\ UNCHANGED <<nextId, firingVars, cleared>>

\* A flag of the running timer changes: it is cleared, or ref'd, or refreshed.
Flags ==
  /\ ctx # "none" /\ firingId # 0
  /\ UNCHANGED <<heap, nextId, T, firingId>>
  /\ \/ cleared' = cleared \union {firingId} /\ firingCleared' = TRUE
     \/ cleared' = cleared /\ firingCleared' = firingCleared

LEMMA CallKinds ==
  ASSUME TypeOK, UserCall
  PROVE  \/ Arms \/ Drops \/ Moves \/ Flags
         \/ UNCHANGED <<heap, nextId, firingVars, cleared>>
<1> USE DEF TypeOK, TimerType, FiringType, ControlType
<1>1. ASSUME NEW ms \in DelayInputs, NEW rep \in BOOLEAN, NEW id \in Nat,
             Call, arm(ms, rep, id), UNCHANGED <<firingVars, cleared>>,
             \/ id = 0 /\ nextId' = nextId
             \/ id = nextId /\ nextId' = nextId + 1
      PROVE  Arms
  <2> DEFINE t == [deadline |-> clock + coerce(ms), seq |-> seq,
                   repeat |-> IF rep THEN coerce(ms) ELSE 0,
                   id |-> id, reffed |-> TRUE, delay |-> coerce(ms)]
  <2>1. /\ coerce(ms) \in Nat /\ coerce(ms) >= 1
        /\ clock + coerce(ms) \in Nat /\ (IF rep THEN coerce(ms) ELSE 0) \in Nat
    BY CoercePositive, BoundsAssumption
  <2>2. t \in Timers
    BY <2>1, EntryType
  <2>3. heap' = heap \union {t}
    BY <1>1 DEF arm, push
  <2>4. t.delay >= 1 /\ clock < t.deadline /\ t.id = id
    BY <2>1
  <2> HIDE DEF t
  <2>5. ctx # "none"
    BY <1>1 DEF Call
  <2> QED
    BY <1>1, <2>2, <2>3, <2>4, <2>5 DEF Arms
<1>2. ASSUME NEW ms \in DelayInputs, setTimeout(ms) PROVE Arms
  BY <1>1, <1>2 DEF setTimeout
<1>3. ASSUME NEW ms \in DelayInputs, NEW rep \in BOOLEAN, handleArm(ms, rep)
      PROVE  Arms
  BY <1>1, <1>3 DEF handleArm
<1>4. ASSUME NEW h \in Handles, clear(h) PROVE Drops \/ Flags
  <2>1. h \in Nat
    BY DEF Handles
  <2>2. CASE isFiring(h)
    BY <1>4, <2>1, <2>2 DEF clear, isFiring, Flags, Call, timerVars, handleGuard
  <2>3. CASE ~isFiring(h)
    <3>1. h # firingId \/ h = 0
      BY <2>1, <2>3 DEF isFiring, handleGuard
    <3>2. UNCHANGED <<nextId, firingVars>> /\ ctx # "none"
      BY <1>4, <2>3 DEF clear, Call, firingVars
    <3>3. cleared' = IF h = 0 THEN cleared ELSE cleared \union {h}
      BY <1>4, <2>1 DEF clear, handleGuard
    <3>4. IF find(h) = {} THEN heap' = heap ELSE \E t \in find(h) : heap' = heap \ {t}
      BY <1>4, <2>3 DEF clear, removeAt
    <3>5. IF h = 0 THEN heap' = heap
          ELSE \/ heap' = heap /\ \A t \in heap : t.id # h
               \/ \E t \in heap : t.id = h /\ heap' = heap \ {t}
      BY <2>1, <3>4 DEF find, handleGuard
    <3> QED
      BY <3>1, <3>2, <3>3, <3>5 DEF Drops
  <2> QED
    BY <2>2, <2>3
<1>5. ASSUME NEW h \in Handles, NEW on \in BOOLEAN, refOp(h, on)
      PROVE  Moves \/ Flags \/ UNCHANGED <<heap, nextId, firingVars, cleared>>
  <2>1. h \in Nat
    BY DEF Handles
  <2>2. CASE isFiring(h)
    BY <1>5, <2>1, <2>2 DEF refOp, isFiring, Flags, Call, timerVars, handleGuard
  <2>3. CASE ~isFiring(h) /\ {t \in find(h) : t.reffed # on} = {}
    BY <1>5, <2>3 DEF refOp, firingVars
  <2>4. CASE ~isFiring(h) /\ {t \in find(h) : t.reffed # on} # {}
    <3>1. PICK t \in find(h) : replace(t, [t EXCEPT !.reffed = on])
      BY <1>5, <2>4 DEF refOp
    <3> DEFINE u == [t EXCEPT !.reffed = on]
    <3>2. t \in heap /\ t \in Timers
      BY DEF find
    <3>3. u \in Timers /\ u.id = t.id /\ u.delay = t.delay /\ u.deadline = t.deadline
      BY <3>2 DEF Timers
    <3>4. UNCHANGED <<nextId, firingVars, cleared>> /\ ctx # "none"
      BY <1>5, <2>4 DEF refOp, Call, firingVars
    <3>5. heap' = (heap \ {t}) \union {u}
      BY <3>1 DEF replace
    <3> HIDE DEF u
    <3> QED
      BY <3>2, <3>3, <3>4, <3>5 DEF Moves
  <2> QED
    BY <2>2, <2>3, <2>4
<1>6. ASSUME NEW h \in Handles, refresh(h)
      PROVE  Moves \/ Flags \/ UNCHANGED <<heap, nextId, firingVars, cleared>>
  <2>1. h \in Nat
    BY DEF Handles
  <2>2. CASE isFiring(h)
    BY <1>6, <2>1, <2>2 DEF refresh, isFiring, Flags, Call, timerVars, handleGuard
  <2>3. CASE ~isFiring(h) /\ find(h) = {}
    BY <1>6, <2>3 DEF refresh, firingVars
  <2>4. CASE ~isFiring(h) /\ find(h) # {}
    <3>1. PICK t \in find(h) :
            replace(t, [t EXCEPT !.deadline = clock + t.delay, !.seq = seq])
      BY <1>6, <2>4 DEF refresh
    <3> DEFINE u == [t EXCEPT !.deadline = clock + t.delay, !.seq = seq]
    <3>2. t \in heap /\ t \in Timers
      BY DEF find
    <3>3. clock + t.delay \in Nat
      BY <3>2 DEF Timers
    <3>4. u \in Timers
      BY <3>2, <3>3, EntryRewrite
    <3>5. u.id = t.id /\ u.delay = t.delay /\ u.deadline = clock + t.delay
      BY <3>2, RewrittenFields
    <3>6. UNCHANGED <<nextId, firingVars, cleared>> /\ ctx # "none"
      BY <1>6, <2>4 DEF refresh, Call, firingVars
    <3>7. heap' = (heap \ {t}) \union {u}
      BY <3>1 DEF replace
    <3> HIDE DEF u
    <3> QED
      BY <3>2, <3>4, <3>5, <3>6, <3>7 DEF Moves
  <2> QED
    BY <2>2, <2>3, <2>4
<1>7. ASSUME \/ setImmediate \/ nextTick \/ queueMicrotask
             \/ \E h \in 1 .. immNextId : clearImmediate(h)
             \/ \E h \in 1 .. immNextId, on \in BOOLEAN : immRefOp(h, on)
      PROVE  UNCHANGED <<heap, nextId, firingVars, cleared>>
  BY <1>7 DEF setImmediate, clearImmediate, immRefOp, nextTick,
     queueMicrotask, timerVars
<1> QED
  BY <1>2, <1>3, <1>4, <1>5, <1>6, <1>7 DEF UserCall

\* The steps of the loop that touch neither the heap nor the running timer.
LEMMA LoopFrame ==
  ASSUME Loop, ~TimerReturns, ~FireTimer
  PROVE  UNCHANGED <<heap, nextId, firingVars, cleared>> /\ clock' = clock
BY DEF Loop, JobReturns, MainReturns, ImmediateReturns, RunTick,
   RunMicrotask, DrainDone, TimersDone, RunImmediate, Answer, HostTick,
   timerVars, hostVars, history

LEMMA HandleStep ==
  ASSUME TypeOK, ControlInv, HandleInv, [Next]_vars
  PROVE  HandleInv'
<1> USE DEF TypeOK, TimerType, FiringType, ControlType, ControlInv, HandleInv
<1>1. ASSUME UserCall PROVE HandleInv'
  <2>0. UNCHANGED <<ctx, phase>> /\ ctx # "none"
    BY <1>1, CallFrame
  <2>1. CASE Arms
    BY <2>0, <2>1 DEF Arms, firingVars, Timers
  <2>2. CASE Drops
    BY <2>0, <2>2 DEF Drops, firingVars
  <2>3. CASE Moves
    BY <2>0, <2>3 DEF Moves, firingVars
  <2>4. CASE Flags
    BY <2>0, <2>4 DEF Flags
  <2>5. CASE UNCHANGED <<heap, nextId, firingVars, cleared>>
    BY <2>0, <2>5 DEF firingVars
  <2> QED
    BY <1>1, <2>1, <2>2, <2>3, <2>4, <2>5, CallKinds
<1>2. ASSUME TimerReturns PROVE HandleInv'
  <2>1. /\ ctx = "timer" /\ firingId' = 0 /\ ctx' = "none"
        /\ UNCHANGED <<nextId, phase>>
    BY <1>2 DEF TimerReturns
  <2>2. CASE rearmDelay > 0
    <3> DEFINE u == [T EXCEPT !.deadline = clock + rearmDelay, !.seq = seq,
                              !.reffed = firingReffed]
    <3>1. u.id = T.id
      BY RewrittenFields
    <3>2. heap' = heap \union {u}
      BY <1>2, <2>2 DEF TimerReturns, push
    <3>3. T.id = firingId /\ T.id # 0
      BY <2>1, <2>2 DEF rearmDelay
    <3> HIDE DEF u
    <3> QED
      BY <2>1, <3>1, <3>2, <3>3 DEF Timers
  <2>3. CASE ~(rearmDelay > 0)
    BY <1>2, <2>1, <2>3 DEF TimerReturns
  <2> QED
    BY <2>2, <2>3
<1>3. ASSUME FireTimer PROVE HandleInv'
  <2>1. PICK t \in top : removeAt(t) /\ T' = t /\ firingId' = IF t.id # 0 THEN t.id ELSE firingId
    BY <1>3 DEF FireTimer
  <2>2. t \in heap /\ t.id \in Nat
    BY DEF top, Timers
  <2>3. ctx' = "timer" /\ nextId' = nextId /\ firingId = 0
    BY <1>3 DEF FireTimer, AtPhase
  <2> QED
    BY <2>1, <2>2, <2>3 DEF removeAt, Timers
<1>4. ASSUME Loop, ~TimerReturns, ~FireTimer PROVE HandleInv'
  <2>1. /\ ctx' = "timer" <=> ctx = "timer"
        /\ phase' = "dead" <=> phase = "dead"
    BY <1>4 DEF Loop, JobReturns, MainReturns, ImmediateReturns, RunTick,
       RunMicrotask, DrainDone, TimersDone, RunImmediate, Answer, HostTick,
       AtPhase, InCheckpoint
  <2> QED
    BY <1>4, <2>1, LoopFrame DEF firingVars
<1>5. ASSUME Throws \/ ClockAdvances \/ UNCHANGED vars PROVE HandleInv'
  BY <1>5 DEF Throws, ClockAdvances, vars, timerVars, firingVars
<1> QED
  BY <1>1, <1>2, <1>3, <1>4, <1>5 DEF Next, Stopped

LEMMA ClearedStep ==
  ASSUME TypeOK, ControlInv, HandleInv, ClearedInv, [Next]_vars
  PROVE  ClearedInv'
<1> USE DEF TypeOK, TimerType, FiringType, ControlType, HistoryType,
            ControlInv, HandleInv, ClearedInv
<1>1. ASSUME UserCall PROVE ClearedInv'
  <2>0. UNCHANGED <<ctx, phase>> /\ ctx # "none"
    BY <1>1, CallFrame
  <2>1. CASE Arms
    BY <2>0, <2>1 DEF Arms, firingVars, Timers
  <2>2. CASE Drops
    BY <2>0, <2>2 DEF Drops, firingVars, Handles
  <2>3. CASE Moves
    BY <2>0, <2>3 DEF Moves, firingVars
  <2>4. CASE Flags
    <3>1. \A t \in heap : t.id # firingId
      BY <2>4 DEF Flags
    <3>2. CASE cleared' = cleared \union {firingId} /\ firingCleared' = TRUE
      BY <2>0, <2>4, <3>1, <3>2 DEF Flags
    <3>3. CASE cleared' = cleared /\ firingCleared' = firingCleared
      BY <2>0, <2>4, <3>3 DEF Flags
    <3> QED
      BY <2>4, <3>2, <3>3 DEF Flags
  <2>5. CASE UNCHANGED <<heap, nextId, firingVars, cleared>>
    BY <2>0, <2>5 DEF firingVars
  <2> QED
    BY <1>1, <2>1, <2>2, <2>3, <2>4, <2>5, CallKinds
<1>2. ASSUME TimerReturns PROVE ClearedInv'
  <2>1. ctx = "timer" /\ ctx' = "none" /\ UNCHANGED <<nextId, cleared>>
    BY <1>2 DEF TimerReturns, history
  <2>2. CASE rearmDelay > 0
    <3> DEFINE u == [T EXCEPT !.deadline = clock + rearmDelay, !.seq = seq,
                              !.reffed = firingReffed]
    <3>1. u.id = T.id
      BY RewrittenFields
    <3>2. heap' = heap \union {u}
      BY <1>2, <2>2 DEF TimerReturns, push
    <3>3. T.id = firingId /\ ~firingCleared
      BY <2>1, <2>2 DEF rearmDelay
    <3> HIDE DEF u
    <3> QED
      BY <2>1, <3>1, <3>2, <3>3
  <2>3. CASE ~(rearmDelay > 0)
    BY <1>2, <2>1, <2>3 DEF TimerReturns
  <2> QED
    BY <2>2, <2>3
<1>3. ASSUME FireTimer PROVE ClearedInv'
  <2>1. PICK t \in top : removeAt(t) /\ T' = t /\ firingId' = IF t.id # 0 THEN t.id ELSE firingId
    BY <1>3 DEF FireTimer
  <2>2. t \in heap
    BY DEF top
  <2>3. ctx' = "timer" /\ UNCHANGED <<nextId, cleared>> /\ firingId = 0
    BY <1>3 DEF FireTimer, AtPhase
  <2> QED
    BY <2>1, <2>2, <2>3 DEF removeAt
<1>4. ASSUME Loop, ~TimerReturns, ~FireTimer PROVE ClearedInv'
  <2>1. ctx' = "timer" <=> ctx = "timer"
    BY <1>4 DEF Loop, JobReturns, MainReturns, ImmediateReturns, RunTick,
       RunMicrotask, DrainDone, TimersDone, RunImmediate, Answer, HostTick,
       AtPhase, InCheckpoint
  <2> QED
    BY <1>4, <2>1, LoopFrame DEF firingVars
<1>5. ASSUME Throws \/ ClockAdvances \/ UNCHANGED vars PROVE ClearedInv'
  BY <1>5 DEF Throws, ClockAdvances, vars, timerVars, firingVars, history
<1> QED
  BY <1>1, <1>2, <1>3, <1>4, <1>5 DEF Next, Stopped

LEMMA TimeStep ==
  ASSUME TypeOK, SeqOK, ControlInv, HandleInv, TimeInv, [Next]_vars
  PROVE  TimeInv'
<1> USE DEF TypeOK, TimerType, FiringType, ControlType, HistoryType,
            ControlInv, TimeInv
<1>1. ASSUME UserCall PROVE TimeInv'
  <2>0. UNCHANGED <<ctx, phase, clock, tickNow, firedNow>>
    BY <1>1, CallFrame DEF hostVars
  <2>1. CASE Arms
    BY <2>0, <2>1 DEF Arms, firingVars, Timers
  <2>2. CASE Drops
    BY <2>0, <2>2 DEF Drops, firingVars
  <2>3. CASE Moves
    <3>1. PICK t \in heap, u \in Timers :
            /\ heap' = (heap \ {t}) \union {u}
            /\ u.id = t.id /\ u.delay = t.delay
            /\ u.deadline = t.deadline \/ u.deadline = clock + t.delay
      BY <2>3 DEF Moves
    <3>2. t.delay \in Nat /\ t.delay >= 1
      BY DEF Timers
    <3>3. phase = "check" \/ u.id \in firedNow => tickNow < u.deadline
      BY <3>1, <3>2
    <3>4. T' = T
      BY <2>3 DEF Moves, firingVars
    <3> QED
      BY <2>0, <3>1, <3>2, <3>3, <3>4
  <2>4. CASE Flags
    BY <2>0, <2>4 DEF Flags
  <2>5. CASE UNCHANGED <<heap, nextId, firingVars, cleared>>
    BY <2>0, <2>5 DEF firingVars
  <2> QED
    BY <1>1, <2>1, <2>2, <2>3, <2>4, <2>5, CallKinds
<1>2. ASSUME TimerReturns PROVE TimeInv'
  <2>1. /\ ctx = "timer" /\ ctx' = "none"
        /\ UNCHANGED <<clock, tickNow, firedNow, phase>>
    BY <1>2 DEF TimerReturns, hostVars, history
  <2>2. CASE rearmDelay > 0
    <3> DEFINE u == [T EXCEPT !.deadline = clock + rearmDelay, !.seq = seq,
                              !.reffed = firingReffed]
    <3>1. u.delay = T.delay /\ u.deadline = clock + rearmDelay
      BY RewrittenFields
    <3>2. heap' = heap \union {u}
      BY <1>2, <2>2 DEF TimerReturns, push
    <3>3. rearmDelay \in Nat
      BY DEF rearmDelay, Timers
    <3>4. tickNow < u.deadline /\ u.delay >= 1
      BY <2>1, <2>2, <3>1, <3>3
    <3> HIDE DEF u
    <3> QED
      BY <2>1, <3>2, <3>4
  <2>3. CASE ~(rearmDelay > 0)
    BY <1>2, <2>1, <2>3 DEF TimerReturns
  <2> QED
    BY <2>2, <2>3
<1>3. ASSUME FireTimer PROVE TimeInv'
  <2>1. PICK t \in top : /\ removeAt(t) /\ T' = t
                         /\ firedNow' = IF t.id # 0 THEN firedNow \union {t.id}
                                        ELSE firedNow
    BY <1>3 DEF FireTimer
  <2>2. t \in heap
    BY DEF top
  <2>3. UNCHANGED <<clock, tickNow, phase>> /\ phase = "timers"
    BY <1>3 DEF FireTimer, AtPhase, hostVars
  <2>4. \A u \in heap' : u \in heap /\ (u.id = 0 \/ u.id # t.id)
    BY <2>1, <2>2 DEF removeAt, HandleInv
  <2> QED
    BY <2>1, <2>2, <2>3, <2>4
<1>4. ASSUME TimersDone PROVE TimeInv'
  <2>1. \A t \in heap : tickNow < t.deadline
    <3>1. CASE heap = {}
      BY <3>1
    <3>2. CASE heap # {}
      <4>1. PICK t \in top : TRUE
        BY <3>2, RootExists
      <4>2. tickNow < t.deadline
        BY <1>4, <4>1, RootIsLeast DEF TimersDone, isDue, Timers
      <4> QED
        BY <4>1, <4>2, RootIsLeast DEF Timers
    <3> QED
      BY <3>1, <3>2
  <2>2. ctx = "none" /\ UNCHANGED <<clock, tickNow, firedNow, ctx, heap>>
    BY <1>4 DEF TimersDone, AtPhase, hostVars, history, timerVars
  <2> QED
    BY <2>1, <2>2
<1>5. ASSUME HostTick PROVE TimeInv'
  BY <1>5 DEF HostTick, timerVars, firingVars
<1>6. ASSUME Loop, ~TimerReturns, ~FireTimer, ~TimersDone, ~HostTick PROVE TimeInv'
  <2>1. /\ ctx' = "timer" => ctx = "timer"
        /\ phase' = "check" => phase = "check"
        /\ UNCHANGED <<tickNow, firedNow>>
    BY <1>6 DEF Loop, JobReturns, MainReturns, ImmediateReturns, RunTick,
       RunMicrotask, DrainDone, RunImmediate, Answer, AtPhase, InCheckpoint,
       hostVars, history
  <2> QED
    BY <1>6, <2>1, LoopFrame DEF firingVars
<1>7. ASSUME Throws \/ ClockAdvances \/ UNCHANGED vars PROVE TimeInv'
  BY <1>7 DEF Throws, ClockAdvances, vars, timerVars, firingVars, history, hostVars
<1> QED
  BY <1>1, <1>2, <1>3, <1>4, <1>5, <1>6, <1>7 DEF Next, Stopped

(***************************************************************************)
(* Immediates: the counts are the positions that are live, and live and    *)
(* ref'd; a cleared one is never ref'd; those queued in the check phase    *)
(* are behind its snapshot of the tail.                                    *)
(***************************************************************************)
LivePos(q) == {i \in DOMAIN q : q[i].live}
RefPos(q) == {i \in DOMAIN q : q[i].live /\ q[i].reffed}

ImmInv ==
  /\ immPending = Cardinality(LivePos(imms))
  /\ immReffed = Cardinality(RefPos(imms))
  /\ \A i \in DOMAIN imms : imms[i].reffed => imms[i].live

LateInv ==
  /\ phase \notin {"check", "dead"} => \A i \in DOMAIN imms : ~imms[i].late
  /\ phase = "check" /\ END # 0 =>
       \E e \in DOMAIN imms : imms[e].id = END /\ \A i \in 1 .. e : ~imms[i].late

LEMMA PosFinite ==
  ASSUME NEW q \in Seq(Immediates)
  PROVE  /\ LivePos(q) \in SUBSET (1 .. Len(q)) /\ RefPos(q) \in SUBSET (1 .. Len(q))
         /\ IsFiniteSet(LivePos(q)) /\ IsFiniteSet(RefPos(q))
         /\ Cardinality(LivePos(q)) \in Nat /\ Cardinality(RefPos(q)) \in Nat
         /\ \A i \in LivePos(q) : Cardinality(LivePos(q)) > 0
         /\ \A i \in RefPos(q) : Cardinality(RefPos(q)) > 0
<1>1. /\ LivePos(q) \in SUBSET (1 .. Len(q)) /\ RefPos(q) \in SUBSET (1 .. Len(q))
      /\ Len(q) \in Nat
  BY DEF LivePos, RefPos
<1>2. /\ IsFiniteSet(LivePos(q)) /\ Cardinality(LivePos(q)) \in Nat
      /\ LivePos(q) = {} <=> Cardinality(LivePos(q)) = 0
  BY <1>1, PositionCount
<1>3. /\ IsFiniteSet(RefPos(q)) /\ Cardinality(RefPos(q)) \in Nat
      /\ RefPos(q) = {} <=> Cardinality(RefPos(q)) = 0
  BY <1>1, PositionCount
<1> QED
  BY <1>1, <1>2, <1>3

\* setImmediate appends a live, ref'd entry.
LEMMA AppendPos ==
  ASSUME NEW q \in Seq(Immediates), NEW n \in Immediates, n.live, n.reffed
  PROVE  /\ Cardinality(LivePos(Append(q, n))) = Cardinality(LivePos(q)) + 1
         /\ Cardinality(RefPos(Append(q, n))) = Cardinality(RefPos(q)) + 1
<1> DEFINE k == Len(q) + 1
<1>1. /\ LivePos(Append(q, n)) = LivePos(q) \union {k}
      /\ RefPos(Append(q, n)) = RefPos(q) \union {k}
      /\ k \notin LivePos(q) /\ k \notin RefPos(q)
  BY DEF LivePos, RefPos
<1> QED
  BY <1>1, PosFinite, FS_AddElement

\* The head is popped: what is left keeps its order, one position earlier.
LEMMA TailPos ==
  ASSUME NEW q \in Seq(Immediates), q # <<>>
  PROVE  /\ Cardinality(LivePos(Tail(q))) =
              IF q[1].live THEN Cardinality(LivePos(q)) - 1
              ELSE Cardinality(LivePos(q))
         /\ Cardinality(RefPos(Tail(q))) =
              IF q[1].live /\ q[1].reffed THEN Cardinality(RefPos(q)) - 1
              ELSE Cardinality(RefPos(q))
<1>1. Len(q) \in Nat \ {0}
  OBVIOUS
<1>2. /\ LivePos(Tail(q)) = {i \in 1 .. (Len(q) - 1) : i + 1 \in LivePos(q)}
      /\ RefPos(Tail(q)) = {i \in 1 .. (Len(q) - 1) : i + 1 \in RefPos(q)}
  BY <1>1 DEF LivePos, RefPos
<1>3. /\ 1 \in LivePos(q) <=> q[1].live
      /\ 1 \in RefPos(q) <=> q[1].live /\ q[1].reffed
  BY <1>1 DEF LivePos, RefPos
<1>4. Cardinality(LivePos(Tail(q))) =
        IF 1 \in LivePos(q) THEN Cardinality(LivePos(q)) - 1
        ELSE Cardinality(LivePos(q))
  BY <1>1, <1>2, PosFinite, PopCount
<1>5. Cardinality(RefPos(Tail(q))) =
        IF 1 \in RefPos(q) THEN Cardinality(RefPos(q)) - 1
        ELSE Cardinality(RefPos(q))
  BY <1>1, <1>2, PosFinite, PopCount
<1> QED
  BY <1>3, <1>4, <1>5

\* The fields of an immediate that clear, ref, unref or the answer rewrites.
LEMMA ImmFields ==
  ASSUME NEW n \in Immediates, NEW b \in BOOLEAN
  PROVE  /\ [n EXCEPT !.live = FALSE, !.reffed = FALSE].live = FALSE
         /\ [n EXCEPT !.live = FALSE, !.reffed = FALSE].reffed = FALSE
         /\ [n EXCEPT !.live = FALSE, !.reffed = FALSE].id = n.id
         /\ [n EXCEPT !.live = FALSE, !.reffed = FALSE].late = n.late
         /\ [n EXCEPT !.reffed = b].live = n.live
         /\ [n EXCEPT !.reffed = b].reffed = b
         /\ [n EXCEPT !.reffed = b].id = n.id
         /\ [n EXCEPT !.reffed = b].late = n.late
         /\ [n EXCEPT !.late = FALSE].live = n.live
         /\ [n EXCEPT !.late = FALSE].reffed = n.reffed
         /\ [n EXCEPT !.late = FALSE].late = FALSE
         /\ n.live \in BOOLEAN /\ n.reffed \in BOOLEAN /\ n.late \in BOOLEAN
BY DEF Immediates

LEMMA ImmStep ==
  ASSUME TypeOK, TypeOK', ImmInv, [Next]_vars
  PROVE  ImmInv'
<1> USE DEF TypeOK, ImmType, ImmInv
<1>1. ASSUME setImmediate PROVE ImmInv'
  <2> DEFINE n == [id |-> immNextId + 1, live |-> TRUE, reffed |-> TRUE,
                   late |-> phase = "check"]
  <2>1. imms' = Append(imms, n)
    BY <1>1 DEF setImmediate
  <2>2. n \in Immediates /\ n.live /\ n.reffed
    BY DEF Immediates
  <2>3. immPending' = immPending + 1 /\ immReffed' = immReffed + 1
    BY <1>1 DEF setImmediate
  <2> HIDE DEF n
  <2>4. \A i \in DOMAIN imms' : imms'[i].reffed => imms'[i].live
    BY <2>1, <2>2
  <2> QED
    BY <2>1, <2>2, <2>3, <2>4, AppendPos
<1>2. ASSUME NEW h \in Nat, clearImmediate(h) PROVE ImmInv'
  <2>1. CASE immFind(h) = {}
    BY <1>2, <2>1 DEF clearImmediate
  <2>2. CASE immFind(h) # {}
    <3>1. PICK i \in immFind(h) :
             /\ imms' = [imms EXCEPT ![i] = [@ EXCEPT !.live = FALSE, !.reffed = FALSE]]
             /\ immPending' = unreff(immPending)
             /\ immReffed' = IF imms[i].reffed THEN unreff(immReffed) ELSE immReffed
      BY <1>2, <2>2 DEF clearImmediate
    <3>2. i \in DOMAIN imms /\ imms[i].live
      BY DEF immFind
    <3>3. /\ ~imms'[i].live /\ ~imms'[i].reffed /\ DOMAIN imms' = DOMAIN imms
          /\ \A j \in DOMAIN imms : j # i => imms'[j] = imms[j]
      <4>1. imms[i] \in Immediates
        BY <3>2, SeqElement
      <4>2. /\ imms'[i] = [imms[i] EXCEPT !.live = FALSE, !.reffed = FALSE]
            /\ DOMAIN imms' = DOMAIN imms
            /\ \A j \in DOMAIN imms : j # i => imms'[j] = imms[j]
        BY <3>1, <3>2
      <4> QED
        BY <4>1, <4>2, ImmFields
    <3>4. /\ LivePos(imms') = LivePos(imms) \ {i} /\ i \in LivePos(imms)
          /\ RefPos(imms') = RefPos(imms) \ {i}
          /\ i \in RefPos(imms) <=> imms[i].reffed
      BY <3>2, <3>3 DEF LivePos, RefPos
    <3>5. immPending' = Cardinality(LivePos(imms'))
      <4>1. Cardinality(LivePos(imms')) = Cardinality(LivePos(imms)) - 1
        BY <3>4, PosFinite, FS_RemoveElement
      <4>2. immPending > 0
        BY <3>4, PosFinite
      <4> QED
        BY <3>1, <4>1, <4>2 DEF unreff
    <3>6. immReffed' = Cardinality(RefPos(imms'))
      <4>1. CASE imms[i].reffed
        BY <3>1, <3>4, <4>1, PosFinite, FS_RemoveElement, ZenonT(30) DEF unreff
      <4>2. CASE ~imms[i].reffed
        <5>1. RefPos(imms') = RefPos(imms)
          BY <3>4, <4>2
        <5> QED
          BY <3>1, <4>2, <5>1
      <4> QED
        BY <4>1, <4>2
    <3> QED
      BY <3>3, <3>5, <3>6
  <2> QED
    BY <2>1, <2>2
<1>3. ASSUME NEW h \in Nat, NEW on \in BOOLEAN, immRefOp(h, on) PROVE ImmInv'
  <2> DEFINE changes == {i \in immFind(h) : imms[i].reffed # on}
  <2>1. CASE changes = {}
    BY <1>3, <2>1 DEF immRefOp
  <2>2. CASE changes # {}
    <3>1. PICK i \in changes :
             /\ imms' = [imms EXCEPT ![i] = [@ EXCEPT !.reffed = on]]
             /\ immReffed' = IF on THEN immReffed + 1 ELSE unreff(immReffed)
      BY <1>3, <2>2 DEF immRefOp
    <3>2. i \in DOMAIN imms /\ imms[i].live /\ imms[i].reffed # on
      BY DEF immFind
    <3>3. /\ imms'[i].live = imms[i].live /\ imms'[i].reffed = on
          /\ DOMAIN imms' = DOMAIN imms
          /\ \A j \in DOMAIN imms : j # i => imms'[j] = imms[j]
      <4>1. imms[i] \in Immediates
        BY <3>2, SeqElement
      <4>2. /\ imms'[i] = [imms[i] EXCEPT !.reffed = on]
            /\ DOMAIN imms' = DOMAIN imms
            /\ \A j \in DOMAIN imms : j # i => imms'[j] = imms[j]
        BY <3>1, <3>2
      <4> QED
        BY <4>1, <4>2, ImmFields
    <3>4. LivePos(imms') = LivePos(imms)
      BY <3>2, <3>3 DEF LivePos
    <3>5. immPending' = immPending
      BY <1>3 DEF immRefOp
    <3>6. CASE on
      <4>1. RefPos(imms') = RefPos(imms) \union {i} /\ i \notin RefPos(imms)
        BY <3>2, <3>3, <3>6 DEF RefPos
      <4>2. immReffed' = Cardinality(RefPos(imms'))
        BY <3>1, <3>6, <4>1, PosFinite, FS_AddElement
      <4> QED
        BY <3>2, <3>3, <3>4, <3>5, <4>2
    <3>7. CASE ~on
      <4>0. imms[i].reffed
        <5>1. imms[i] \in Immediates
          BY <3>2, SeqElement
        <5>2. imms[i].reffed \in BOOLEAN
          BY <5>1 DEF Immediates
        <5> QED
          BY <3>2, <3>7, <5>2
      <4>1. RefPos(imms') = RefPos(imms) \ {i} /\ i \in RefPos(imms)
        BY <3>2, <3>3, <3>7, <4>0 DEF RefPos
      <4>2. immReffed' = Cardinality(RefPos(imms'))
        BY <3>1, <3>7, <4>1, PosFinite, FS_RemoveElement, ZenonT(30) DEF unreff
      <4> QED
        BY <3>2, <3>3, <3>4, <3>5, <4>2
    <3> QED
      BY <3>6, <3>7
  <2> QED
    BY <2>1, <2>2
<1>4. ASSUME RunImmediate PROVE ImmInv'
  <2>1. imms # <<>> /\ imms' = Tail(imms) /\ Head(imms) = imms[1] /\ 1 \in DOMAIN imms
    BY <1>4 DEF RunImmediate, CheckDone
  <2>2. /\ immPending' = IF imms[1].live THEN unreff(immPending) ELSE immPending
        /\ immReffed' = IF imms[1].live /\ imms[1].reffed THEN unreff(immReffed)
                        ELSE immReffed
    BY <1>4, <2>1 DEF RunImmediate
  <2>3. /\ imms[1].live => immPending > 0
        /\ imms[1].live /\ imms[1].reffed => immReffed > 0
    <3>1. imms[1].live => 1 \in LivePos(imms)
      BY <2>1 DEF LivePos
    <3>2. imms[1].live /\ imms[1].reffed => 1 \in RefPos(imms)
      BY <2>1 DEF RefPos
    <3> QED
      BY <3>1, <3>2, PosFinite
  <2>4. immPending' = Cardinality(LivePos(imms'))
    BY <2>1, <2>2, <2>3, TailPos DEF unreff
  <2>5. immReffed' = Cardinality(RefPos(imms'))
    BY <2>1, <2>2, <2>3, TailPos DEF unreff
  <2>6. \A i \in DOMAIN imms' : imms'[i].reffed => imms'[i].live
    BY <2>1
  <2> QED
    BY <2>4, <2>5, <2>6
<1>5. ASSUME Answer PROVE ImmInv'
  <2>1. imms' = [i \in DOMAIN imms |-> [imms[i] EXCEPT !.late = FALSE]]
    BY <1>5 DEF Answer
  <2>2. DOMAIN imms' = DOMAIN imms
    BY <2>1
  <2>3. \A i \in DOMAIN imms : imms'[i].live = imms[i].live /\ imms'[i].reffed = imms[i].reffed
    BY <2>1, SeqElement, ImmFields
  <2>4. LivePos(imms') = LivePos(imms) /\ RefPos(imms') = RefPos(imms)
    BY <2>2, <2>3 DEF LivePos, RefPos
  <2>5. immPending' = immPending /\ immReffed' = immReffed
    BY <1>5 DEF Answer
  <2> QED
    BY <2>2, <2>3, <2>4, <2>5
<1>6. ASSUME UNCHANGED <<imms, immPending, immReffed>> PROVE ImmInv'
  BY <1>6
<1>7. ASSUME UserCall, ~setImmediate,
             ~ \E h \in 1 .. immNextId : clearImmediate(h),
             ~ \E h \in 1 .. immNextId, on \in BOOLEAN : immRefOp(h, on)
      PROVE  UNCHANGED <<imms, immPending, immReffed>>
  BY <1>7 DEF UserCall, setTimeout, handleArm, clear, refOp, refresh,
     nextTick, queueMicrotask
<1>8. ASSUME Loop, ~RunImmediate, ~Answer
      PROVE  UNCHANGED <<imms, immPending, immReffed>>
  BY <1>8 DEF Loop, JobReturns, MainReturns, ImmediateReturns, TimerReturns,
     RunTick, RunMicrotask, DrainDone, FireTimer, TimersDone, HostTick, immVars
<1>9. ASSUME Throws \/ ClockAdvances \/ UNCHANGED vars
      PROVE  UNCHANGED <<imms, immPending, immReffed>>
  BY <1>9 DEF Throws, ClockAdvances, vars, immVars
<1> QED
  BY <1>1, <1>2, <1>3, <1>4, <1>5, <1>6, <1>7, <1>8, <1>9 DEF Next, Stopped

LEMMA LateStep ==
  ASSUME TypeOK, TypeOK', ControlInv, LateInv, [Next]_vars
  PROVE  LateInv'
<1> USE DEF TypeOK, ImmType, ControlType, ControlInv, LateInv
\* The queue keeps its entries; one queued in the check phase joins the tail.
<1>0. ASSUME UNCHANGED <<phase, END>>,
             \A i \in DOMAIN imms : /\ i \in DOMAIN imms'
                                    /\ imms'[i].id = imms[i].id
                                    /\ imms'[i].late = imms[i].late,
             \A i \in DOMAIN imms' \ DOMAIN imms : phase # "check" => ~imms'[i].late
      PROVE  LateInv'
  <2>1. phase' \notin {"check", "dead"} => \A i \in DOMAIN imms' : ~imms'[i].late
    BY <1>0
  <2>2. ASSUME phase = "check", END # 0
        PROVE  \E e \in DOMAIN imms' : imms'[e].id = END /\ \A i \in 1 .. e : ~imms'[i].late
    <3>1. PICK e \in DOMAIN imms : imms[e].id = END /\ \A i \in 1 .. e : ~imms[i].late
      BY <1>0, <2>2
    <3>2. \A i \in 1 .. e : i \in DOMAIN imms
      BY QueuePositions
    <3> QED
      BY <1>0, <3>1, <3>2
  <2> QED
    BY <1>0, <2>1, <2>2
<1>1. ASSUME setImmediate PROVE LateInv'
  <2> DEFINE n == [id |-> immNextId + 1, live |-> TRUE, reffed |-> TRUE,
                   late |-> phase = "check"]
  <2>1. imms' = Append(imms, n) /\ UNCHANGED <<phase, END>>
    BY <1>1 DEF setImmediate, Call
  <2>2. n.late <=> phase = "check"
    OBVIOUS
  <2> HIDE DEF n
  <2>3. /\ \A i \in DOMAIN imms : i \in DOMAIN imms' /\ imms'[i] = imms[i]
        /\ \A i \in DOMAIN imms' \ DOMAIN imms : imms'[i] = n
    <3>1. n \in Immediates
      BY DEF n, Immediates
    <3> QED
      BY <2>1, <3>1, QueueJoin, SMTT(20)
  <2> QED
    BY <1>0, <2>1, <2>2, <2>3
<1>2. ASSUME NEW h \in Nat, clearImmediate(h) PROVE LateInv'
  <2>1. UNCHANGED <<phase, END>>
    BY <1>2 DEF clearImmediate, Call
  <2>2. CASE immFind(h) = {}
    BY <1>2, <2>1, <2>2 DEF clearImmediate
  <2>3. CASE immFind(h) # {}
    <3>1. PICK i \in immFind(h) :
             imms' = [imms EXCEPT ![i] = [@ EXCEPT !.live = FALSE, !.reffed = FALSE]]
      BY <1>2, <2>3 DEF clearImmediate
    <3>2. i \in DOMAIN imms /\ imms[i] \in Immediates
      BY SeqElement DEF immFind
    <3>3. /\ DOMAIN imms' = DOMAIN imms
          /\ \A j \in DOMAIN imms : j # i => imms'[j] = imms[j]
          /\ imms'[i] = [imms[i] EXCEPT !.live = FALSE, !.reffed = FALSE]
      BY <3>1, <3>2
    <3>4. imms'[i].id = imms[i].id /\ imms'[i].late = imms[i].late
      BY <3>2, <3>3, ImmFields
    <3> QED
      BY <1>0, <2>1, <3>3, <3>4
  <2> QED
    BY <2>2, <2>3
<1>3. ASSUME NEW h \in Nat, NEW on \in BOOLEAN, immRefOp(h, on) PROVE LateInv'
  <2> DEFINE changes == {i \in immFind(h) : imms[i].reffed # on}
  <2>1. UNCHANGED <<phase, END>>
    BY <1>3 DEF immRefOp, Call
  <2>2. CASE changes = {}
    BY <1>3, <2>1, <2>2 DEF immRefOp
  <2>3. CASE changes # {}
    <3>1. PICK i \in changes : imms' = [imms EXCEPT ![i] = [@ EXCEPT !.reffed = on]]
      BY <1>3, <2>3 DEF immRefOp
    <3>2. i \in DOMAIN imms /\ imms[i] \in Immediates
      BY SeqElement DEF immFind
    <3>3. /\ DOMAIN imms' = DOMAIN imms
          /\ \A j \in DOMAIN imms : j # i => imms'[j] = imms[j]
          /\ imms'[i] = [imms[i] EXCEPT !.reffed = on]
      BY <3>1, <3>2
    <3>4. imms'[i].id = imms[i].id /\ imms'[i].late = imms[i].late
      BY <3>2, <3>3, ImmFields
    <3> QED
      BY <1>0, <2>1, <3>3, <3>4
  <2> QED
    BY <2>2, <2>3
<1>4. ASSUME RunImmediate PROVE LateInv'
  <2>1. /\ phase' = phase /\ phase = "check" /\ END # 0 /\ imms # <<>>
        /\ imms' = Tail(imms) /\ END' = IF imms[1].id = END THEN 0 ELSE END
    BY <1>4 DEF RunImmediate, AtPhase, CheckDone
  <2>2. PICK e \in DOMAIN imms : imms[e].id = END /\ \A i \in 1 .. e : ~imms[i].late
    BY <2>1
  <2>3. ASSUME END' # 0
        PROVE  \E d \in DOMAIN imms' : imms'[d].id = END' /\ \A i \in 1 .. d : ~imms'[i].late
    <3>1. e # 1 /\ END' = END
      BY <2>1, <2>2, <2>3
    <3>2. e \in 1 .. Len(imms) /\ Len(imms) \in Nat
      BY QueuePositions
    <3>3. /\ DOMAIN imms' = 1 .. (Len(imms) - 1)
          /\ \A i \in 1 .. (Len(imms) - 1) : imms'[i] = imms[i + 1]
      BY <2>1, QueueLeave
    <3>4. /\ e - 1 \in DOMAIN imms' /\ imms'[e - 1] = imms[e]
          /\ \A i \in 1 .. (e - 1) : imms'[i] = imms[i + 1] /\ i + 1 \in 1 .. e
      <4> HIDE DEF TypeOK, ImmType, ControlType, ControlInv, LateInv
      <4>1. e - 1 \in 1 .. (Len(imms) - 1) /\ (e - 1) + 1 = e
        BY <3>1, <3>2
      <4>2. \A i \in 1 .. (e - 1) : i \in 1 .. (Len(imms) - 1) /\ i + 1 \in 1 .. e
        BY <3>1, <3>2
      <4> QED
        BY <3>3, <4>1, <4>2
    <3>5. \A i \in 1 .. (e - 1) : ~imms'[i].late
      BY <2>2, <3>4
    <3> QED
      BY <2>2, <3>1, <3>4, <3>5
  <2> QED
    BY <2>1, <2>3
<1>5. ASSUME TimersDone PROVE LateInv'
  <2>1. /\ phase = "timers" /\ phase' = "check" /\ imms' = imms
        /\ END' # 0 => imms # <<>> /\ END' = imms[Len(imms)].id
    BY <1>5 DEF TimersDone, AtPhase
  <2>2. ASSUME END' # 0
        PROVE  \E e \in DOMAIN imms' : imms'[e].id = END' /\ \A i \in 1 .. e : ~imms'[i].late
    <3>1. Len(imms) \in DOMAIN imms /\ \A i \in 1 .. Len(imms) : ~imms[i].late
      BY <2>1, <2>2, SMTT(20)
    <3> QED
      BY <2>1, <2>2, <3>1
  <2> QED
    BY <2>1, <2>2
<1>6. ASSUME Answer PROVE LateInv'
  <2>1. imms' = [i \in DOMAIN imms |-> [imms[i] EXCEPT !.late = FALSE]]
    BY <1>6 DEF Answer
  <2>2. \A i \in DOMAIN imms' : imms'[i].late = FALSE
    BY <2>1, SeqElement, ImmFields
  <2>3. phase' # "check"
    BY <1>6 DEF Answer
  <2> QED
    BY <2>2, <2>3
<1>7. ASSUME UNCHANGED <<imms, END>>,
             phase' = phase \/ (phase # "check" /\ phase # "dead" /\ phase' # "check") \/ phase' = "dead"
      PROVE  LateInv'
  BY <1>7
<1>8. ASSUME UserCall, ~setImmediate,
             ~ \E h \in 1 .. immNextId : clearImmediate(h),
             ~ \E h \in 1 .. immNextId, on \in BOOLEAN : immRefOp(h, on)
      PROVE  UNCHANGED <<imms, END, phase>>
  BY <1>8 DEF UserCall, setTimeout, handleArm, clear, refOp, refresh,
     nextTick, queueMicrotask, Call
<1>9. ASSUME Loop, ~RunImmediate, ~TimersDone, ~Answer
      PROVE  /\ UNCHANGED <<imms, END>>
             /\ phase' = phase \/ (phase # "check" /\ phase # "dead" /\ phase' # "check")
  BY <1>9 DEF Loop, JobReturns, MainReturns, ImmediateReturns, TimerReturns,
     RunTick, RunMicrotask, DrainDone, FireTimer, HostTick, immVars
<1>10. ASSUME Throws \/ ClockAdvances \/ UNCHANGED vars
       PROVE  UNCHANGED <<imms, END>> /\ (phase' = phase \/ phase' = "dead")
  BY <1>10 DEF Throws, ClockAdvances, vars, immVars
<1> QED
  BY <1>1, <1>2, <1>3, <1>4, <1>5, <1>6, <1>7, <1>8, <1>9, <1>10, SMTT(20)
     DEF Next, Stopped

(***************************************************************************)
(* The answer of _tick.  It is computed when the check phase is done, from *)
(* the exact counts and the root of the heap, and nothing moves before the *)
(* host calls again.                                                       *)
(***************************************************************************)
AnswerInv == AnswersSound /\ (phase = "start" => due = 0)

LEMMA AnswerStep ==
  ASSUME TypeOK, SeqOK, ReffedExact, ControlInv, JobsInv, TimeInv, ImmInv,
         AnswerInv, [Next]_vars
  PROVE  AnswerInv'
<1> USE DEF TypeOK, TimerType, ControlType, ImmType, ControlInv, AnswerInv,
            AnswersSound, ExitIsQuiescent, HostWakesInTime
<1>1. ASSUME UserCall PROVE AnswerInv'
  BY <1>1, CallFrame DEF hostVars
<1>2. ASSUME Throws PROVE AnswerInv'
  BY <1>2 DEF Throws, hostVars
<1>3. ASSUME DrainDone PROVE AnswerInv'
  <2>1. /\ UNCHANGED <<clock, due, heap, imms, immPending, ticks, micros>>
        /\ phase' = phase \/ (phase = "start" /\ phase' = "host")
    BY <1>3 DEF DrainDone, hostVars, timerVars, immVars
  <2>2. CASE phase' = phase
    BY <2>1, <2>2
  <2>3. CASE phase = "start" /\ phase' = "host"
    BY <2>1, <2>3 DEF Timers
  <2> QED
    BY <2>1, <2>2, <2>3
<1>4. ASSUME Answer PROVE AnswerInv'
  <2>1. /\ phase = "check" /\ due' \in answers
        /\ phase' = IF due' < 0 THEN "exit" ELSE "host"
        /\ UNCHANGED <<clock, tickNow, heap, immPending, ticks, micros>>
        /\ ticks = 0 /\ micros = 0
    BY <1>4 DEF Answer, AtPhase, JobsInv, timerVars
  <2>2. \A i \in DOMAIN imms : imms'[i].reffed = imms[i].reffed /\ DOMAIN imms' = DOMAIN imms
    <3>1. imms' = [i \in DOMAIN imms |-> [imms[i] EXCEPT !.late = FALSE]]
      BY <1>4 DEF Answer
    <3> QED
      BY <3>1, SeqElement, ImmFields
  <2>3. imms' = <<>> \/ imms # <<>>
    BY <1>4 DEF Answer
  <2>4. ASSUME reffed = 0 PROVE \A t \in heap : ~t.reffed
    <3> DEFINE n == Cardinality({t \in heap : t.reffed})
    <3>1. \A t \in heap : t.reffed => n > 0
      BY CountNat
    <3>2. reffed = n
      BY DEF ReffedExact
    <3> HIDE DEF n
    <3> QED
      BY <2>4, <3>1, <3>2
  <2>5. ASSUME immReffed = 0 PROVE \A i \in DOMAIN imms : ~imms[i].reffed
    <3>1. \A i \in DOMAIN imms : imms[i].reffed => i \in RefPos(imms)
      BY DEF ImmInv, RefPos
    <3>2. \A i \in RefPos(imms) : Cardinality(RefPos(imms)) > 0
      BY PosFinite
    <3> QED
      BY <2>5, <3>1, <3>2 DEF ImmInv
  <2>6. ASSUME immPending = 0 PROVE \A i \in DOMAIN imms : ~imms[i].reffed
    <3>1. \A i \in DOMAIN imms : imms[i].reffed => i \in LivePos(imms)
      BY DEF ImmInv, LivePos
    <3>2. \A i \in LivePos(imms) : Cardinality(LivePos(imms)) > 0
      BY PosFinite
    <3> QED
      BY <2>6, <3>1, <3>2 DEF ImmInv
  <2>7. CASE due' < 0
    <3>1. /\ \A t \in heap : ~t.reffed
          /\ \A i \in DOMAIN imms : ~imms[i].reffed
      <4>1. CASE reffed = 0 /\ immReffed = 0
        BY <2>4, <2>5, <4>1
      <4>2. CASE ~(reffed = 0 /\ immReffed = 0) /\ immPending > 0
        BY <2>1, <2>7, <4>2 DEF answers
      <4>3. CASE ~(reffed = 0 /\ immReffed = 0) /\ ~(immPending > 0) /\ heap # {}
        BY <2>1, <2>7, <4>3 DEF answers, top, Timers
      <4>4. CASE ~(immPending > 0) /\ heap = {}
        BY <2>6, <4>4
      <4> QED
        BY <4>1, <4>2, <4>3, <4>4
    <3>2. \A i \in DOMAIN imms' : ~imms'[i].reffed
      <4>1. DOMAIN imms' = DOMAIN imms
        BY <1>4 DEF Answer
      <4> QED
        BY <2>2, <3>1, <4>1
    <3> QED
      BY <2>1, <2>7, <3>1, <3>2
  <2>8. CASE ~(due' < 0)
    <3>1. ~(reffed = 0 /\ immReffed = 0)
      BY <2>1, <2>8 DEF answers
    <3>2. CASE immPending > 0
      <4>1. due' = tickNow
        BY <2>1, <3>1, <3>2 DEF answers
      <4>2. \A t \in heap : t.deadline \in Nat /\ tickNow < t.deadline
        BY <2>1 DEF TimeInv, Timers
      <4> QED
        BY <2>1, <2>8, <4>1, <4>2 DEF TimeInv
    <3>3. CASE ~(immPending > 0)
      <4>1. PICK t \in top : due' = t.deadline
        BY <2>1, <2>8, <3>1, <3>3 DEF answers
      <4>2. \A u \in heap : due' <= u.deadline
        BY <4>1, RootIsLeast
      <4> QED
        BY <2>1, <2>8, <3>3, <4>2
    <3> QED
      BY <3>2, <3>3
  <2> QED
    BY <2>7, <2>8
<1>5. ASSUME HostTick PROVE AnswerInv'
  BY <1>5 DEF HostTick
<1>6. ASSUME ClockAdvances PROVE AnswerInv'
  BY <1>6 DEF ClockAdvances, timerVars, immVars
<1>7. ASSUME Loop, ~DrainDone, ~Answer, ~HostTick
      PROVE  phase' \notin {"exit", "host"} /\ (phase' = "start" => phase = "start") /\ due' = due
  BY <1>7 DEF Loop, JobReturns, MainReturns, ImmediateReturns, TimerReturns,
     RunTick, RunMicrotask, FireTimer, TimersDone, RunImmediate, InCheckpoint,
     AtPhase, hostVars
<1>8. ASSUME UNCHANGED vars PROVE AnswerInv'
  BY <1>8 DEF vars, hostVars, timerVars, immVars
<1> QED
  BY <1>1, <1>2, <1>3, <1>4, <1>5, <1>6, <1>7, <1>8 DEF Next, Stopped

(***************************************************************************)
(* The inductive invariant of the loop, and the theorems it gives.         *)
(***************************************************************************)
LoopInv ==
  /\ TypedHeap
  /\ ControlInv /\ JobsInv
  /\ HandleInv /\ ClearedInv /\ TimeInv
  /\ ImmInv /\ LateInv /\ AnswerInv

\* The invariant holds in every reachable state of the loop: control, jobs,
\* handles, deadlines, immediates and answers, each resting on the others.
THEOREM LoopInvariant == Spec => []LoopInv
<1>1. Init => LoopInv
  <2> SUFFICES ASSUME Init PROVE LoopInv
    OBVIOUS
  <2>1. TypedHeap
    <3>1. {t \in heap : t.reffed} = {}
      BY DEF Init
    <3>2. ReffedExact
      BY <3>1, FS_EmptySet DEF Init, ReffedExact
    <3> QED
      BY <3>2, InitType DEF Init, SeqOK, TypedHeap
  <2>2. ControlInv /\ JobsInv /\ HandleInv /\ ClearedInv /\ TimeInv
    BY DEF Init, ControlInv, JobsInv, HandleInv, ClearedInv, TimeInv
  <2>3. ImmInv
    <3>1. LivePos(imms) = {} /\ RefPos(imms) = {} /\ DOMAIN imms = {}
      BY DEF Init, LivePos, RefPos
    <3> QED
      BY <3>1, FS_EmptySet DEF Init, ImmInv
  <2>4. LateInv /\ AnswerInv
    BY DEF Init, LateInv, AnswerInv, AnswersSound, ExitIsQuiescent,
       HostWakesInTime
  <2> QED
    BY <2>1, <2>2, <2>3, <2>4 DEF LoopInv
<1>2. LoopInv /\ [Next]_vars => LoopInv'
  <2> SUFFICES ASSUME LoopInv, [Next]_vars PROVE LoopInv'
    OBVIOUS
  <2>1. TypeOK /\ SeqOK /\ ReffedExact /\ HeapInv
    BY DEF LoopInv, TypedHeap, HeapInv, TypeOK
  <2>2. HeapInv'
    BY <2>1, NextIsHeapStep, HeapStepKeeps
  <2>3. TypeOK'
    BY <2>1, <2>2, FiringTypeStep, ImmTypeStep, ControlTypeStep,
       HistoryTypeStep DEF HeapInv, TypeOK
  <2>4. TypedHeap'
    BY <2>2, <2>3 DEF HeapInv, TypedHeap
  <2>5. ControlInv' /\ JobsInv'
    BY <2>1, ControlStep DEF LoopInv
  <2>6. HandleInv' /\ ClearedInv' /\ TimeInv'
    BY <2>1, HandleStep, ClearedStep, TimeStep DEF LoopInv
  <2>7. ImmInv' /\ LateInv' /\ AnswerInv'
    BY <2>1, <2>3, ImmStep, LateStep, AnswerStep DEF LoopInv
  <2> QED
    BY <2>4, <2>5, <2>6, <2>7 DEF LoopInv
<1> QED
  BY <1>1, <1>2, PTL DEF Spec

\* A handle names at most one armed timer, the running timer is out of the heap,
\* and the immediate counts are what the queue holds.
THEOREM QueuesAreExact == Spec => []QueuesExact
<1>1. LoopInv => QueuesExact
  BY DEF LoopInv, HandleInv, ImmInv, QueuesExact, find, LivePos, RefPos
<1> QED
  BY <1>1, LoopInvariant, PTL

\* _tick answers -1 only when nothing ref'd is left, and otherwise a time at
\* which no armed timer has been kept waiting.
THEOREM AnswersAreSound == Spec => []AnswersSound
<1>1. LoopInv => AnswersSound
  BY DEF LoopInv, AnswerInv
<1> QED
  BY <1>1, LoopInvariant, PTL

\* A timer or immediate callback starts only once both job queues are empty.
THEOREM JobsRunFirst == Spec => MacrotasksWaitForJobs
<1>1. LoopInv /\ [Next]_vars =>
        [CallbackStarts("timer") \/ CallbackStarts("imm")
           => ticks = 0 /\ micros = 0]_vars
  <2> SUFFICES ASSUME LoopInv, Next, ctx = "none", ctx' \in {"timer", "imm"}
               PROVE  ticks = 0 /\ micros = 0
    BY DEF CallbackStarts
  <2>1. FireTimer \/ RunImmediate
    BY CallFrame DEF Next, Loop, Throws, ClockAdvances, Stopped, vars,
       JobReturns, MainReturns, ImmediateReturns, TimerReturns, RunTick,
       RunMicrotask, DrainDone, TimersDone, Answer, HostTick
  <2> QED
    BY <2>1 DEF FireTimer, RunImmediate, AtPhase, LoopInv, JobsInv
<1> QED
  BY <1>1, LoopInvariant, PTL DEF Spec, MacrotasksWaitForJobs

\* A callback of a timer starts only in FireTimer, with an entry of the heap
\* that is due.
LEMMA TimerStarts ==
  ASSUME TypeOK, Next, CallbackStarts("timer")
  PROVE  T' \in heap /\ isDue(T')
<1>1. FireTimer
  BY CallFrame DEF CallbackStarts, Next, Loop, Throws, ClockAdvances, Stopped,
     vars, JobReturns, MainReturns, ImmediateReturns, TimerReturns, RunTick,
     RunMicrotask, DrainDone, TimersDone, RunImmediate, Answer, HostTick
<1> QED
  BY <1>1 DEF FireTimer, top

LEMMA ImmediateStarts ==
  ASSUME Next, CallbackStarts("imm")
  PROVE  RunImmediate
BY CallFrame DEF CallbackStarts, Next, Loop, Throws, ClockAdvances, Stopped,
   vars, JobReturns, MainReturns, ImmediateReturns, TimerReturns, RunTick,
   RunMicrotask, DrainDone, TimersDone, FireTimer, Answer, HostTick

\* A cleared timer never fires, wherever it was cleared.
THEOREM ClearedStaysCleared == Spec => ClearedNeverFires
<1>1. LoopInv /\ [Next]_vars =>
        [CallbackStarts("timer") => T'.id \notin cleared]_vars
  <2> SUFFICES ASSUME LoopInv, Next, CallbackStarts("timer")
               PROVE  T'.id \notin cleared
    OBVIOUS
  <2>1. T' \in heap
    BY TimerStarts DEF LoopInv, TypedHeap
  <2> QED
    BY <2>1 DEF LoopInv, ClearedInv
<1> QED
  BY <1>1, LoopInvariant, PTL DEF Spec, ClearedNeverFires

\* A turn serves a timer handle once, and only the immediates queued before its
\* check phase.
THEOREM TurnsAreBounded == Spec => OncePerTurn
<1>1. LoopInv /\ [Next]_vars =>
        [ /\ CallbackStarts("timer") => T'.id \notin firedNow
          /\ CallbackStarts("imm") => ~Head(imms).late ]_vars
  <2> SUFFICES ASSUME LoopInv, Next
               PROVE  /\ CallbackStarts("timer") => T'.id \notin firedNow
                      /\ CallbackStarts("imm") => ~Head(imms).late
    OBVIOUS
  <2>1. ASSUME CallbackStarts("timer") PROVE T'.id \notin firedNow
    <3>1. T' \in heap /\ T'.deadline <= tickNow
      BY <2>1, TimerStarts DEF LoopInv, TypedHeap, isDue
    <3>2. T'.deadline \in Nat /\ tickNow \in Nat
      BY <3>1 DEF LoopInv, TypedHeap, TypeOK, TimerType, ControlType, Timers
    <3> QED
      BY <3>1, <3>2 DEF LoopInv, TimeInv
  <2>2. ASSUME CallbackStarts("imm") PROVE ~Head(imms).late
    <3>1. phase = "check" /\ END # 0 /\ imms # <<>>
      BY <2>2, ImmediateStarts DEF RunImmediate, AtPhase, CheckDone
    <3>2. PICK e \in DOMAIN imms : \A i \in 1 .. e : ~imms[i].late
      BY <3>1 DEF LoopInv, LateInv
    <3>3. imms \in Seq(Immediates)
      BY DEF LoopInv, TypedHeap, TypeOK, ImmType
    <3>4. Head(imms) = imms[1] /\ 1 \in 1 .. e
      BY <3>1, <3>3, QueuePositions
    <3> QED
      BY <3>2, <3>4
  <2> QED
    BY <2>1, <2>2
<1> QED
  BY <1>1, LoopInvariant, PTL DEF Spec, OncePerTurn
=============================================================================

---------------------------- MODULE ScrLoopProofs ----------------------------
(***************************************************************************)
(* TLAPS proofs about ScrLoop, for every value of its constants.           *)
(***************************************************************************)
EXTENDS ScrLoop, FiniteSetTheorems, FunctionTheorems, TLAPS

(***************************************************************************)
(* Facts about naturals, positions and sequences                           *)
(***************************************************************************)
\* A nonempty set of naturals has a smallest element.
LEMMA LeastNatural ==
  ASSUME NEW S \in SUBSET Nat, S # {}
  PROVE  \E x \in S : \A y \in S : x <= y
<1> DEFINE R == OpToRel(<, Nat)
<1>1. IsWellFoundedOn(R, Nat)
  BY NatLessThanWellFounded
<1>2. \A x, y \in Nat : y < x => <<y, x>> \in R
  BY DEF OpToRel
<1> HIDE DEF R
<1>3. \E x \in S : \A y \in S : ~(<<y, x>> \in R)
  BY <1>1, WFMin
<1>4. \A x, y \in Nat : ~(<<y, x>> \in R) => x <= y
  BY <1>2
<1>5. PICK x \in S : \A y \in S : ~(<<y, x>> \in R)
  BY <1>3
<1>6. \A y \in S : x <= y
  BY <1>4, <1>5
<1> QED
  BY <1>6

\* A set of positions of a sequence is finite, and its size a natural number,
\* positive when the set has a member.
LEMMA PositionCount ==
  ASSUME NEW n \in Nat, NEW S \in SUBSET (1 .. n)
  PROVE  /\ IsFiniteSet(S) /\ Cardinality(S) \in Nat
         /\ S = {} <=> Cardinality(S) = 0
<1>1. IsFiniteSet(1 .. n)
  BY FS_Interval
<1>2. IsFiniteSet(S)
  BY <1>1, FS_Subset
<1> QED
  BY <1>2, FS_CardinalityType, FS_EmptySet

\* The positions S of a queue, and the same entries once its head is popped.
LEMMA PopCount ==
  ASSUME NEW n \in Nat \ {0}, NEW S \in SUBSET (1 .. n),
         NEW U, U = {i \in 1 .. (n - 1) : i + 1 \in S}
  PROVE  Cardinality(U) = IF 1 \in S THEN Cardinality(S) - 1 ELSE Cardinality(S)
<1> DEFINE R == S \ {1}
           f == [i \in U |-> i + 1]
<1>1. IsFiniteSet(S) /\ IsFiniteSet(U)
  <2>1. n - 1 \in Nat /\ U \in SUBSET (1 .. (n - 1))
    OBVIOUS
  <2>2. IsFiniteSet(U)
    BY <2>1, PositionCount
  <2> QED
    BY <2>2, PositionCount
<1>2. f \in Bijection(U, R)
  <2>1. \A i \in U : f[i] \in R
    OBVIOUS
  <2>2. \A i, j \in U : f[i] = f[j] => i = j
    OBVIOUS
  <2>3. \A r \in R : r - 1 \in U /\ f[r - 1] = r
    OBVIOUS
  <2> QED
    BY <2>1, <2>2, <2>3, Fun_IsBij
<1>3. Cardinality(R) = Cardinality(U)
  BY <1>1, <1>2, FS_Bijection DEF ExistsBijection
<1>4. CASE 1 \in S
  BY <1>1, <1>3, <1>4, FS_RemoveElement
<1>5. CASE 1 \notin S
  <2>1. R = S
    BY <1>5
  <2> QED
    BY <1>3, <1>5, <2>1
<1> QED
  BY <1>4, <1>5

\* The positions of a queue, and where its entries are once one has joined the
\* tail or left the head.
LEMMA QueuePositions ==
  ASSUME NEW S, NEW q \in Seq(S)
  PROVE  /\ DOMAIN q = 1 .. Len(q) /\ Len(q) \in Nat
         /\ \A e \in DOMAIN q : \A k \in 1 .. e : k \in DOMAIN q
         /\ \A k \in DOMAIN q : q[k] \in S
         /\ q # <<>> => 1 \in DOMAIN q /\ Len(q) \in DOMAIN q /\ Head(q) = q[1]
OBVIOUS

LEMMA QueueJoin ==
  ASSUME NEW S, NEW q \in Seq(S), NEW n \in S
  PROVE  /\ Append(q, n) \in Seq(S) /\ Len(Append(q, n)) = Len(q) + 1
         /\ DOMAIN Append(q, n) = DOMAIN q \union {Len(q) + 1}
         /\ \A k \in DOMAIN q : k \in DOMAIN Append(q, n) /\ Append(q, n)[k] = q[k]
         /\ Append(q, n)[Len(q) + 1] = n
         /\ Len(q) + 1 \notin DOMAIN q
OBVIOUS

LEMMA QueueLeave ==
  ASSUME NEW S, NEW q \in Seq(S), q # <<>>
  PROVE  /\ Tail(q) \in Seq(S) /\ Len(Tail(q)) = Len(q) - 1
         /\ DOMAIN Tail(q) = 1 .. (Len(q) - 1)
         /\ \A k \in 1 .. (Len(q) - 1) : Tail(q)[k] = q[k + 1]
         /\ Head(q) = q[1]
OBVIOUS

(***************************************************************************)
(* The inductive invariant                                                 *)
(***************************************************************************)
TimerRec == [id : Nat, left : Nat, due : BOOLEAN, repeat : BOOLEAN,
             reffed : BOOLEAN, delay : Nat]
FiringRec == [id : Nat, repeat : BOOLEAN, delay : Nat, cleared : BOOLEAN,
              reffed : BOOLEAN, refresh : BOOLEAN]
ImmRec == [live : BOOLEAN, reffed : BOOLEAN]

UniqueIds(ts) ==
    \A x, y \in DOMAIN ts : ts[x].id = ts[y].id => x = y \/ ts[x].id = 0

\* Handles are unique, and armed or firing but not both.
IdsInv ==
    /\ UniqueIds(timers)
    /\ \A x \in DOMAIN timers : timers[x].id = firing.id => firing.id = 0

reffedTimers(ts) == {x \in DOMAIN ts : ts[x].reffed}
liveImms(is) == {x \in DOMAIN is : is[x].live}
reffedImms(is) == {x \in DOMAIN is : is[x].reffed}

TimersInv ==
    /\ timers \in Seq(TimerRec) /\ firing \in FiringRec
    /\ IdsInv
    /\ scr_reffed_timers = Cardinality(reffedTimers(timers))

\* A cleared immediate keeps its slot and nothing else; the check phase has no
\* more to serve than the queue holds.
ImmInv ==
    /\ imms \in Seq(ImmRec) /\ end \in Nat
    /\ scr_pending_immediates = Cardinality(liveImms(imms))
    /\ scr_reffed_immediates = Cardinality(reffedImms(imms))
    /\ \A x \in DOMAIN imms : imms[x].reffed => imms[x].live
    /\ exit = "no" => end <= Len(imms)

\* Where the loop waits for the code that runs.
ControlInv ==
    /\ run = "main" => pc = "top"
    /\ run = "tick" => pc = "ticks"
    /\ run \in {"micro", "fiber"} => pc \in {"micro", "immMicro"}
    /\ run = "listener" => pc = "report" \/ exit = "drained"
    /\ run = "source" => pc \in {"source", "batch"}
    /\ run = "timer" => pc = "timers"
    /\ run = "imm" => pc = "imms"

\* The stations the loop reaches only with the ready queue drained.
JobsInv ==
    run = "loop" /\ exit = "no" /\ pc \in {"source", "alive", "sleep", "timers", "imms"}
        => ready = <<>>

LoopInv == TimersInv /\ ImmInv /\ ControlInv /\ JobsInv

(***************************************************************************)
(* Sequences with a gap opened or closed at one position                   *)
(***************************************************************************)
\* S are positions of a sequence of n entries and U those of the same entries
\* once an entry is inserted at p.
Shifted(n, p, S, U) ==
    /\ n \in Nat /\ p \in 1 .. (n + 1)
    /\ S \in SUBSET (1 .. n) /\ U \in SUBSET (1 .. (n + 1))
    /\ \A x \in 1 .. n : x < p => (x \in U <=> x \in S)
    /\ \A x \in 1 .. n : x >= p => (x + 1 \in U <=> x \in S)

LEMMA GapCount ==
  ASSUME NEW n, NEW p, NEW S, NEW U, Shifted(n, p, S, U)
  PROVE  /\ Cardinality(S) \in Nat /\ Cardinality(U) \in Nat
         /\ Cardinality(U) = Cardinality(S) + (IF p \in U THEN 1 ELSE 0)
<1> USE DEF Shifted
<1> DEFINE R == U \ {p}
           f == [x \in S |-> IF x < p THEN x ELSE x + 1]
<1>1. /\ IsFiniteSet(S) /\ IsFiniteSet(U)
      /\ Cardinality(S) \in Nat /\ Cardinality(U) \in Nat
  <2>1. n + 1 \in Nat
    OBVIOUS
  <2> QED
    BY <2>1, PositionCount
<1>2. f \in Bijection(S, R)
  <2>1. \A x \in S : f[x] \in R
    OBVIOUS
  <2>2. \A x, y \in S : f[x] = f[y] => x = y
    OBVIOUS
  <2>3. \A r \in R : \E x \in S : f[x] = r
    <3> TAKE r \in R
    <3>1. CASE r < p
      <4>1. r \in S /\ f[r] = r
        BY <3>1
      <4> QED
        BY <4>1
    <3>2. CASE r > p
      <4>1. r - 1 \in S /\ f[r - 1] = r
        BY <3>2
      <4> QED
        BY <4>1
    <3> QED
      BY <3>1, <3>2
  <2> QED
    BY <2>1, <2>2, <2>3, Fun_IsBij
<1>3. Cardinality(R) = Cardinality(S)
  BY <1>1, <1>2, FS_Bijection DEF ExistsBijection
<1> HIDE DEF R, f
<1>4. Cardinality(R) = IF p \in U THEN Cardinality(U) - 1 ELSE Cardinality(U)
  BY <1>1, FS_RemoveElement DEF R
<1> QED
  BY <1>1, <1>3, <1>4

LEMMA ConcatPositions ==
  ASSUME NEW S, NEW q \in Seq(S), NEW r \in Seq(S)
  PROVE  /\ q \o r \in Seq(S) /\ Len(q \o r) = Len(q) + Len(r)
         /\ \A x \in 1 .. Len(q) : (q \o r)[x] = q[x]
         /\ \A x \in 1 .. Len(r) : (q \o r)[Len(q) + x] = r[x]
OBVIOUS

LEMMA InsertPositions ==
  ASSUME NEW S, NEW q \in Seq(S), NEW e \in S, NEW p \in 1 .. (Len(q) + 1)
  PROVE  /\ InsertAt(q, p, e) \in Seq(S)
         /\ Len(InsertAt(q, p, e)) = Len(q) + 1
         /\ InsertAt(q, p, e)[p] = e
         /\ \A x \in 1 .. Len(q) : x < p => InsertAt(q, p, e)[x] = q[x]
         /\ \A x \in 1 .. Len(q) : x >= p => InsertAt(q, p, e)[x + 1] = q[x]
<1> DEFINE A == SubSeq(q, 1, p - 1)
           B == SubSeq(q, p, Len(q))
<1>1. /\ A \in Seq(S) /\ Len(A) = p - 1
      /\ \A x \in 1 .. (p - 1) : A[x] = q[x]
  OBVIOUS
<1>2. /\ B \in Seq(S) /\ Len(B) = Len(q) - p + 1
      /\ \A x \in 1 .. (Len(q) - p + 1) : B[x] = q[p + x - 1]
  OBVIOUS
<1>3. InsertAt(q, p, e) = (A \o <<e>>) \o B
  BY DEF InsertAt
<1> HIDE DEF A, B
<1>4. Len(q) \in Nat
  OBVIOUS
<1> DEFINE C == A \o <<e>>
<1>5. /\ C \in Seq(S) /\ Len(C) = p /\ C[p] = e
      /\ \A x \in 1 .. (p - 1) : C[x] = q[x]
  BY <1>1, <1>4
<1> HIDE DEF C
<1>6. /\ C \o B \in Seq(S) /\ Len(C \o B) = Len(q) + 1
      /\ \A x \in 1 .. p : (C \o B)[x] = C[x]
      /\ \A x \in 1 .. (Len(q) - p + 1) : (C \o B)[p + x] = B[x]
  <2>1. /\ C \o B \in Seq(S) /\ Len(C \o B) = Len(C) + Len(B)
        /\ \A x \in 1 .. Len(C) : (C \o B)[x] = C[x]
        /\ \A x \in 1 .. Len(B) : (C \o B)[Len(C) + x] = B[x]
    BY <1>2, <1>5, ConcatPositions
  <2> QED
    BY <1>2, <1>4, <1>5, <2>1
<1>7. InsertAt(q, p, e) = C \o B
  BY <1>3 DEF C
<1> DEFINE D == C \o B
<1>8. /\ D \in Seq(S) /\ Len(D) = Len(q) + 1 /\ D[p] = e
      /\ \A x \in 1 .. Len(q) : x < p => D[x] = q[x]
  BY <1>4, <1>5, <1>6
<1>9. \A x \in 1 .. Len(q) : x >= p => D[x + 1] = q[x]
  <2> SUFFICES ASSUME NEW x \in 1 .. Len(q), x >= p
               PROVE  D[x + 1] = q[x]
    OBVIOUS
  <2> DEFINE y == x - p + 1
  <2>1. y \in 1 .. (Len(q) - p + 1) /\ p + y = x + 1 /\ p + y - 1 = x
    BY <1>4
  <2> HIDE DEF y
  <2> QED
    BY <1>2, <1>6, <2>1
<1> HIDE DEF D
<1> QED
  BY <1>7, <1>8, <1>9 DEF D

LEMMA RemovePositions ==
  ASSUME NEW S, NEW q \in Seq(S), NEW p \in 1 .. Len(q)
  PROVE  /\ RemoveAt(q, p) \in Seq(S)
         /\ Len(RemoveAt(q, p)) = Len(q) - 1
         /\ \A x \in 1 .. (Len(q) - 1) : x < p => RemoveAt(q, p)[x] = q[x]
         /\ \A x \in 1 .. (Len(q) - 1) : x >= p => RemoveAt(q, p)[x] = q[x + 1]
<1> DEFINE A == SubSeq(q, 1, p - 1)
           B == SubSeq(q, p + 1, Len(q))
<1>1. /\ A \in Seq(S) /\ Len(A) = p - 1
      /\ \A x \in 1 .. (p - 1) : A[x] = q[x]
  OBVIOUS
<1>2. /\ B \in Seq(S) /\ Len(B) = Len(q) - p
      /\ \A x \in 1 .. (Len(q) - p) : B[x] = q[p + x]
  OBVIOUS
<1>3. RemoveAt(q, p) = A \o B
  BY DEF RemoveAt
<1> HIDE DEF A, B
<1>4. Len(q) \in Nat
  OBVIOUS
<1> DEFINE D == A \o B
<1>5. /\ D \in Seq(S) /\ Len(D) = Len(q) - 1
      /\ \A x \in 1 .. (p - 1) : D[x] = A[x]
      /\ \A x \in 1 .. (Len(q) - p) : D[p - 1 + x] = B[x]
  <2>1. /\ A \o B \in Seq(S) /\ Len(A \o B) = Len(A) + Len(B)
        /\ \A x \in 1 .. Len(A) : (A \o B)[x] = A[x]
        /\ \A x \in 1 .. Len(B) : (A \o B)[Len(A) + x] = B[x]
    <3>1. A \in Seq(S) /\ B \in Seq(S)
      BY <1>1, <1>2
    <3> QED
      BY <3>1, ConcatPositions
  <2> HIDE DEF D
  <2> QED
    BY <1>1, <1>2, <1>4, <2>1, SMTT(20) DEF D
<1>6. \A x \in 1 .. (Len(q) - 1) : x < p => D[x] = q[x]
  BY <1>1, <1>4, <1>5
<1>7. \A x \in 1 .. (Len(q) - 1) : x >= p => D[x] = q[x + 1]
  <2> SUFFICES ASSUME NEW x \in 1 .. (Len(q) - 1), x >= p
               PROVE  D[x] = q[x + 1]
    OBVIOUS
  <2> DEFINE y == x - p + 1
  <2>1. y \in 1 .. (Len(q) - p) /\ p - 1 + y = x /\ p + y = x + 1
    BY <1>4
  <2> HIDE DEF y
  <2> QED
    BY <1>2, <1>5, <2>1
<1> HIDE DEF D
<1> QED
  BY <1>3, <1>5, <1>6, <1>7 DEF D

\* u is r with one more entry, at position p.
Gap(u, r, p) ==
    /\ Len(u) = Len(r) + 1 /\ p \in 1 .. Len(u)
    /\ \A x \in 1 .. Len(r) : x < p => u[x] = r[x]
    /\ \A x \in 1 .. Len(r) : x >= p => u[x + 1] = r[x]

\* What one more timer changes of the count and of the handles.
LEMMA GapFacts ==
  ASSUME NEW r \in Seq(TimerRec), NEW u \in Seq(TimerRec), NEW p, Gap(u, r, p)
  PROVE  /\ Cardinality(reffedTimers(u)) \in Nat /\ Cardinality(reffedTimers(r)) \in Nat
         /\ Cardinality(reffedTimers(u)) =
              Cardinality(reffedTimers(r)) + (IF u[p].reffed THEN 1 ELSE 0)
         /\ \A x \in DOMAIN r : \E y \in DOMAIN u : y # p /\ u[y] = r[x]
         /\ \A y \in DOMAIN u : y # p => \E x \in DOMAIN r : r[x] = u[y]
         /\ UniqueIds(u) => UniqueIds(r)
         /\ (UniqueIds(r) /\ \A x \in DOMAIN r : r[x].id = u[p].id => u[p].id = 0)
              => UniqueIds(u)
<1> DEFINE n == Len(r)
           to(x) == IF x < p THEN x ELSE x + 1
<1>1. /\ n \in Nat /\ DOMAIN r = 1 .. n /\ DOMAIN u = 1 .. (n + 1)
      /\ p \in 1 .. (n + 1)
  BY DEF Gap
<1>2. /\ \A x \in 1 .. n : x < p => u[x] = r[x]
      /\ \A x \in 1 .. n : x >= p => u[x + 1] = r[x]
  BY DEF Gap
<1> HIDE DEF n
<1>3. /\ Cardinality(reffedTimers(u)) \in Nat /\ Cardinality(reffedTimers(r)) \in Nat
      /\ Cardinality(reffedTimers(u)) =
           Cardinality(reffedTimers(r)) + (IF u[p].reffed THEN 1 ELSE 0)
  <2> DEFINE S == reffedTimers(r)
             U == reffedTimers(u)
  <2>1. S \in SUBSET (1 .. n) /\ U \in SUBSET (1 .. (n + 1))
    BY <1>1 DEF reffedTimers
  <2>2. \A x \in 1 .. n : x < p => (x \in U <=> x \in S)
    BY <1>1, <1>2 DEF reffedTimers
  <2>3. \A x \in 1 .. n : x >= p => (x + 1 \in U <=> x \in S)
    BY <1>1, <1>2 DEF reffedTimers
  <2>4. p \in U <=> u[p].reffed
    BY <1>1 DEF reffedTimers
  <2> HIDE DEF S, U
  <2>5. /\ Cardinality(S) \in Nat /\ Cardinality(U) \in Nat
        /\ Cardinality(U) = Cardinality(S) + (IF p \in U THEN 1 ELSE 0)
    <3>1. Shifted(n, p, S, U)
      BY <1>1, <2>1, <2>2, <2>3 DEF Shifted
    <3> QED
      BY <3>1, GapCount
  <2> QED
    BY <2>4, <2>5 DEF S, U
<1>4. \A x \in 1 .. n : to(x) \in 1 .. (n + 1) /\ to(x) # p /\ u[to(x)] = r[x]
  BY <1>1, <1>2
<1>5. \A y \in 1 .. (n + 1) : y # p => \E x \in 1 .. n : y = to(x)
  <2> SUFFICES ASSUME NEW y \in 1 .. (n + 1), y # p
               PROVE  \E x \in 1 .. n : y = to(x)
    OBVIOUS
  <2>1. CASE y < p
    <3>1. y \in 1 .. n /\ y = to(y)
      BY <1>1, <2>1
    <3> QED
      BY <3>1
  <2>2. CASE y > p
    <3>1. y - 1 \in 1 .. n /\ y = to(y - 1)
      BY <1>1, <2>2
    <3> QED
      BY <3>1
  <2> QED
    BY <1>1, <2>1, <2>2
<1>6. \A x, y \in 1 .. n : to(x) = to(y) => x = y
  BY <1>1
<1> HIDE DEF to
<1>7. \A x \in DOMAIN r : \E y \in DOMAIN u : y # p /\ u[y] = r[x]
  BY <1>1, <1>4
<1>8. \A y \in DOMAIN u : y # p => \E x \in DOMAIN r : r[x] = u[y]
  <2> SUFFICES ASSUME NEW y \in DOMAIN u, y # p
               PROVE  \E x \in DOMAIN r : r[x] = u[y]
    OBVIOUS
  <2>1. PICK x \in 1 .. n : y = to(x)
    BY <1>1, <1>5
  <2> QED
    BY <1>1, <1>4, <2>1
<1>9. UniqueIds(u) => UniqueIds(r)
  BY <1>1, <1>4, <1>6 DEF UniqueIds
<1>10. ASSUME UniqueIds(r), \A x \in DOMAIN r : r[x].id = u[p].id => u[p].id = 0
       PROVE  UniqueIds(u)
  <2> SUFFICES ASSUME NEW a \in DOMAIN u, NEW b \in DOMAIN u, u[a].id = u[b].id, a # b
               PROVE  u[a].id = 0
    BY DEF UniqueIds
  <2>1. CASE a = p
    BY <1>8, <1>10, <2>1
  <2>2. CASE b = p
    BY <1>8, <1>10, <2>2
  <2>3. CASE a # p /\ b # p
    <3>1. PICK x \in 1 .. n, y \in 1 .. n : a = to(x) /\ b = to(y)
      BY <1>1, <1>5, <2>3
    <3> QED
      BY <1>1, <1>4, <1>10, <3>1 DEF UniqueIds
  <2> QED
    BY <2>1, <2>2, <2>3
<1> QED
  BY <1>3, <1>7, <1>8, <1>9, <1>10

\* pushed opens a gap and RemoveAt and Tail close one.
LEMMA PushGap ==
  ASSUME NEW ts \in Seq(TimerRec), NEW t \in TimerRec
  PROVE  /\ pushed(ts, t) \in Seq(TimerRec)
         /\ \E p : Gap(pushed(ts, t), ts, p) /\ pushed(ts, t)[p] = t
<1> DEFINE E == {x \in DOMAIN ts : ts[x].left <= t.left}
           p == 1 + Cardinality(E)
<1>1. E \in SUBSET (1 .. Len(ts)) /\ Len(ts) \in Nat
  OBVIOUS
<1> HIDE DEF E
<1>2. Cardinality(E) \in Nat /\ Cardinality(E) <= Len(ts)
  <2>1. PICK n \in Nat : n = Len(ts)
    BY <1>1
  <2>2. IsFiniteSet(1 .. n) /\ Cardinality(1 .. n) = IF 1 > n THEN 0 ELSE n - 1 + 1
    <3>1. 1 \in Int /\ n \in Int
      OBVIOUS
    <3> QED
      BY <3>1, FS_Interval, Zenon
  <2>3. Cardinality(1 .. n) = n
    BY <2>2
  <2>4. E \in SUBSET (1 .. n)
    BY <1>1, <2>1
  <2>5. IsFiniteSet(E) /\ Cardinality(E) <= Cardinality(1 .. n)
    BY <2>2, <2>4, FS_Subset
  <2>6. Cardinality(E) \in Nat
    BY <2>5, FS_CardinalityType
  <2> QED
    BY <2>1, <2>3, <2>5, <2>6
<1>3. p \in 1 .. (Len(ts) + 1)
  BY <1>1, <1>2
<1>4. pushed(ts, t) = InsertAt(ts, p, t)
  BY DEF pushed, E
<1> HIDE DEF p
<1>5. Gap(InsertAt(ts, p, t), ts, p) /\ InsertAt(ts, p, t)[p] = t
  BY <1>3, InsertPositions DEF Gap
<1> QED
  BY <1>3, <1>4, <1>5, InsertPositions

LEMMA RemoveGap ==
  ASSUME NEW ts \in Seq(TimerRec), NEW p \in DOMAIN ts
  PROVE  RemoveAt(ts, p) \in Seq(TimerRec) /\ Gap(ts, RemoveAt(ts, p), p)
<1>1. p \in 1 .. Len(ts) /\ Len(ts) \in Nat
  OBVIOUS
<1> DEFINE R == RemoveAt(ts, p)
<1>2. /\ R \in Seq(TimerRec) /\ Len(R) = Len(ts) - 1
      /\ \A x \in 1 .. (Len(ts) - 1) : x < p => R[x] = ts[x]
      /\ \A x \in 1 .. (Len(ts) - 1) : x >= p => R[x] = ts[x + 1]
  BY <1>1, RemovePositions
<1> HIDE DEF R
<1>3. R \in Seq(TimerRec) /\ Gap(ts, R, p)
  BY <1>1, <1>2 DEF Gap
<1> QED
  BY <1>3 DEF R

LEMMA TailGap ==
  ASSUME NEW ts \in Seq(TimerRec), ts # <<>>
  PROVE  Tail(ts) \in Seq(TimerRec) /\ Gap(ts, Tail(ts), 1) /\ 1 \in DOMAIN ts
<1>1. Len(ts) \in Nat /\ 1 \in 1 .. Len(ts) /\ 1 \in DOMAIN ts
  OBVIOUS
<1> DEFINE R == Tail(ts)
<1>2. /\ R \in Seq(TimerRec) /\ Len(R) = Len(ts) - 1
      /\ \A x \in 1 .. (Len(ts) - 1) : R[x] = ts[x + 1]
  BY QueueLeave
<1> HIDE DEF R
<1>3. R \in Seq(TimerRec) /\ Gap(ts, R, 1)
  BY <1>1, <1>2 DEF Gap
<1> QED
  BY <1>1, <1>3 DEF R

(***************************************************************************)
(* The timers                                                              *)
(***************************************************************************)
LEMMA TimerFields ==
  ASSUME NEW e \in TimerRec
  PROVE  /\ e.id \in Nat /\ e.left \in Nat /\ e.delay \in Nat
         /\ e.reffed \in BOOLEAN
         /\ \A l \in Nat, d \in BOOLEAN :
              LET f == [e EXCEPT !.left = l, !.due = d]
              IN  f \in TimerRec /\ f.id = e.id /\ f.reffed = e.reffed
BY DEF TimerRec

LEMMA ArmedType ==
  ASSUME NEW id \in Nat, NEW delay \in Nat, NEW repeat \in BOOLEAN, NEW reffed \in BOOLEAN
  PROVE  /\ Armed(id, delay, repeat, reffed) \in TimerRec
         /\ Armed(id, delay, repeat, reffed).id = id
BY DEF Armed, TimerRec

\* A timer whose handle is not armed, nor firing once it is pushed, joins the heap.
LEMMA PushKeeps ==
  ASSUME TimersInv, NEW t \in TimerRec, scr_timer_push(timers, t), firing' \in FiringRec,
         \A x \in DOMAIN timers : timers[x].id = t.id => t.id = 0,
         firing'.id = 0 \/ (firing' = firing /\ (t.id = firing.id => t.id = 0))
  PROVE  TimersInv'
<1> USE DEF TimersInv, IdsInv
<1>1. /\ timers' = pushed(timers, t)
      /\ scr_reffed_timers' = scr_reffed_timers + (IF t.reffed THEN 1 ELSE 0)
  BY DEF scr_timer_push
<1>2. timers' \in Seq(TimerRec)
  BY <1>1, PushGap
<1>3. PICK p : Gap(timers', timers, p) /\ timers'[p] = t
  BY <1>1, PushGap
<1>4. /\ Cardinality(reffedTimers(timers')) =
            Cardinality(reffedTimers(timers)) + (IF t.reffed THEN 1 ELSE 0)
      /\ \A y \in DOMAIN timers' : y # p => \E x \in DOMAIN timers : timers[x] = timers'[y]
      /\ UniqueIds(timers')
  BY <1>2, <1>3, GapFacts
<1>5. \A x \in DOMAIN timers' : timers'[x].id = firing'.id => firing'.id = 0
  BY <1>3, <1>4
<1> QED
  BY <1>1, <1>2, <1>4, <1>5 DEF reffedTimers

\* There is always a handle to give: what the heap and the callback hold is less
\* than what there is.
LEMMA FreshHandle ==
  ASSUME TimersInv, Len(timers) < MaxTimers,
         NEW id, id = CHOOSE x \in 1 .. (MaxTimers + 1) :
                          x \notin UsedIds /\ \A y \in 1 .. (x - 1) : y \in UsedIds
  PROVE  id \in Nat /\ id # 0 /\ id \notin UsedIds
<1> DEFINE n == Len(timers)
           I == 1 .. (MaxTimers + 1)
           f == [x \in 1 .. (n + 1) |-> IF x <= n THEN timers[x].id ELSE firing.id]
<1>0. n \in Nat /\ MaxTimers \in Nat /\ n < MaxTimers /\ DOMAIN timers = 1 .. n
  BY ScrLoopAssumption DEF TimersInv
<1>1. f \in Surjection(1 .. (n + 1), UsedIds)
  <2> HIDE DEF n
  <2>1. \A x \in 1 .. (n + 1) : f[x] \in UsedIds
    BY <1>0 DEF UsedIds
  <2>2. \A i \in UsedIds : \E x \in 1 .. (n + 1) : f[x] = i
    <3> SUFFICES ASSUME NEW i \in UsedIds PROVE \E x \in 1 .. (n + 1) : f[x] = i
      OBVIOUS
    <3>1. CASE i = firing.id
      <4>1. n + 1 \in 1 .. (n + 1) /\ f[n + 1] = i
        BY <1>0, <3>1
      <4> QED
        BY <4>1
    <3>2. CASE \E x \in DOMAIN timers : i = timers[x].id
      <4>1. PICK x \in 1 .. n : i = timers[x].id
        BY <1>0, <3>2
      <4>2. x \in 1 .. (n + 1) /\ f[x] = i
        BY <1>0, <4>1
      <4> QED
        BY <4>2
    <3> QED
      BY <3>1, <3>2 DEF UsedIds
  <2> QED
    BY <2>1, <2>2, Fun_IsSurj
<1> HIDE DEF n, f
<1>2. IsFiniteSet(UsedIds) /\ Cardinality(UsedIds) <= n + 1
  <2>1. IsFiniteSet(1 .. (n + 1)) /\ Cardinality(1 .. (n + 1)) = n + 1
    BY <1>0, FS_Interval
  <2> QED
    BY <1>1, <2>1, FS_Surjection
<1>3. Cardinality(I) = MaxTimers + 1
  BY <1>0, FS_Interval
<1>4. ~(I \subseteq UsedIds)
  <2> SUFFICES ASSUME I \subseteq UsedIds PROVE FALSE
    OBVIOUS
  <2>1. Cardinality(I) <= Cardinality(UsedIds)
    BY <1>2, FS_Subset
  <2>2. Cardinality(UsedIds) \in Nat
    BY <1>2, FS_CardinalityType
  <2> QED
    BY <1>0, <1>2, <1>3, <2>1, <2>2
<1> DEFINE F == {x \in I : x \notin UsedIds}
<1>5. PICK x \in F : \A y \in F : x <= y
  <2>1. F \in SUBSET Nat /\ F # {}
    BY <1>0, <1>4
  <2> HIDE DEF F
  <2> QED
    BY <2>1, LeastNatural
<1>6. x \in I /\ x \notin UsedIds /\ \A y \in 1 .. (x - 1) : y \in UsedIds
  BY <1>0, <1>5
<1>7. id \in I /\ id \notin UsedIds
  BY <1>6
<1>8. \A z \in I : z \in Nat /\ z # 0
  BY <1>0
<1> HIDE DEF I
<1> QED
  BY <1>7, <1>8

\* A rewrite of every entry that keeps handles and refs keeps the counts.
LEMMA RewriteKeeps ==
  ASSUME TimersInv, timers' \in Seq(TimerRec), DOMAIN timers' = DOMAIN timers,
         \A x \in DOMAIN timers : /\ timers'[x].id = timers[x].id
                                  /\ timers'[x].reffed = timers[x].reffed,
         UNCHANGED <<firing, scr_reffed_timers>>
  PROVE  TimersInv'
<1> USE DEF TimersInv, IdsInv
<1>1. reffedTimers(timers') = reffedTimers(timers)
  BY DEF reffedTimers
<1>2. UniqueIds(timers')
  BY DEF UniqueIds
<1>3. \A x \in DOMAIN timers' : timers'[x].id = firing'.id => firing'.id = 0
  OBVIOUS
<1> QED
  BY <1>1, <1>2, <1>3

LEMMA ElapsedKeeps ==
  ASSUME NEW ts \in Seq(TimerRec), NEW ms \in Nat
  PROVE  /\ elapsed(ts, ms) \in Seq(TimerRec) /\ DOMAIN elapsed(ts, ms) = DOMAIN ts
         /\ \A x \in DOMAIN ts : /\ elapsed(ts, ms)[x].id = ts[x].id
                                  /\ elapsed(ts, ms)[x].reffed = ts[x].reffed
<1> DEFINE E == elapsed(ts, ms)
           left(x) == IF ts[x].left > ms THEN ts[x].left - ms ELSE 0
<1>1. E = [x \in DOMAIN ts |-> [ts[x] EXCEPT !.left = left(x)]]
  BY DEF elapsed
<1>2. DOMAIN ts = 1 .. Len(ts) /\ Len(ts) \in Nat /\ \A x \in DOMAIN ts : ts[x] \in TimerRec
  OBVIOUS
<1>3. \A x \in DOMAIN ts : left(x) \in Nat
  BY <1>2 DEF TimerRec
<1> HIDE DEF E, left
<1>4. \A e \in TimerRec, l \in Nat :
        /\ [e EXCEPT !.left = l] \in TimerRec
        /\ [e EXCEPT !.left = l].id = e.id /\ [e EXCEPT !.left = l].reffed = e.reffed
  BY DEF TimerRec
<1>5. \A x \in 1 .. Len(ts) :
         E[x] \in TimerRec /\ E[x].id = ts[x].id /\ E[x].reffed = ts[x].reffed
  BY <1>1, <1>2, <1>3, <1>4
<1>6. E \in [1 .. Len(ts) -> TimerRec]
  BY <1>1, <1>2, <1>5
<1>7. E \in Seq(TimerRec) /\ DOMAIN E = DOMAIN ts
  BY <1>2, <1>6
<1> QED
  BY <1>2, <1>5, <1>7 DEF E

LEMMA TimersStep ==
  ASSUME LoopInv, [Next]_vars
  PROVE  TimersInv'
<1>0. TimersInv /\ timers \in Seq(TimerRec) /\ firing \in FiringRec
  BY DEF LoopInv, TimersInv
<1>1. ASSUME NEW d \in Delays, scr_set_timeout(d) PROVE TimersInv'
  <2> DEFINE t == Armed(0, d, FALSE, TRUE)
  <2>1. t \in TimerRec /\ t.id = 0
    <3>1. d \in Nat
      BY ScrLoopAssumption DEF Delays
    <3> QED
      BY <3>1, ArmedType
  <2>2. scr_timer_push(timers, t) /\ firing' = firing
    BY <1>1 DEF scr_set_timeout
  <2> HIDE DEF t
  <2> QED
    BY <1>0, <2>1, <2>2, PushKeeps
<1>2. ASSUME NEW d \in Delays, NEW repeat \in BOOLEAN, scr_set_handle(d, repeat)
      PROVE  TimersInv'
  <2>1. PICK id : id = CHOOSE x \in 1 .. (MaxTimers + 1) :
                           x \notin UsedIds /\ \A y \in 1 .. (x - 1) : y \in UsedIds
    OBVIOUS
  <2> DEFINE t == Armed(id, d, repeat, TRUE)
  <2>2. /\ Len(timers) < MaxTimers
        /\ scr_timer_push(timers, t) /\ firing' = firing
    BY <1>2, <2>1, Zenon DEF scr_set_handle
  <2>3. id \in Nat /\ id # 0 /\ id \notin UsedIds
    BY <1>0, <2>1, <2>2, FreshHandle
  <2>4. t \in TimerRec /\ t.id = id
    <3>1. d \in Nat
      BY ScrLoopAssumption DEF Delays
    <3> QED
      BY <2>3, <3>1, ArmedType
  <2>5. (\A x \in DOMAIN timers : timers[x].id # id) /\ firing.id # id
    BY <2>3 DEF UsedIds
  <2> HIDE DEF t
  <2> QED
    BY <1>0, <2>2, <2>4, <2>5, PushKeeps
<1>3. ASSUME NEW id \in Ids, scr_clear_interval(id) PROVE TimersInv'
  <2>1. CASE UNCHANGED <<timers, scr_reffed_timers>> /\ firing' = [firing EXCEPT !.cleared = TRUE]
    <3>1. firing' \in FiringRec /\ firing'.id = firing.id
      BY <1>0, <2>1 DEF FiringRec
    <3> QED
      BY <1>0, <2>1, <3>1 DEF TimersInv, IdsInv
  <2>2. ASSUME NEW x \in scr_timer_find(id), timers' = RemoveAt(timers, x),
               scr_reffed_timers' = dropped(x), firing' = firing
        PROVE  TimersInv'
    <3>1. x \in DOMAIN timers
      BY DEF scr_timer_find
    <3>2. timers' \in Seq(TimerRec) /\ Gap(timers, timers', x)
      BY <1>0, <2>2, <3>1, RemoveGap
    <3>3. /\ Cardinality(reffedTimers(timers)) \in Nat
          /\ Cardinality(reffedTimers(timers')) \in Nat
          /\ Cardinality(reffedTimers(timers)) =
               Cardinality(reffedTimers(timers')) + (IF timers[x].reffed THEN 1 ELSE 0)
          /\ \A y \in DOMAIN timers' : \E z \in DOMAIN timers : z # x /\ timers[z] = timers'[y]
          /\ UniqueIds(timers) => UniqueIds(timers')
      BY <1>0, <3>2, GapFacts
    <3>4. scr_reffed_timers' = Cardinality(reffedTimers(timers'))
      BY <1>0, <2>2, <3>3 DEF dropped, TimersInv
    <3>5. \A y \in DOMAIN timers' : timers'[y].id = firing'.id => firing'.id = 0
      BY <1>0, <2>2, <3>3 DEF TimersInv, IdsInv
    <3> QED
      BY <1>0, <2>2, <3>2, <3>3, <3>4, <3>5 DEF TimersInv, IdsInv
  <2> QED
    BY <1>3, <2>1, <2>2 DEF scr_clear_interval
<1>4. ASSUME NEW id \in Ids, NEW reffed \in BOOLEAN, scr_timer_ref(id, reffed)
      PROVE  TimersInv'
  <2>1. CASE UNCHANGED <<timers, scr_reffed_timers>> /\ firing' = [firing EXCEPT !.reffed = reffed]
    <3>1. firing' \in FiringRec /\ firing'.id = firing.id
      BY <1>0, <2>1 DEF FiringRec
    <3> QED
      BY <1>0, <2>1, <3>1 DEF TimersInv, IdsInv
  <2>2. ASSUME NEW x \in scr_timer_find(id), timers[x].reffed # reffed,
               timers' = [timers EXCEPT ![x].reffed = reffed],
               scr_reffed_timers' = scr_reffed_timers + (IF reffed THEN 1 ELSE -1),
               firing' = firing
        PROVE  TimersInv'
    <3>1. x \in DOMAIN timers
      BY DEF scr_timer_find
    <3>2. /\ timers' \in Seq(TimerRec) /\ DOMAIN timers' = DOMAIN timers
          /\ \A y \in DOMAIN timers : timers'[y].id = timers[y].id
          /\ \A y \in DOMAIN timers : y # x => timers'[y] = timers[y]
          /\ timers'[x].reffed = reffed
      <4>1. timers[x] \in TimerRec
        BY <1>0, <3>1, QueuePositions
      <4> DEFINE e == [timers[x] EXCEPT !.reffed = reffed]
      <4>2. e \in TimerRec /\ e.id = timers[x].id /\ e.reffed = reffed
        <5>1. \A t \in TimerRec : /\ [t EXCEPT !.reffed = reffed] \in TimerRec
                                  /\ [t EXCEPT !.reffed = reffed].id = t.id
                                  /\ [t EXCEPT !.reffed = reffed].reffed = reffed
          BY DEF TimerRec
        <5> QED
          BY <4>1, <5>1
      <4>3. timers' = [timers EXCEPT ![x] = e]
        BY <2>2
      <4> HIDE DEF e
      <4> QED
        BY <1>0, <3>1, <4>2, <4>3
    <3>3. timers[x].reffed \in BOOLEAN
      BY <1>0, <3>1, QueuePositions, TimerFields
    <3> DEFINE R == reffedTimers(timers)
    <3>4. IsFiniteSet(R) /\ Cardinality(R) \in Nat
      <4>1. Len(timers) \in Nat /\ R \in SUBSET (1 .. Len(timers))
        BY <1>0 DEF reffedTimers
      <4> QED
        BY <4>1, PositionCount
    <3>5. scr_reffed_timers' = Cardinality(reffedTimers(timers'))
      <4>1. CASE reffed = TRUE
        <5>1. reffedTimers(timers') = R \union {x} /\ x \notin R
          BY <2>2, <3>1, <3>2, <3>3, <4>1 DEF reffedTimers
        <5>2. Cardinality(R \union {x}) = Cardinality(R) + 1
          BY <3>4, <5>1, FS_AddElement
        <5> QED
          BY <1>0, <2>2, <3>4, <4>1, <5>1, <5>2 DEF TimersInv
      <4>2. CASE reffed = FALSE
        <5>1. reffedTimers(timers') = R \ {x} /\ x \in R
          BY <2>2, <3>1, <3>2, <3>3, <4>2 DEF reffedTimers
        <5>2. Cardinality(R \ {x}) = Cardinality(R) - 1
          BY <3>4, <5>1, FS_RemoveElement
        <5> QED
          BY <1>0, <2>2, <3>4, <4>2, <5>1, <5>2 DEF TimersInv
      <4> QED
        BY <4>1, <4>2
    <3>6. UniqueIds(timers')
      BY <1>0, <3>2 DEF UniqueIds, TimersInv, IdsInv
    <3> QED
      BY <1>0, <2>2, <3>2, <3>5, <3>6 DEF TimersInv, IdsInv
  <2> QED
    BY <1>4, <2>1, <2>2 DEF scr_timer_ref
<1>5. ASSUME NEW id \in Ids, scr_timer_refresh(id) PROVE TimersInv'
  <2>1. CASE UNCHANGED <<timers, scr_reffed_timers>> /\ firing' = [firing EXCEPT !.refresh = TRUE]
    <3>1. firing' \in FiringRec /\ firing'.id = firing.id
      BY <1>0, <2>1 DEF FiringRec
    <3> QED
      BY <1>0, <2>1, <3>1 DEF TimersInv, IdsInv
  <2>2. ASSUME NEW x \in scr_timer_find(id),
               timers' = pushed(RemoveAt(timers, x),
                                [timers[x] EXCEPT !.left = timers[x].delay, !.due = FALSE]),
               UNCHANGED <<scr_reffed_timers, firing>>
        PROVE  TimersInv'
    <3> DEFINE R == RemoveAt(timers, x)
               t == [timers[x] EXCEPT !.left = timers[x].delay, !.due = FALSE]
    <3>1. x \in DOMAIN timers
      BY DEF scr_timer_find
    <3>2. t \in TimerRec /\ t.id = timers[x].id /\ t.reffed = timers[x].reffed
      <4>1. timers[x] \in TimerRec
        BY <1>0, <3>1, QueuePositions
      <4> QED
        BY <4>1, TimerFields
    <3>3. R \in Seq(TimerRec) /\ Gap(timers, R, x)
      BY <1>0, <3>1, RemoveGap
    <3> HIDE DEF R, t
    <3>4. /\ Cardinality(reffedTimers(timers)) =
               Cardinality(reffedTimers(R)) + (IF timers[x].reffed THEN 1 ELSE 0)
          /\ \A y \in DOMAIN R : \E z \in DOMAIN timers : z # x /\ timers[z] = R[y]
          /\ UniqueIds(timers) => UniqueIds(R)
      BY <1>0, <3>3, GapFacts
    <3>5. timers' = pushed(R, t)
      BY <2>2 DEF R, t
    <3>6. timers' \in Seq(TimerRec)
      BY <3>2, <3>3, <3>5, PushGap
    <3>7. PICK p : Gap(timers', R, p) /\ timers'[p] = t
      BY <3>2, <3>3, <3>5, PushGap
    <3>8. \A y \in DOMAIN R : R[y].id = t.id => t.id = 0
      BY <1>0, <3>1, <3>2, <3>4 DEF TimersInv, IdsInv, UniqueIds
    <3>9. UniqueIds(R)
      BY <1>0, <3>4 DEF TimersInv, IdsInv
    <3>10. /\ Cardinality(reffedTimers(timers')) =
                Cardinality(reffedTimers(R)) + (IF t.reffed THEN 1 ELSE 0)
           /\ \A y \in DOMAIN timers' : y # p => \E z \in DOMAIN R : R[z] = timers'[y]
           /\ UniqueIds(timers')
      BY <3>3, <3>6, <3>7, <3>8, <3>9, GapFacts
    <3>11. \A y \in DOMAIN timers' : \E z \in DOMAIN timers : timers'[y].id = timers[z].id
      BY <3>1, <3>2, <3>4, <3>7, <3>10
    <3>12. scr_reffed_timers' = Cardinality(reffedTimers(timers'))
      BY <1>0, <2>2, <3>2, <3>4, <3>10 DEF TimersInv
    <3>13. \A y \in DOMAIN timers' : timers'[y].id = firing'.id => firing'.id = 0
      BY <1>0, <2>2, <3>11 DEF TimersInv, IdsInv
    <3> QED
      BY <1>0, <2>2, <3>6, <3>10, <3>12, <3>13 DEF TimersInv, IdsInv
  <2> QED
    BY <1>5, <2>1, <2>2 DEF scr_timer_refresh
<1>6. ASSUME TimePasses PROVE TimersInv'
  <2>1. timers' = elapsed(timers, 1) /\ UNCHANGED <<firing, scr_reffed_timers>>
    BY <1>6 DEF TimePasses
  <2>2. /\ timers' \in Seq(TimerRec) /\ DOMAIN timers' = DOMAIN timers
        /\ \A x \in DOMAIN timers : /\ timers'[x].id = timers[x].id
                                     /\ timers'[x].reffed = timers[x].reffed
    BY <1>0, <2>1, ElapsedKeeps
  <2> QED
    BY <1>0, <2>1, <2>2, RewriteKeeps
<1>7. ASSUME Sleep PROVE TimersInv'
  <2>1. PICK ms \in Nat, now \in Nat : timers' =
           [x \in DOMAIN timers |->
              [elapsed(timers, ms)[x] EXCEPT !.due = timers[x].left <= now]]
    <3>1. sleepTime \in Nat
      <4>1. timers # <<>> => timers[1] \in TimerRec
        BY <1>0, QueuePositions
      <4> QED
        BY <4>1, TimerFields DEF sleepTime
    <3>2. MaxDelay \in Nat
      BY ScrLoopAssumption
    <3>3. PICK ms \in (IF source = "arrived" THEN 0 ELSE sleepTime) .. MaxDelay :
            timers' = [x \in DOMAIN timers |->
                        [elapsed(timers, ms)[x] EXCEPT
                            !.due = timers[x].left <= (IF holds THEN ms ELSE sleepTime)]]
      BY <1>7 DEF Sleep
    <3>4. ms \in Nat
      BY <3>1, <3>2, <3>3
    <3>5. PICK k \in Nat : k = IF holds THEN ms ELSE sleepTime
      BY <3>1, <3>4
    <3> QED
      BY <3>3, <3>4, <3>5
  <2>2. UNCHANGED <<firing, scr_reffed_timers>>
    BY <1>7 DEF Sleep
  <2> DEFINE E == elapsed(timers, ms)
  <2>3. /\ E \in Seq(TimerRec) /\ DOMAIN E = DOMAIN timers
        /\ \A x \in DOMAIN timers : E[x].id = timers[x].id /\ E[x].reffed = timers[x].reffed
    BY <1>0, ElapsedKeeps
  <2>4. timers' = [x \in DOMAIN timers |-> [E[x] EXCEPT !.due = timers[x].left <= now]]
    BY <2>1
  <2> HIDE DEF E
  <2>5. /\ timers' \in Seq(TimerRec) /\ DOMAIN timers' = DOMAIN timers
        /\ \A x \in DOMAIN timers : /\ timers'[x].id = timers[x].id
                                     /\ timers'[x].reffed = timers[x].reffed
    <3>1. \A x \in DOMAIN timers : E[x] \in TimerRec
      BY <2>3
    <3>2. \A x \in DOMAIN timers : (timers[x].left <= now) \in BOOLEAN
      OBVIOUS
    <3>3. DOMAIN timers = 1 .. Len(timers) /\ Len(timers) \in Nat
      BY <1>0
    <3>4. \A e \in TimerRec, d \in BOOLEAN :
             /\ [e EXCEPT !.due = d] \in TimerRec
             /\ [e EXCEPT !.due = d].id = e.id /\ [e EXCEPT !.due = d].reffed = e.reffed
      BY DEF TimerRec
    <3>5. \A x \in 1 .. Len(timers) : timers'[x] \in TimerRec /\ timers'[x].id = E[x].id
                                        /\ timers'[x].reffed = E[x].reffed
      BY <2>4, <3>1, <3>2, <3>3, <3>4, ZenonT(30)
    <3>6. timers' \in [1 .. Len(timers) -> TimerRec]
      BY <2>4, <3>3, <3>5
    <3>7. timers' \in Seq(TimerRec) /\ DOMAIN timers' = DOMAIN timers
      BY <3>3, <3>6
    <3> QED
      BY <2>3, <3>3, <3>5, <3>7
  <2> QED
    BY <1>0, <2>2, <2>5, RewriteKeeps
<1>8. ASSUME RunTimer PROVE TimersInv'
  <2>1. /\ timers # <<>> /\ timers' = Tail(timers) /\ scr_reffed_timers' = dropped(1)
        /\ firing' = [id |-> timers[1].id, repeat |-> timers[1].repeat,
                      delay |-> timers[1].delay, cleared |-> FALSE,
                      reffed |-> timers[1].reffed, refresh |-> FALSE]
    BY <1>8 DEF RunTimer, isDue
  <2>2. timers' \in Seq(TimerRec) /\ Gap(timers, timers', 1) /\ 1 \in DOMAIN timers
    BY <1>0, <2>1, TailGap
  <2>3. firing' \in FiringRec /\ firing'.id = timers[1].id
    <3>1. timers[1] \in TimerRec
      BY <1>0, <2>2
    <3> QED
      BY <2>1, <3>1 DEF FiringRec, TimerRec
  <2>4. /\ Cardinality(reffedTimers(timers)) \in Nat
        /\ Cardinality(reffedTimers(timers')) \in Nat
        /\ Cardinality(reffedTimers(timers)) =
             Cardinality(reffedTimers(timers')) + (IF timers[1].reffed THEN 1 ELSE 0)
        /\ \A y \in DOMAIN timers' : \E z \in DOMAIN timers : z # 1 /\ timers[z] = timers'[y]
        /\ UniqueIds(timers) => UniqueIds(timers')
    BY <1>0, <2>2, GapFacts
  <2>5. scr_reffed_timers' = Cardinality(reffedTimers(timers'))
    BY <1>0, <2>1, <2>4 DEF dropped, TimersInv
  <2>6. \A y \in DOMAIN timers' : timers'[y].id = firing'.id => firing'.id = 0
    BY <1>0, <2>2, <2>3, <2>4 DEF TimersInv, IdsInv, UniqueIds
  <2> QED
    BY <1>0, <2>2, <2>3, <2>4, <2>5, <2>6 DEF TimersInv, IdsInv
<1>9. ASSUME NEW throws, TimerReturns(throws) PROVE TimersInv'
  <2>0. rearm(exc') /\ firing' = NoFiring
    BY <1>9 DEF TimerReturns
  <2>1. firing' \in FiringRec /\ firing'.id = 0
    BY <2>0 DEF NoFiring, FiringRec
  <2> DEFINE t == Armed(firing.id, firing.delay, firing.repeat, firing.reffed)
  <2>2. t \in TimerRec /\ t.id = firing.id
    BY <1>0, ArmedType, SMTT(20) DEF FiringRec
  <2>3. scr_timer_push(timers, t) \/ UNCHANGED <<timers, scr_reffed_timers>>
    BY <2>0 DEF rearm
  <2> HIDE DEF t
  <2>4. CASE scr_timer_push(timers, t)
    <3>1. \A x \in DOMAIN timers : timers[x].id = t.id => t.id = 0
      BY <1>0, <2>2 DEF TimersInv, IdsInv
    <3> QED
      BY <1>0, <2>1, <2>2, <2>4, <3>1, PushKeeps
  <2>5. CASE UNCHANGED <<timers, scr_reffed_timers>>
    BY <1>0, <2>1, <2>5 DEF TimersInv, IdsInv
  <2> QED
    BY <2>3, <2>4, <2>5
<1>10. ASSUME timers' = <<>>, scr_reffed_timers' = 0, firing' = firing PROVE TimersInv'
  <2>1. timers' \in Seq(TimerRec) /\ DOMAIN timers' = {}
    BY <1>10
  <2>2. reffedTimers(timers') = {}
    BY <2>1 DEF reffedTimers
  <2> QED
    BY <1>0, <1>10, <2>1, <2>2, FS_EmptySet DEF TimersInv, IdsInv, UniqueIds
<1>11. ASSUME UNCHANGED timerVars PROVE TimersInv'
  BY <1>0, <1>11 DEF TimersInv, IdsInv, timerVars
<1>12. ASSUME UserCall PROVE TimersInv'
  <2>1. ASSUME \/ scr_set_immediate \/ scr_clear_immediate
               \/ (\E reffed \in BOOLEAN : scr_immediate_ref(reffed))
               \/ scr_next_tick \/ scr_queue_microtask
               \/ (\E p \in Prom : scr_await_settled(p))
               \/ (\E p \in Prom : scr_promise_mark_handled(p))
               \/ (\E p \in Prom, state \in {"fulfilled", "rejected"} :
                      scr_promise_settle_wake(p, state))
               \/ OpenSource \/ Catches
        PROVE  UNCHANGED timerVars
    BY <2>1 DEF scr_set_immediate, scr_clear_immediate, scr_immediate_ref, scr_next_tick,
       scr_queue_microtask, scr_await_settled, scr_promise_mark_handled,
       scr_promise_settle_wake, OpenSource, Catches, timerVars
  <2> QED
    BY <1>1, <1>2, <1>3, <1>4, <1>5, <1>6, <1>11, <1>12, <2>1 DEF UserCall
<1>13. ASSUME LoopStep PROVE TimersInv'
  <2>1. ASSUME \/ RunTick \/ TicksDone \/ scr_resume_fiber \/ Dispatch \/ TimersDone
               \/ scr_report_unhandled_rejections \/ FinalReportDone
               \/ NextListener \/ BatchDone
               \/ Check \/ RunImmediate \/ ImmediateJobsDone \/ ImmediatesDone
        PROVE  UNCHANGED timerVars
    BY <2>1 DEF RunTick, TicksDone, scr_resume_fiber, Dispatch, TimersDone,
       scr_report_unhandled_rejections, FinalReportDone, NextListener, BatchDone,
       Check, RunImmediate, ImmediateJobsDone, ImmediatesDone, timerVars
  <2>2. ASSUME Top \/ MicroDone \/ ReportDone \/ Alive
        PROVE  \/ UNCHANGED timerVars
               \/ timers' = <<>> /\ scr_reffed_timers' = 0 /\ firing' = firing
    BY <2>2 DEF Top, MicroDone, ReportDone, Alive, Break, timerVars
  <2> QED
    BY <1>7, <1>8, <1>10, <1>11, <1>13, <2>1, <2>2 DEF LoopStep
<1>14. ASSUME NEW throws, Returns(throws) PROVE TimersInv'
  <2>1. ASSUME \/ TickReturns(throws) \/ JobReturns(throws) \/ ListenerReturns(throws)
               \/ SourceReturns(throws) \/ ImmediateReturns(throws)
        PROVE  UNCHANGED timerVars
    BY <2>1 DEF TickReturns, JobReturns, ListenerReturns, SourceReturns, ImmediateReturns,
       timerVars
  <2> QED
    BY <1>9, <1>11, <1>14, <2>1 DEF Returns
<1>15. ASSUME MainReturns \/ Arrives \/ Stopped \/ UNCHANGED vars PROVE TimersInv'
  <2>1. UNCHANGED timerVars
    BY <1>15 DEF MainReturns, Arrives, Stopped, vars, timerVars
  <2> QED
    BY <1>11, <2>1
<1> QED
  BY <1>12, <1>13, <1>14, <1>15 DEF Next, Throws

(***************************************************************************)
(* The immediates                                                          *)
(***************************************************************************)
LEMMA ImmCounts ==
  ASSUME NEW is \in Seq(ImmRec)
  PROVE  /\ IsFiniteSet(liveImms(is)) /\ Cardinality(liveImms(is)) \in Nat
         /\ liveImms(is) # {} => Cardinality(liveImms(is)) > 0
         /\ IsFiniteSet(reffedImms(is)) /\ Cardinality(reffedImms(is)) \in Nat
         /\ reffedImms(is) # {} => Cardinality(reffedImms(is)) > 0
<1>1. /\ Len(is) \in Nat
      /\ liveImms(is) \in SUBSET (1 .. Len(is)) /\ reffedImms(is) \in SUBSET (1 .. Len(is))
  BY DEF liveImms, reffedImms
<1>2. \A S \in SUBSET (1 .. Len(is)) :
         /\ IsFiniteSet(S) /\ Cardinality(S) \in Nat
         /\ S # {} => Cardinality(S) > 0
  <2> SUFFICES ASSUME NEW S \in SUBSET (1 .. Len(is))
               PROVE  /\ IsFiniteSet(S) /\ Cardinality(S) \in Nat
                      /\ S # {} => Cardinality(S) > 0
    OBVIOUS
  <2>1. /\ IsFiniteSet(S) /\ Cardinality(S) \in Nat
        /\ S = {} <=> Cardinality(S) = 0
    BY <1>1, PositionCount
  <2>2. S # {} => Cardinality(S) # 0
    BY <2>1, Zenon
  <2> QED
    BY <2>1, <2>2
<1> QED
  BY <1>1, <1>2

LEMMA ImmFields ==
  ASSUME NEW e \in ImmRec, NEW r \in BOOLEAN
  PROVE  /\ e.live \in BOOLEAN /\ e.reffed \in BOOLEAN
         /\ [e EXCEPT !.reffed = r] \in ImmRec
         /\ [e EXCEPT !.reffed = r].live = e.live /\ [e EXCEPT !.reffed = r].reffed = r
BY DEF ImmRec

\* One slot is rewritten.
Written(js, is, x, e) ==
    /\ is \in Seq(ImmRec) /\ x \in DOMAIN is /\ e \in ImmRec
    /\ js = [is EXCEPT ![x] = e]

LEMMA SlotCounts ==
  ASSUME NEW is, NEW x, NEW e, NEW js, Written(js, is, x, e)
  PROVE  /\ js \in Seq(ImmRec) /\ Len(js) = Len(is) /\ DOMAIN js = DOMAIN is
         /\ \A y \in DOMAIN is : y # x => js[y] = is[y]
         /\ js[x] = e
         /\ liveImms(js) = IF e.live THEN liveImms(is) \union {x} ELSE liveImms(is) \ {x}
         /\ reffedImms(js) = IF e.reffed THEN reffedImms(is) \union {x}
                                         ELSE reffedImms(is) \ {x}
<1>1. /\ js \in Seq(ImmRec) /\ Len(js) = Len(is) /\ DOMAIN js = DOMAIN is
      /\ \A y \in DOMAIN is : y # x => js[y] = is[y]
      /\ js[x] = e
  BY DEF Written
<1>2. liveImms(js) = IF e.live THEN liveImms(is) \union {x} ELSE liveImms(is) \ {x}
  BY <1>1 DEF liveImms, Written
<1>3. reffedImms(js) = IF e.reffed THEN reffedImms(is) \union {x} ELSE reffedImms(is) \ {x}
  BY <1>1 DEF reffedImms, Written
<1> QED
  BY <1>1, <1>2, <1>3

LEMMA ImmStep ==
  ASSUME LoopInv, [Next]_vars
  PROVE  ImmInv'
<1>0. /\ imms \in Seq(ImmRec) /\ end \in Nat /\ Len(imms) \in Nat
      /\ scr_pending_immediates = Cardinality(liveImms(imms))
      /\ scr_reffed_immediates = Cardinality(reffedImms(imms))
      /\ \A x \in DOMAIN imms : imms[x].reffed => imms[x].live
      /\ exit = "no" => end <= Len(imms)
  BY DEF LoopInv, ImmInv
<1> DEFINE L == liveImms(imms)
           R == reffedImms(imms)
<1>a. /\ IsFiniteSet(L) /\ Cardinality(L) \in Nat /\ (L # {} => Cardinality(L) > 0)
      /\ IsFiniteSet(R) /\ Cardinality(R) \in Nat /\ (R # {} => Cardinality(R) > 0)
  BY <1>0, ImmCounts
<1>1. ASSUME scr_set_immediate PROVE ImmInv'
  <2> DEFINE e == [live |-> TRUE, reffed |-> TRUE]
             n == Len(imms) + 1
  <2>1. e \in ImmRec /\ e.live /\ e.reffed
    BY DEF ImmRec
  <2>2. imms' = Append(imms, e) /\ end' = end /\ exit' = exit
    BY <1>1 DEF scr_set_immediate, Called
  <2> HIDE DEF e
  <2>3. /\ imms' \in Seq(ImmRec) /\ Len(imms') = n /\ n \notin DOMAIN imms
        /\ DOMAIN imms' = DOMAIN imms \union {n}
        /\ \A i \in DOMAIN imms : imms'[i] = imms[i]
        /\ imms'[n] = e
    BY <1>0, <2>1, <2>2, QueueJoin
  <2>4. liveImms(imms') = L \union {n} /\ n \notin L
    BY <2>1, <2>3 DEF liveImms
  <2>5. reffedImms(imms') = R \union {n} /\ n \notin R
    BY <2>1, <2>3 DEF reffedImms
  <2>6. /\ Cardinality(liveImms(imms')) = Cardinality(L) + 1
        /\ Cardinality(reffedImms(imms')) = Cardinality(R) + 1
    BY <1>a, <2>4, <2>5, FS_AddElement
  <2>7. /\ scr_pending_immediates' = Cardinality(L) + 1
        /\ scr_reffed_immediates' = Cardinality(R) + 1
    BY <1>0, <1>1 DEF scr_set_immediate
  <2>8. \A x \in DOMAIN imms' : imms'[x].reffed => imms'[x].live
    BY <1>0, <2>1, <2>3
  <2>9. exit' = "no" => end' <= Len(imms')
    BY <1>0, <2>2, <2>3
  <2> QED
    BY <1>0, <2>2, <2>3, <2>6, <2>7, <2>8, <2>9 DEF ImmInv
<1>2. ASSUME scr_clear_immediate PROVE ImmInv'
  <2>1. PICK x \in scr_immediate_find :
          /\ imms' = [imms EXCEPT ![x] = [live |-> FALSE, reffed |-> FALSE]]
          /\ scr_pending_immediates' = Less1(scr_pending_immediates)
          /\ scr_reffed_immediates' = IF imms[x].reffed THEN Less1(scr_reffed_immediates)
                                                        ELSE scr_reffed_immediates
    BY <1>2 DEF scr_clear_immediate
  <2>2. x \in DOMAIN imms /\ x \in L /\ (imms[x].reffed <=> x \in R)
    BY DEF scr_immediate_find, liveImms, reffedImms
  <2>3. /\ imms' \in Seq(ImmRec) /\ Len(imms') = Len(imms) /\ DOMAIN imms' = DOMAIN imms
        /\ \A y \in DOMAIN imms : y # x => imms'[y] = imms[y]
        /\ ~imms'[x].reffed
        /\ liveImms(imms') = L \ {x} /\ reffedImms(imms') = R \ {x}
    <3> DEFINE e == [live |-> FALSE, reffed |-> FALSE]
    <3>1. e \in ImmRec /\ ~e.live /\ ~e.reffed
      BY DEF ImmRec
    <3> HIDE DEF e
    <3>2. imms' = [imms EXCEPT ![x] = e]
      BY <2>1 DEF e
    <3>3. /\ imms' \in Seq(ImmRec) /\ Len(imms') = Len(imms) /\ DOMAIN imms' = DOMAIN imms
          /\ \A y \in DOMAIN imms : y # x => imms'[y] = imms[y]
          /\ imms'[x] = e
          /\ liveImms(imms') = IF e.live THEN liveImms(imms) \union {x} ELSE liveImms(imms) \ {x}
          /\ reffedImms(imms') = IF e.reffed THEN reffedImms(imms) \union {x}
                                             ELSE reffedImms(imms) \ {x}
      <4>1. Written(imms', imms, x, e)
        BY <1>0, <2>2, <3>1, <3>2 DEF Written
      <4> QED
        BY <4>1, SlotCounts
    <3> QED
      BY <3>1, <3>3
  <2>4. /\ Cardinality(L \ {x}) = Cardinality(L) - 1
        /\ Cardinality(R \ {x}) = IF x \in R THEN Cardinality(R) - 1 ELSE Cardinality(R)
    BY <1>a, <2>2, FS_RemoveElement
  <2>5. scr_pending_immediates' = Cardinality(liveImms(imms'))
    BY <1>0, <1>a, <2>1, <2>2, <2>3, <2>4 DEF Less1
  <2>6. scr_reffed_immediates' = Cardinality(reffedImms(imms'))
    BY <1>0, <1>a, <2>1, <2>2, <2>3, <2>4 DEF Less1
  <2>7. end' = end /\ exit' = exit
    BY <1>2 DEF scr_clear_immediate, Called
  <2>8. \A y \in DOMAIN imms' : imms'[y].reffed => imms'[y].live
    BY <1>0, <2>3
  <2> QED
    BY <1>0, <2>3, <2>5, <2>6, <2>7, <2>8 DEF ImmInv
<1>3. ASSUME NEW reffed \in BOOLEAN, scr_immediate_ref(reffed) PROVE ImmInv'
  <2>1. PICK x \in scr_immediate_find :
          imms[x].reffed # reffed /\ imms' = [imms EXCEPT ![x].reffed = reffed]
    BY <1>3 DEF scr_immediate_ref
  <2>2. x \in DOMAIN imms /\ imms[x].live /\ imms[x] \in ImmRec
    BY <1>0, QueuePositions DEF scr_immediate_find
  <2>3. PICK e \in ImmRec : imms' = [imms EXCEPT ![x] = e] /\ e.live = imms[x].live
                               /\ e.reffed = reffed
    <3> DEFINE e == [imms[x] EXCEPT !.reffed = reffed]
    <3>1. e \in ImmRec /\ e.live = imms[x].live /\ e.reffed = reffed
      BY <2>2, ImmFields
    <3>2. imms' = [imms EXCEPT ![x] = e]
      BY <2>1
    <3> HIDE DEF e
    <3> QED
      BY <3>1, <3>2
  <2>4. /\ imms' \in Seq(ImmRec) /\ Len(imms') = Len(imms) /\ DOMAIN imms' = DOMAIN imms
        /\ \A y \in DOMAIN imms : y # x => imms'[y] = imms[y]
        /\ imms'[x].live
        /\ liveImms(imms') = L \union {x}
        /\ reffedImms(imms') = IF reffed THEN R \union {x} ELSE R \ {x}
    <3>3. /\ imms' \in Seq(ImmRec) /\ Len(imms') = Len(imms) /\ DOMAIN imms' = DOMAIN imms
          /\ \A y \in DOMAIN imms : y # x => imms'[y] = imms[y]
          /\ imms'[x] = e
          /\ liveImms(imms') = IF e.live THEN liveImms(imms) \union {x} ELSE liveImms(imms) \ {x}
          /\ reffedImms(imms') = IF e.reffed THEN reffedImms(imms) \union {x}
                                             ELSE reffedImms(imms) \ {x}
      <4>1. Written(imms', imms, x, e)
        BY <1>0, <2>2, <2>3 DEF Written
      <4> QED
        BY <4>1, SlotCounts
    <3> QED
      BY <2>2, <2>3, <3>3
  <2>5. L \union {x} = L
    BY <2>2 DEF liveImms
  <2>6. UNCHANGED <<scr_pending_immediates, end, exit>>
    BY <1>3 DEF scr_immediate_ref, Called
  <2>7. scr_reffed_immediates' = Cardinality(reffedImms(imms'))
    <3>1. scr_reffed_immediates' = IF reffed THEN Cardinality(R) + 1 ELSE Less1(Cardinality(R))
      BY <1>0, <1>3 DEF scr_immediate_ref
    <3>2. imms[x].reffed \in BOOLEAN
      BY <2>2, ImmFields
    <3>3. CASE reffed
      <4>1. x \notin R
        BY <2>1, <3>2, <3>3 DEF reffedImms
      <4> QED
        BY <1>a, <2>4, <3>1, <3>3, <4>1, FS_AddElement
    <3>4. CASE ~reffed
      <4>1. x \in R
        BY <2>1, <2>2, <3>2, <3>4 DEF reffedImms
      <4>2. Cardinality(R \ {x}) = Cardinality(R) - 1 /\ Cardinality(R) > 0
        BY <1>a, <4>1, FS_RemoveElement
      <4> QED
        BY <1>a, <2>4, <3>1, <3>4, <4>2 DEF Less1
    <3> QED
      BY <3>3, <3>4
  <2>8. \A y \in DOMAIN imms' : imms'[y].reffed => imms'[y].live
    BY <1>0, <2>4
  <2> QED
    BY <1>0, <2>4, <2>5, <2>6, <2>7, <2>8 DEF ImmInv
<1>4. ASSUME RunImmediate PROVE ImmInv'
  <2>1. /\ end > 0 /\ exit = "no" /\ end' = end - 1 /\ imms' = Tail(imms)
        /\ exit' = exit
    BY <1>4 DEF RunImmediate, At, Start, loopVars
  <2>2. imms # <<>> /\ Len(imms) \in Nat \ {0}
    BY <1>0, <2>1
  <2>3. /\ imms' \in Seq(ImmRec) /\ Len(imms') = Len(imms) - 1
        /\ DOMAIN imms' = 1 .. (Len(imms) - 1)
        /\ \A i \in 1 .. (Len(imms) - 1) : imms'[i] = imms[i + 1]
        /\ Head(imms) = imms[1]
    BY <1>0, <2>1, <2>2, QueueLeave
  <2>4. DOMAIN imms = 1 .. Len(imms)
    BY <1>0
  <2>5. /\ L \in SUBSET (1 .. Len(imms))
        /\ liveImms(imms') = {i \in 1 .. (Len(imms) - 1) : i + 1 \in L}
        /\ 1 \in L <=> Head(imms).live
    BY <2>2, <2>3, <2>4 DEF liveImms
  <2>6. /\ R \in SUBSET (1 .. Len(imms))
        /\ reffedImms(imms') = {i \in 1 .. (Len(imms) - 1) : i + 1 \in R}
        /\ 1 \in R <=> Head(imms).reffed
    BY <2>2, <2>3, <2>4 DEF reffedImms
  <2>7. Head(imms).reffed => Head(imms).live
    BY <1>0, <2>2, <2>3, <2>4
  <2> HIDE DEF L, R
  <2>8. Cardinality(liveImms(imms')) = IF 1 \in L THEN Cardinality(L) - 1 ELSE Cardinality(L)
    BY <2>2, <2>5, PopCount
  <2>9. Cardinality(reffedImms(imms')) = IF 1 \in R THEN Cardinality(R) - 1 ELSE Cardinality(R)
    BY <2>2, <2>6, PopCount
  <2>10. scr_pending_immediates = Cardinality(L) /\ scr_reffed_immediates = Cardinality(R)
    BY <1>0 DEF L, R
  <2>11. CASE Head(imms).live
    <3>1. /\ scr_pending_immediates' = Less1(scr_pending_immediates)
          /\ scr_reffed_immediates' = IF Head(imms).reffed THEN Less1(scr_reffed_immediates)
                                                            ELSE scr_reffed_immediates
      BY <1>4, <2>11 DEF RunImmediate
    <3>2. scr_pending_immediates' = Cardinality(liveImms(imms'))
      BY <1>a, <2>5, <2>8, <2>10, <2>11, <3>1 DEF Less1
    <3>3. scr_reffed_immediates' = Cardinality(reffedImms(imms'))
      BY <1>a, <2>6, <2>9, <2>10, <3>1 DEF Less1
    <3>4. \A x \in DOMAIN imms' : imms'[x].reffed => imms'[x].live
      BY <1>0, <2>3, <2>4
    <3> QED
      BY <1>0, <2>1, <2>3, <3>2, <3>3, <3>4 DEF ImmInv
  <2>12. CASE ~Head(imms).live
    <3>1. UNCHANGED <<scr_pending_immediates, scr_reffed_immediates>>
      BY <1>4, <2>12 DEF RunImmediate
    <3>2. \A x \in DOMAIN imms' : imms'[x].reffed => imms'[x].live
      BY <1>0, <2>3, <2>4
    <3> QED
      BY <1>0, <2>1, <2>3, <2>5, <2>6, <2>7, <2>8, <2>9, <2>10, <2>12, <3>1, <3>2 DEF ImmInv
  <2> QED
    BY <2>11, <2>12
<1>5. ASSUME imms' = <<>>, scr_pending_immediates' = 0, scr_reffed_immediates' = 0,
             exit' # "no", end' = end
      PROVE  ImmInv'
  <2>1. imms' \in Seq(ImmRec) /\ DOMAIN imms' = {}
    BY <1>5
  <2>2. liveImms(imms') = {} /\ reffedImms(imms') = {}
    BY <2>1 DEF liveImms, reffedImms
  <2> QED
    BY <1>0, <1>5, <2>1, <2>2, FS_EmptySet DEF ImmInv
<1>6. ASSUME UNCHANGED <<imms, scr_pending_immediates, scr_reffed_immediates>>,
             exit' = "no" => exit = "no", end' \in {0, end, Len(imms)}
      PROVE  ImmInv'
  BY <1>0, <1>6 DEF ImmInv
<1>7. ASSUME UserCall PROVE ImmInv'
  <2>1. ASSUME \/ (\E d \in Delays : scr_set_timeout(d))
               \/ (\E d \in Delays, repeat \in BOOLEAN : scr_set_handle(d, repeat))
               \/ (\E id \in Ids : scr_clear_interval(id))
               \/ (\E id \in Ids, reffed \in BOOLEAN : scr_timer_ref(id, reffed))
               \/ (\E id \in Ids : scr_timer_refresh(id))
               \/ scr_next_tick \/ scr_queue_microtask
               \/ (\E p \in Prom : scr_await_settled(p))
               \/ (\E p \in Prom : scr_promise_mark_handled(p))
               \/ (\E p \in Prom, state \in {"fulfilled", "rejected"} :
                      scr_promise_settle_wake(p, state))
               \/ OpenSource \/ TimePasses \/ Catches
        PROVE  UNCHANGED immVars /\ exit' = exit
    BY <2>1 DEF scr_set_timeout, scr_set_handle, scr_clear_interval, scr_timer_ref,
       scr_timer_refresh, scr_next_tick, scr_queue_microtask, scr_await_settled,
       scr_promise_mark_handled, scr_promise_settle_wake, OpenSource, TimePasses, Catches,
       Called, immVars
  <2>2. UNCHANGED immVars /\ exit' = exit => ImmInv'
    BY <1>6 DEF immVars
  <2> QED
    BY <1>1, <1>2, <1>3, <1>7, <2>1, <2>2 DEF UserCall
<1>8. ASSUME LoopStep PROVE ImmInv'
  <2>1. ASSUME \/ RunTick \/ TicksDone \/ scr_resume_fiber \/ Dispatch \/ NextListener
               \/ BatchDone \/ Sleep
               \/ RunTimer \/ TimersDone \/ FinalReportDone
               \/ scr_report_unhandled_rejections \/ ImmediatesDone
        PROVE  UNCHANGED immVars /\ (exit' = "no" => exit = "no")
    BY <2>1 DEF RunTick, TicksDone, scr_resume_fiber, Dispatch, NextListener, BatchDone,
       Sleep, RunTimer, TimersDone,
       scr_report_unhandled_rejections, FinalReportDone, ImmediatesDone, immVars,
       Start, Goto, Uncaught, At, Final, loopVars
  <2>2. ASSUME Check \/ ImmediateJobsDone
        PROVE  /\ UNCHANGED <<imms, scr_pending_immediates, scr_reffed_immediates, exit>>
               /\ end' \in {0, end, Len(imms)}
    BY <2>2 DEF Check, ImmediateJobsDone, Goto
  <2>3. ASSUME Top \/ MicroDone \/ ReportDone \/ Alive
        PROVE  \/ UNCHANGED immVars /\ exit' = exit
               \/ /\ imms' = <<>> /\ scr_pending_immediates' = 0
                  /\ scr_reffed_immediates' = 0 /\ exit' # "no" /\ end' = end
    BY <2>3 DEF Top, MicroDone, ReportDone, Alive, Break, Goto, immVars
  <2>4. UNCHANGED immVars /\ (exit' = "no" => exit = "no") => ImmInv'
    BY <1>6 DEF immVars
  <2> QED
    BY <1>4, <1>5, <1>6, <1>8, <2>1, <2>2, <2>3, <2>4 DEF LoopStep
<1>9. ASSUME NEW throws, Returns(throws) PROVE ImmInv'
  <2>1. UNCHANGED immVars /\ (exit' = "no" => exit = "no")
    BY <1>9 DEF Returns, TickReturns, JobReturns, ListenerReturns, SourceReturns,
       TimerReturns, ImmediateReturns, Back, immVars
  <2> QED
    BY <1>6, <2>1 DEF immVars
<1>10. ASSUME MainReturns \/ Arrives \/ Stopped \/ UNCHANGED vars PROVE ImmInv'
  <2>1. UNCHANGED immVars /\ exit' = exit
    BY <1>10 DEF MainReturns, Arrives, Stopped, vars, immVars, loopVars
  <2> QED
    BY <1>6, <2>1 DEF immVars
<1> QED
  BY <1>7, <1>8, <1>9, <1>10 DEF Next, Throws

(***************************************************************************)
(* Control                                                                 *)
(***************************************************************************)
LEMMA ControlStep ==
  ASSUME LoopInv, [Next]_vars
  PROVE  ControlInv' /\ JobsInv'
<1> USE DEF ControlInv, JobsInv
<1>0. ControlInv /\ JobsInv
  BY DEF LoopInv
<1>1. ASSUME UserCall PROVE ControlInv' /\ JobsInv'
  <2>1. run # "loop" /\ UNCHANGED <<pc, run, exit>>
    BY <1>1 DEF UserCall, scr_set_timeout, scr_set_handle, scr_clear_interval, scr_timer_ref,
       scr_timer_refresh, scr_set_immediate, scr_clear_immediate, scr_immediate_ref,
       scr_next_tick, scr_queue_microtask, scr_await_settled, scr_promise_mark_handled,
       scr_promise_settle_wake, OpenSource, TimePasses, Catches, User, Called
  <2> QED
    BY <1>0, <2>1
<1>2. ASSUME LoopStep PROVE ControlInv' /\ JobsInv'
  <2> USE DEF At, Goto, Start
  <2>1. ASSUME Top \/ MicroDone \/ ReportDone \/ Alive PROVE ControlInv' /\ JobsInv'
    BY <1>0, <2>1 DEF Top, MicroDone, ReportDone, Alive, Break
  <2>2. ASSUME RunTick \/ TicksDone \/ scr_resume_fiber PROVE ControlInv' /\ JobsInv'
    BY <1>0, <2>2 DEF RunTick, TicksDone, scr_resume_fiber
  <2>3. ASSUME scr_report_unhandled_rejections \/ FinalReportDone
        PROVE  ControlInv' /\ JobsInv'
    BY <1>0, <2>3 DEF scr_report_unhandled_rejections, FinalReportDone, Final, loopVars
  <2>4. ASSUME Dispatch \/ Sleep \/ RunTimer \/ TimersDone PROVE ControlInv' /\ JobsInv'
    BY <1>0, <2>4 DEF Dispatch, Uncaught, Sleep, RunTimer, TimersDone
  <2>6. ASSUME NextListener \/ BatchDone PROVE ControlInv' /\ JobsInv'
    BY <1>0, <2>6 DEF NextListener, BatchDone
  <2>5. ASSUME Check \/ RunImmediate \/ ImmediateJobsDone \/ ImmediatesDone
        PROVE  ControlInv' /\ JobsInv'
    BY <1>0, <2>5 DEF Check, RunImmediate, ImmediateJobsDone, ImmediatesDone, loopVars
  <2> QED
    BY <1>2, <2>1, <2>2, <2>3, <2>4, <2>5, <2>6 DEF LoopStep
<1>3. ASSUME NEW throws, Returns(throws) PROVE ControlInv' /\ JobsInv'
  BY <1>0, <1>3 DEF Returns, TickReturns, JobReturns, ListenerReturns, SourceReturns,
     TimerReturns, ImmediateReturns, Back
<1>4. ASSUME MainReturns \/ Arrives \/ Stopped \/ UNCHANGED vars
      PROVE  ControlInv' /\ JobsInv'
  BY <1>0, <1>4 DEF MainReturns, Arrives, Stopped, vars, loopVars
<1> QED
  BY <1>1, <1>2, <1>3, <1>4 DEF Next, Throws

(***************************************************************************)
(* Theorems                                                                *)
(***************************************************************************)
\* What scr_loop_run and the loop's interface keep, in every state: the heap and
\* the queues are what the counts say, the handles are unique, and the loop
\* waits where the running callback was started.
THEOREM ScrLoopInvariant == Spec => []LoopInv
<1>1. Init => LoopInv
  <2> SUFFICES ASSUME Init PROVE LoopInv
    OBVIOUS
  <2>1. timers \in Seq(TimerRec) /\ DOMAIN timers = {} /\ imms \in Seq(ImmRec)
        /\ DOMAIN imms = {} /\ Len(imms) = 0
    BY DEF Init
  <2>2. reffedTimers(timers) = {} /\ liveImms(imms) = {} /\ reffedImms(imms) = {}
    BY <2>1 DEF reffedTimers, liveImms, reffedImms
  <2>3. TimersInv
    BY <2>1, <2>2, FS_EmptySet DEF Init, TimersInv, IdsInv, UniqueIds, NoFiring, FiringRec
  <2>4. ImmInv
    <3>1. Cardinality({}) = 0
      BY FS_EmptySet
    <3>2. /\ scr_pending_immediates = Cardinality(liveImms(imms))
          /\ scr_reffed_immediates = Cardinality(reffedImms(imms))
      BY <2>2, <3>1 DEF Init
    <3> QED
      BY <2>1, <3>2 DEF Init, ImmInv
  <2>5. ControlInv /\ JobsInv
    BY DEF Init, ControlInv, JobsInv
  <2> QED
    BY <2>3, <2>4, <2>5 DEF LoopInv
<1>2. LoopInv /\ [Next]_vars => LoopInv'
  BY TimersStep, ImmStep, ControlStep DEF LoopInv
<1> QED
  BY <1>1, <1>2, PTL DEF Spec

\* Handles and counts name what is armed (HandlesExact), through every clear, ref,
\* refresh, fire and re-arm of scr_async.c, for any number of timers.
THEOREM HandlesAreExact == Spec => []HandlesExact
<1>1. LoopInv => HandlesExact
  BY DEF LoopInv, TimersInv, ImmInv, IdsInv, UniqueIds, HandlesExact, reffedTimers,
     liveImms, reffedImms
<1> QED
  BY <1>1, ScrLoopInvariant, PTL

\* A timer, an immediate or the first listener of a source's batch starts only
\* with the ready queue drained: scr_loop_run's stations after the checkpoint.
THEOREM JobsRunFirst == Spec => MacrotasksWaitForJobs
<1> DEFINE A == run = "loop" /\ (run' \in {"timer", "imm"} \/ (run' = "source" /\ pc = "source"))
                  => ready = <<>>
<1>1. LoopInv /\ [Next]_vars => [A]_vars
  <2> SUFFICES ASSUME LoopInv, Next, run = "loop",
                      run' \in {"timer", "imm"} \/ (run' = "source" /\ pc = "source")
               PROVE  ready = <<>>
    OBVIOUS
  <2>1. JobsInv
    BY DEF LoopInv
  <2>2. ~UserCall
    BY DEF UserCall, scr_set_timeout, scr_set_handle, scr_clear_interval, scr_timer_ref,
       scr_timer_refresh, scr_set_immediate, scr_clear_immediate, scr_immediate_ref,
       scr_next_tick, scr_queue_microtask, scr_await_settled, scr_promise_mark_handled,
       scr_promise_settle_wake, OpenSource, TimePasses, Catches, User
  <2>3. ~MainReturns /\ ~Returns(FALSE) /\ ~Throws /\ ~Arrives /\ ~Stopped
    BY DEF MainReturns, Returns, TickReturns, JobReturns, ListenerReturns, SourceReturns,
       TimerReturns, ImmediateReturns, Back, Throws, Arrives, Stopped, vars, loopVars
  <2>4. Dispatch \/ RunTimer \/ RunImmediate
    BY <2>2, <2>3 DEF Next, LoopStep, Top, RunTick, TicksDone, scr_resume_fiber, MicroDone,
       scr_report_unhandled_rejections, ReportDone, FinalReportDone, Alive, Sleep,
       NextListener, BatchDone, TimersDone, Check, ImmediateJobsDone, ImmediatesDone,
       At, Goto, Start, Break, loopVars
  <2> QED
    BY <2>1, <2>4 DEF Dispatch, RunTimer, RunImmediate, At, JobsInv
<1> QED
  BY <1>1, ScrLoopInvariant, PTL DEF Spec, MacrotasksWaitForJobs

\* scr_loop_run leaves as drained only with nothing left to run: the counts it
\* decides by are exact, and the ready queue was drained on the way there.
THEOREM ExitsAreQuiescent == Spec => ExitIsQuiescent
<1> DEFINE A == exit = "no" /\ exit' = "drained" =>
                  /\ ticks = 0 /\ ready = <<>> /\ ~holds
                  /\ \A x \in DOMAIN timers : ~timers[x].reffed
                  /\ \A x \in DOMAIN imms : ~imms[x].reffed
<1>1. LoopInv /\ [Next]_vars => [A]_vars
  <2> SUFFICES ASSUME LoopInv, Next, exit = "no", exit' = "drained" PROVE A
    OBVIOUS
  <2>1. ~UserCall
    BY DEF UserCall, scr_set_timeout, scr_set_handle, scr_clear_interval, scr_timer_ref,
       scr_timer_refresh, scr_set_immediate, scr_clear_immediate, scr_immediate_ref,
       scr_next_tick, scr_queue_microtask, scr_await_settled, scr_promise_mark_handled,
       scr_promise_settle_wake, OpenSource, TimePasses, Catches, Called
  <2>2. ~MainReturns /\ ~Returns(FALSE) /\ ~Throws /\ ~Arrives /\ ~Stopped
    BY DEF MainReturns, Returns, TickReturns, JobReturns, ListenerReturns, SourceReturns,
       TimerReturns, ImmediateReturns, Back, Throws, Arrives, Stopped, vars, loopVars
  <2>3. Alive
    BY <2>1, <2>2 DEF Next, LoopStep, Top, RunTick, TicksDone, scr_resume_fiber, MicroDone,
       scr_report_unhandled_rejections, ReportDone, FinalReportDone, Sleep, Dispatch,
       NextListener, BatchDone,
       RunTimer, RunImmediate, TimersDone, Check, ImmediateJobsDone, ImmediatesDone,
       Goto, Start, Break, Uncaught, Final, loopVars
  <2>4. /\ run = "loop" /\ pc = "alive" /\ ticks = 0 /\ ~holds
        /\ ~(scr_reffed_timers > 0) /\ ~(scr_reffed_immediates > 0)
    BY <2>3 DEF Alive, At, alive, Goto
  <2>5. ready = <<>>
    BY <2>4 DEF LoopInv, JobsInv
  <2>6. reffedTimers(timers) = {}
    <3>1. /\ timers \in Seq(TimerRec)
          /\ scr_reffed_timers = Cardinality(reffedTimers(timers))
      BY DEF LoopInv, TimersInv
    <3>2. Len(timers) \in Nat /\ reffedTimers(timers) \in SUBSET (1 .. Len(timers))
      BY <3>1 DEF reffedTimers
    <3>3. /\ Cardinality(reffedTimers(timers)) \in Nat
          /\ reffedTimers(timers) = {} <=> Cardinality(reffedTimers(timers)) = 0
      BY <3>2, PositionCount
    <3> QED
      BY <2>4, <3>1, <3>3
  <2>7. reffedImms(imms) = {}
    <3>1. imms \in Seq(ImmRec) /\ scr_reffed_immediates = Cardinality(reffedImms(imms))
      BY DEF LoopInv, ImmInv
    <3> QED
      BY <2>4, <3>1, ImmCounts
  <2> QED
    BY <2>4, <2>5, <2>6, <2>7 DEF reffedTimers, reffedImms
<1> QED
  BY <1>1, ScrLoopInvariant, PTL DEF Spec, ExitIsQuiescent
=============================================================================

--------------------------- MODULE TimerHeapProofs ---------------------------
(***************************************************************************)
(* TLAPS proof that the array heap of TimerHeap implements TimerQueue, for *)
(* every bound on deadlines and pushes.                                    *)
(***************************************************************************)
EXTENDS TimerHeap, FiniteSetTheorems, FunctionTheorems, TLAPS

(***************************************************************************)
(* Facts about naturals, positions and sequences                           *)
(***************************************************************************)
\* A nonempty set of naturals has a smallest element.
LEMMA LeastNatural ==
  ASSUME NEW S \in SUBSET Nat, S # {}
  PROVE  \E x \in S : \A y \in S : x <= y
<1> DEFINE R == OpToRel(<, Nat)
<1>1. IsWellFoundedOn(R, Nat)
  BY NatLessThanWellFounded
<1>2. \A x, y \in Nat : y < x => <<y, x>> \in R
  BY DEF OpToRel
<1> HIDE DEF R
<1>3. \E x \in S : \A y \in S : ~(<<y, x>> \in R)
  BY <1>1, WFMin
<1>4. \A x, y \in Nat : ~(<<y, x>> \in R) => x <= y
  BY <1>2
<1>5. PICK x \in S : \A y \in S : ~(<<y, x>> \in R)
  BY <1>3
<1>6. \A y \in S : x <= y
  BY <1>4, <1>5
<1> QED
  BY <1>6

\* The positions of a queue, and where its entries are once one has joined the
\* tail or left the head.
LEMMA QueuePositions ==
  ASSUME NEW S, NEW q \in Seq(S)
  PROVE  /\ DOMAIN q = 1 .. Len(q) /\ Len(q) \in Nat
         /\ \A e \in DOMAIN q : \A k \in 1 .. e : k \in DOMAIN q
         /\ \A k \in DOMAIN q : q[k] \in S
         /\ q # <<>> => 1 \in DOMAIN q /\ Len(q) \in DOMAIN q /\ Head(q) = q[1]
OBVIOUS

LEMMA QueueJoin ==
  ASSUME NEW S, NEW q \in Seq(S), NEW n \in S
  PROVE  /\ Append(q, n) \in Seq(S) /\ Len(Append(q, n)) = Len(q) + 1
         /\ DOMAIN Append(q, n) = DOMAIN q \union {Len(q) + 1}
         /\ \A k \in DOMAIN q : k \in DOMAIN Append(q, n) /\ Append(q, n)[k] = q[k]
         /\ Append(q, n)[Len(q) + 1] = n
         /\ Len(q) + 1 \notin DOMAIN q
OBVIOUS

(***************************************************************************)
(* The inductive invariant.  Between operations every slot comes no        *)
(* earlier than its parent.  While siftUp is at I, slot I may come before  *)
(* its parent (and its children before it, when removeAt has put a         *)
(* stranger there); while siftDown is at I, its children may come before   *)
(* it.  In both, the children of I come no earlier than I's own parent:    *)
(* that is what lets a swap repair one level without breaking the next.    *)
(***************************************************************************)
TypeInv ==
  /\ arr \in Seq(Entries) /\ seq \in Nat
  /\ mode \in {"idle", "up", "down"} /\ I \in Nat /\ thenDown \in BOOLEAN
  /\ mode = "up" => I < len
  /\ mode = "down" => I <= len

\* Sequence numbers are distinct and already handed out.
SeqInv ==
  /\ \A i \in 1 .. len : arr[i].seq < seq
  /\ \A i, j \in 1 .. len : arr[i].seq = arr[j].seq => i = j

\* Slot k is exempt from the order while a sift is at its place.
Exempt(k) ==
  \/ mode = "up" /\ (k = I \/ (thenDown /\ parent(k) = I))
  \/ mode = "down" /\ parent(k) = I

OrderInv ==
  /\ \A k \in 1 .. (len - 1) : ~Exempt(k) => ~before(slot(k), slot(parent(k)))
  /\ mode # "idle" /\ I > 0 =>
       \A k \in 1 .. (len - 1) :
          parent(k) = I => ~before(slot(k), slot(parent(I)))

HeapInv == TypeInv /\ SeqInv /\ OrderInv

\* Positions of the tree: a parent comes before its two children.
LEMMA ParentFacts ==
  ASSUME NEW k \in Nat \ {0}
  PROVE  /\ parent(k) \in Nat /\ parent(k) < k
         /\ \A i \in Nat : parent(k) = i <=> k = 2 * i + 1 \/ k = 2 * i + 2
BY DEF parent

\* The order of entries: comparing no earlier is transitive, and entries with
\* different sequence numbers are comparable.
LEMMA OrderFacts ==
  ASSUME NEW a \in Entries, NEW b \in Entries, NEW c \in Entries
  PROVE  /\ ~before(b, a) /\ ~before(c, b) => ~before(c, a)
         /\ before(a, b) => ~before(b, a)
         /\ a.seq # b.seq /\ ~before(b, a) => before(a, b)
BY DEF before, Entries

\* A swap exchanges two slots and keeps the contents.
LEMMA SwapFacts ==
  ASSUME arr \in Seq(Entries), NEW i \in 0 .. (len - 1), NEW j \in 0 .. (len - 1),
         i # j, arr' = swapped(i, j)
  PROVE  /\ arr' \in Seq(Entries) /\ len' = len
         /\ slot(i)' = slot(j) /\ slot(j)' = slot(i)
         /\ \A k \in 0 .. (len - 1) : k # i /\ k # j => slot(k)' = slot(k)
         /\ Contents' = Contents
         /\ SeqInv /\ seq' = seq => SeqInv'
<1> USE DEF len, slot
<1>1. Len(arr) \in Nat /\ DOMAIN arr = 1 .. Len(arr)
  BY QueuePositions
<1>2. i + 1 \in DOMAIN arr /\ j + 1 \in DOMAIN arr /\ i + 1 # j + 1
  BY <1>1
<1>3. arr[i + 1] \in Entries /\ arr[j + 1] \in Entries
  BY <1>2, QueuePositions
<1>4. /\ DOMAIN arr' = DOMAIN arr
      /\ arr'[i + 1] = arr[j + 1] /\ arr'[j + 1] = arr[i + 1]
      /\ \A k \in DOMAIN arr : k # i + 1 /\ k # j + 1 => arr'[k] = arr[k]
  BY <1>2 DEF swapped
<1>5. arr' \in Seq(Entries) /\ Len(arr') = Len(arr)
  BY <1>1, <1>2, <1>3 DEF swapped
<1>6. \A k \in 0 .. (Len(arr) - 1) : k # i /\ k # j => arr'[k + 1] = arr[k + 1]
  BY <1>1, <1>4
<1>7. Contents' = Contents
  BY <1>1, <1>2, <1>4, <1>5 DEF Contents
<1>8. ASSUME SeqInv, seq' = seq PROVE SeqInv'
  <2> DEFINE from(k) == IF k = i + 1 THEN j + 1 ELSE IF k = j + 1 THEN i + 1 ELSE k
  <2>1. \A k \in 1 .. Len(arr) : from(k) \in 1 .. Len(arr) /\ arr'[k] = arr[from(k)]
    BY <1>1, <1>2, <1>4
  <2>2. \A k, l \in 1 .. Len(arr) : from(k) = from(l) => k = l
    BY <1>1, <1>2
  <2> HIDE DEF from
  <2>3. \A k \in 1 .. Len(arr) : arr'[k].seq < seq
    BY <1>8, <2>1 DEF SeqInv
  <2>4. ASSUME NEW k \in 1 .. Len(arr), NEW l \in 1 .. Len(arr),
               arr'[k].seq = arr'[l].seq
        PROVE  k = l
    <3> DEFINE x == from(k)
               y == from(l)
    <3>0. x \in 1 .. Len(arr) /\ y \in 1 .. Len(arr) /\ arr[x].seq = arr[y].seq
      BY <2>1, <2>4
    <3>1. \A v, w \in 1 .. Len(arr) : arr[v].seq = arr[w].seq => v = w
      BY <1>8 DEF SeqInv
    <3> HIDE DEF x, y
    <3>2. x = y
      BY <3>0, <3>1
    <3> QED
      BY <2>2, <3>2 DEF x, y
  <2> QED
    BY <1>5, <1>8, <2>3, <2>4 DEF SeqInv
<1> QED
  BY <1>4, <1>5, <1>6, <1>7, <1>8

\* Slot i is vacated: the last entry is moved into it, and the array holds one
\* entry less.
LEMMA VacateFacts ==
  ASSUME arr \in Seq(Entries), NEW i \in 0 .. (len - 1), SeqInv,
         arr' = vacated(i), seq' = seq
  PROVE  /\ arr' \in Seq(Entries) /\ len' = len - 1
         /\ \A k \in 0 .. (len - 2) : slot(k)' = IF k = i THEN slot(len - 1) ELSE slot(k)
         /\ Contents' = Contents \ {slot(i)}
         /\ slot(i) \in Contents
         /\ SeqInv'
<1> USE DEF len, slot
<1> DEFINE n == Len(arr)
           A == [arr EXCEPT ![i + 1] = arr[(n - 1) + 1]]
<1>1. n \in Nat \ {0} /\ DOMAIN arr = 1 .. n
  BY QueuePositions
<1>2. i + 1 \in DOMAIN arr /\ n \in DOMAIN arr /\ (n - 1) + 1 = n
  BY <1>1
<1>3. \A k \in 1 .. n : arr[k] \in Entries
  BY <1>1, QueuePositions
<1>4. A \in Seq(Entries) /\ Len(A) = n
  BY <1>1, <1>2, <1>3
<1>5. \A k \in 1 .. n : A[k] = IF k = i + 1 THEN arr[n] ELSE arr[k]
  BY <1>1, <1>2
<1>6. arr' = SubSeq(A, 1, n - 1)
  BY DEF vacated
<1> HIDE DEF A
<1>7. /\ arr' \in Seq(Entries) /\ Len(arr') = n - 1
      /\ \A k \in 1 .. (n - 1) : arr'[k] = A[k]
  BY <1>1, <1>4, <1>6
<1>8. \A k \in 1 .. (n - 1) : arr'[k] = IF k = i + 1 THEN arr[n] ELSE arr[k]
  BY <1>1, <1>5, <1>7
<1>9. \A k \in 0 .. (n - 2) :
         arr'[k + 1] = IF k = i THEN arr[(n - 1) + 1] ELSE arr[k + 1]
  <2> SUFFICES ASSUME NEW k \in 0 .. (n - 2)
               PROVE  arr'[k + 1] = IF k = i THEN arr[(n - 1) + 1] ELSE arr[k + 1]
    OBVIOUS
  <2>1. k + 1 \in 1 .. (n - 1) /\ (k + 1 = i + 1 <=> k = i)
    BY <1>1
  <2> QED
    BY <1>2, <1>8, <2>1
<1>10. SeqInv'
  <2> DEFINE from(k) == IF k = i + 1 THEN n ELSE k
  <2>1. \A k \in 1 .. (n - 1) : from(k) \in 1 .. n /\ arr'[k] = arr[from(k)]
    BY <1>1, <1>8
  <2>0. \A k, l \in 1 .. (n - 1) : from(k) = from(l) => k = l
    BY <1>1
  <2> HIDE DEF from
  <2>2. ASSUME NEW k \in 1 .. (n - 1) PROVE arr'[k].seq < seq
    BY <2>1 DEF SeqInv
  <2>3. ASSUME NEW k \in 1 .. (n - 1), NEW l \in 1 .. (n - 1),
               arr'[k].seq = arr'[l].seq
        PROVE  k = l
    <3> DEFINE x == from(k)
               y == from(l)
    <3>0. x \in 1 .. n /\ y \in 1 .. n /\ arr[x].seq = arr[y].seq
      BY <2>1, <2>3
    <3>1. \A v, w \in 1 .. n : arr[v].seq = arr[w].seq => v = w
      BY DEF SeqInv
    <3> HIDE DEF x, y
    <3>2. x = y
      BY <3>0, <3>1
    <3> QED
      BY <2>0, <3>2 DEF x, y
  <2> QED
    BY <1>7, <2>2, <2>3 DEF SeqInv
<1>11. \A x \in 1 .. n : x # i + 1 => arr[x] # arr[i + 1]
  BY <1>1, <1>2 DEF SeqInv
<1>12. Contents' = Contents \ {arr[i + 1]}
  <2>1. Contents' = {arr'[k] : k \in 1 .. (n - 1)} /\ Contents = {arr[k] : k \in 1 .. n}
    BY <1>7 DEF Contents
  <2>2. ASSUME NEW k \in 1 .. (n - 1) PROVE arr'[k] \in Contents \ {arr[i + 1]}
    <3>1. CASE k = i + 1
      BY <1>1, <1>2, <1>8, <1>11, <2>1, <3>1
    <3>2. CASE k # i + 1
      BY <1>1, <1>8, <1>11, <2>1, <3>2
    <3> QED
      BY <3>1, <3>2
  <2>3. ASSUME NEW x \in 1 .. n, arr[x] # arr[i + 1] PROVE arr[x] \in Contents'
    <3>1. CASE x = n
      <4>1. i + 1 \in 1 .. (n - 1) /\ arr'[i + 1] = arr[n]
        BY <1>1, <1>2, <1>8, <2>3, <3>1
      <4> QED
        BY <2>1, <3>1, <4>1
    <3>2. CASE x # n
      <4>0. x \in 1 .. (n - 1)
        <5> HIDE DEF n
        <5> QED
          BY <1>1, <2>3, <3>2
      <4>1. x \in 1 .. (n - 1) /\ arr'[x] = arr[x]
        BY <1>8, <2>3, <4>0
      <4> QED
        BY <2>1, <4>1
    <3> QED
      BY <3>1, <3>2
  <2> QED
    BY <2>1, <2>2, <2>3
<1>13. arr[i + 1] \in Contents
  BY <1>1, <1>2 DEF Contents
<1> QED
  BY <1>7, <1>9, <1>10, <1>12, <1>13

LEMMA SlotType ==
  ASSUME arr \in Seq(Entries)
  PROVE  len \in Nat /\ \A k \in 0 .. (len - 1) : slot(k) \in Entries
<1>1. Len(arr) \in Nat /\ DOMAIN arr = 1 .. Len(arr)
      /\ \A i \in DOMAIN arr : arr[i] \in Entries
  BY QueuePositions
<1>2. \A k \in 0 .. (Len(arr) - 1) : k + 1 \in DOMAIN arr
  BY <1>1
<1> QED
  BY <1>1, <1>2 DEF len, slot

\* One comparison of siftUp.
LEMMA SiftUpStep ==
  ASSUME HeapInv, siftUp
  PROVE  HeapInv' /\ Contents' = Contents
<1> USE DEF HeapInv
<1>0. /\ arr \in Seq(Entries) /\ seq \in Nat /\ I \in Nat /\ thenDown \in BOOLEAN
      /\ mode = "up" /\ I < len /\ len \in Nat
  BY SlotType DEF TypeInv, siftUp
<1>1. CASE I = 0 \/ ~before(slot(I), slot(parent(I)))
  <2>1. /\ mode' = IF thenDown THEN "down" ELSE "idle"
        /\ UNCHANGED <<arr, I, seq, thenDown>>
    BY <1>1 DEF siftUp
  <2>2. TypeInv' /\ SeqInv' /\ Contents' = Contents
    BY <1>0, <2>1 DEF TypeInv, SeqInv, Contents, len
  <2>3. OrderInv'
    <3>1. ASSUME NEW k \in 1 .. (len - 1), ~Exempt(k)'
          PROVE  ~before(slot(k), slot(parent(k)))
      <4>1. CASE k = I
        BY <1>1, <4>1, <1>0
      <4>2. CASE k # I
        <5>1. ~Exempt(k)
          BY <1>0, <2>1, <3>1, <4>2 DEF Exempt
        <5> QED
          BY <5>1 DEF OrderInv
      <4> QED
        BY <4>1, <4>2
    <3>2. len' = len /\ \A k : slot(k)' = slot(k)
      BY <2>1 DEF len, slot
    <3> QED
      BY <1>0, <2>1, <3>1, <3>2 DEF OrderInv
  <2> QED
    BY <2>2, <2>3
<1>2. CASE I # 0 /\ before(slot(I), slot(parent(I)))
  <2>0. PICK i \in Nat \ {0} : i = I
    BY <1>0, <1>2
  <2>1. PICK p \in Nat : p = parent(i) /\ p < i
    BY ParentFacts
  <2>2. /\ arr' = swapped(i, p) /\ I' = p
        /\ UNCHANGED <<mode, seq, thenDown>>
        /\ before(slot(i), slot(p))
    BY <1>2, <2>0, <2>1 DEF siftUp
  <2>3. i \in 0 .. (len - 1) /\ p \in 0 .. (len - 1) /\ p # i
    BY <1>0, <2>0, <2>1
  <2>4. /\ arr' \in Seq(Entries) /\ len' = len
        /\ slot(i)' = slot(p) /\ slot(p)' = slot(i)
        /\ \A k \in 0 .. (len - 1) : k # i /\ k # p => slot(k)' = slot(k)
        /\ Contents' = Contents /\ SeqInv'
    BY <1>0, <2>2, <2>3, SwapFacts
  <2>5. TypeInv'
    BY <1>0, <2>1, <2>2, <2>3, <2>4 DEF TypeInv
  <2>6. \A k \in 0 .. (len - 1) : slot(k) \in Entries
    BY <1>0, SlotType
  \* The order before the swap, at the places the swap touches.
  <2>7. /\ \A k \in 1 .. (len - 1) : parent(k) = i => ~before(slot(k), slot(p))
        /\ \A k \in 1 .. (len - 1) : k # i /\ parent(k) # i =>
              ~before(slot(k), slot(parent(k)))
    BY <1>0, <2>0, <2>1 DEF OrderInv, Exempt
  <2>8. \A k \in 1 .. (len - 1) : parent(k) \in 0 .. (len - 1) /\ parent(k) < k
    BY <1>0, ParentFacts
  <2>9. ASSUME NEW k \in 1 .. (len - 1), ~Exempt(k)'
        PROVE  ~before(slot(k)', slot(parent(k))')
    <3>0. k # p /\ (thenDown => parent(k) # p)
      BY <1>0, <2>2, <2>9 DEF Exempt
    <3>1. CASE parent(k) = i
      <4>1. k # i /\ slot(k)' = slot(k) /\ slot(parent(k))' = slot(p)
        BY <2>4, <2>8, <3>0, <3>1
      <4> QED
        BY <2>7, <3>1, <4>1
    <3>2. CASE k = i
      BY <2>1, <2>2, <2>3, <2>4, <2>6, <3>2, OrderFacts
    <3>3. CASE k # i /\ parent(k) = p
      <4>1. slot(k)' = slot(k) /\ slot(parent(k))' = slot(i)
        BY <2>4, <3>0, <3>3
      <4>2. parent(k) # i /\ ~before(slot(k), slot(p))
        BY <2>3, <2>7, <3>3
      <4>3. ~before(slot(p), slot(i))
        BY <2>2, <2>3, <2>6, OrderFacts
      <4>4. slot(k) \in Entries /\ slot(p) \in Entries /\ slot(i) \in Entries
        BY <2>3, <2>6
      <4> QED
        BY <4>1, <4>2, <4>3, <4>4, OrderFacts
    <3>4. CASE k # i /\ parent(k) # i /\ parent(k) # p
      <4>1. slot(k)' = slot(k) /\ slot(parent(k))' = slot(parent(k))
        BY <2>4, <2>8, <3>0, <3>4
      <4> QED
        BY <2>7, <3>4, <4>1
    <3> QED
      BY <3>1, <3>2, <3>3, <3>4
  <2>10. ASSUME NEW k \in 1 .. (len - 1), p > 0, parent(k) = p
         PROVE  ~before(slot(k)', slot(parent(p))')
    <3>0. PICK g \in Nat : g = parent(p) /\ g < p
      BY <2>1, <2>10, ParentFacts
    <3>1. g \in 0 .. (len - 1) /\ slot(g)' = slot(g)
      BY <1>0, <2>1, <2>3, <2>4, <3>0
    <3>2. ~before(slot(p), slot(g))
      BY <2>1, <2>3, <2>7, <2>10, <3>0
    <3>3. CASE k = i
      BY <2>4, <3>0, <3>1, <3>2, <3>3
    <3>4. CASE k # i
      <4>1. slot(k)' = slot(k) /\ k # p
        BY <2>4, <2>8, <2>10, <3>4
      <4>2. ~before(slot(k), slot(p))
        BY <2>3, <2>7, <2>10, <3>4
      <4>3. slot(k) \in Entries /\ slot(p) \in Entries /\ slot(g) \in Entries
        BY <2>3, <2>6, <3>1
      <4> QED
        BY <3>0, <3>1, <3>2, <4>1, <4>2, <4>3, OrderFacts
    <3> QED
      BY <3>3, <3>4
  <2>11. OrderInv'
    BY <2>2, <2>4, <2>9, <2>10 DEF OrderInv
  <2> QED
    BY <2>4, <2>5, <2>11
<1> QED
  BY <1>1, <1>2

\* One comparison of siftDown: it swaps with the earlier child.
LEMMA SmallestFacts ==
  ASSUME arr \in Seq(Entries), NEW i \in Nat, NEW m, m = smallest(i), i <= len
  PROVE  /\ m = i => \A k \in 1 .. (len - 1) :
                        parent(k) = i => ~before(slot(k), slot(i))
         /\ m # i => /\ m \in 1 .. (len - 1) /\ parent(m) = i /\ i < m
                     /\ before(slot(m), slot(i))
                     /\ \A k \in 1 .. (len - 1) :
                           parent(k) = i => ~before(slot(k), slot(m))
<1> DEFINE l == 2 * i + 1
           r == 2 * i + 2
           a == earlier(i, l)
<1>0. len \in Nat /\ \A k \in 0 .. (len - 1) : slot(k) \in Entries
  BY SlotType
<1>1. \A k \in 1 .. (len - 1) : parent(k) = i <=> k = l \/ k = r
  BY <1>0, ParentFacts
<1>2. /\ a = IF l < len /\ before(slot(l), slot(i)) THEN l ELSE i
      /\ m = IF r < len /\ before(slot(r), slot(a)) THEN r ELSE a
  BY DEF smallest, earlier
<1>3. l \in Nat /\ r \in Nat /\ i < l /\ i < r /\ l # r /\ 1 <= l /\ l < r
  OBVIOUS
<1> HIDE DEF l, r, a
<1>4. \A x, y, z \in 0 .. (len - 1) :
         /\ ~before(slot(y), slot(x)) /\ ~before(slot(z), slot(y)) => ~before(slot(z), slot(x))
         /\ before(slot(x), slot(y)) => ~before(slot(y), slot(x))
  BY <1>0, OrderFacts
<1>5. ASSUME NEW x \in 0 .. (len - 1) PROVE ~before(slot(x), slot(x))
  BY <1>4, <1>5
<1>6. CASE len <= l
  BY <1>0, <1>1, <1>2, <1>3, <1>6
<1>7. CASE l < len /\ len <= r
  <2>1. i \in 0 .. (len - 1) /\ l \in 1 .. (len - 1) /\ l \in 0 .. (len - 1)
    BY <1>0, <1>3, <1>7
  <2> QED
    BY <1>0, <1>1, <1>2, <1>3, <1>4, <1>5, <1>7, <2>1
<1>8. CASE r < len
  <2>1. /\ i \in 0 .. (len - 1) /\ l \in 1 .. (len - 1) /\ l \in 0 .. (len - 1)
        /\ r \in 1 .. (len - 1) /\ r \in 0 .. (len - 1)
    BY <1>0, <1>3, <1>8
  <2>2. CASE before(slot(l), slot(i))
    <3>1. a = l
      BY <1>0, <1>2, <1>3, <1>8, <2>1, <2>2
    <3>2. CASE before(slot(r), slot(l))
      BY <1>1, <1>2, <1>3, <1>4, <1>5, <1>8, <2>1, <2>2, <3>1, <3>2
    <3>3. CASE ~before(slot(r), slot(l))
      BY <1>1, <1>2, <1>3, <1>4, <1>5, <1>8, <2>1, <2>2, <3>1, <3>3
    <3> QED
      BY <3>2, <3>3
  <2>3. CASE ~before(slot(l), slot(i))
    <3>1. a = i
      BY <1>2, <1>3, <1>8, <2>1, <2>3
    <3>2. CASE before(slot(r), slot(i))
      <4>1. m = r /\ ~before(slot(l), slot(r))
        BY <1>2, <1>4, <1>8, <2>1, <2>3, <3>1, <3>2
      <4> QED
        BY <1>1, <1>3, <1>5, <2>1, <3>2, <4>1
    <3>3. CASE ~before(slot(r), slot(i))
      BY <1>1, <1>2, <1>3, <1>4, <1>5, <1>8, <2>1, <2>3, <3>1, <3>3
    <3> QED
      BY <3>2, <3>3
  <2> QED
    BY <2>2, <2>3
<1> QED
  BY <1>0, <1>3, <1>6, <1>7, <1>8

LEMMA SiftDownStep ==
  ASSUME HeapInv, siftDown
  PROVE  HeapInv' /\ Contents' = Contents
<1> USE DEF HeapInv
<1>0. /\ arr \in Seq(Entries) /\ seq \in Nat /\ I \in Nat /\ thenDown \in BOOLEAN
      /\ mode = "down" /\ I <= len /\ len \in Nat
  BY SlotType DEF TypeInv, siftDown
<1>1. PICK i \in Nat : i = I
  BY <1>0
<1>2. PICK m : m = smallest(i)
  OBVIOUS
<1>3. /\ \A k \in 1 .. (len - 1) : parent(k) # i => ~before(slot(k), slot(parent(k)))
      /\ i > 0 => \A k \in 1 .. (len - 1) :
                     parent(k) = i => ~before(slot(k), slot(parent(i)))
  BY <1>0, <1>1 DEF OrderInv, Exempt
<1>4. CASE m = i
  <2>1. mode' = "idle" /\ UNCHANGED <<arr, I, seq, thenDown>>
    BY <1>1, <1>2, <1>4 DEF siftDown
  <2>2. TypeInv' /\ SeqInv' /\ Contents' = Contents
    BY <1>0, <2>1 DEF TypeInv, SeqInv, Contents, len
  <2>3. \A k \in 1 .. (len - 1) : ~before(slot(k), slot(parent(k)))
    BY <1>0, <1>1, <1>2, <1>3, <1>4, SmallestFacts
  <2>4. len' = len /\ \A k : slot(k)' = slot(k)
    BY <2>1 DEF len, slot
  <2>5. OrderInv'
    BY <2>1, <2>3, <2>4 DEF OrderInv
  <2> QED
    BY <2>2, <2>5
<1>5. CASE m # i
  <2>1. /\ arr' = swapped(i, m) /\ I' = m
        /\ UNCHANGED <<mode, seq, thenDown>>
    BY <1>1, <1>2, <1>5 DEF siftDown
  <2>2. /\ m \in 1 .. (len - 1) /\ parent(m) = i /\ i < m
        /\ before(slot(m), slot(i))
        /\ \A k \in 1 .. (len - 1) : parent(k) = i => ~before(slot(k), slot(m))
    BY <1>0, <1>1, <1>2, <1>5, SmallestFacts
  <2>3. i \in 0 .. (len - 1) /\ m \in 0 .. (len - 1) /\ i # m
    BY <1>0, <2>2
  <2>4. /\ arr' \in Seq(Entries) /\ len' = len
        /\ slot(i)' = slot(m) /\ slot(m)' = slot(i)
        /\ \A k \in 0 .. (len - 1) : k # i /\ k # m => slot(k)' = slot(k)
        /\ Contents' = Contents /\ SeqInv'
    BY <1>0, <2>1, <2>3, SwapFacts
  <2>5. TypeInv'
    BY <1>0, <2>1, <2>3, <2>4 DEF TypeInv
  <2>6. \A k \in 0 .. (len - 1) : slot(k) \in Entries
    BY <1>0, SlotType
  <2>7. \A k \in 1 .. (len - 1) :
           k \in 0 .. (len - 1) /\ parent(k) \in 0 .. (len - 1) /\ parent(k) < k
    BY <1>0, ParentFacts
  <2>8. ASSUME NEW k \in 1 .. (len - 1), parent(k) # m
        PROVE  ~before(slot(k)', slot(parent(k))')
    <3>1. CASE k = i
      <4>1. slot(k)' = slot(m) /\ slot(parent(k))' = slot(parent(i)) /\ i > 0
        BY <2>2, <2>4, <2>7, <3>1
      <4> QED
        BY <1>3, <2>2, <3>1, <4>1
    <3>2. CASE k = m
      <4>1. slot(k)' = slot(i) /\ slot(parent(k))' = slot(m)
        BY <2>2, <2>4, <3>2
      <4> QED
        BY <2>2, <2>3, <2>6, <4>1, OrderFacts
    <3>3. CASE k # i /\ k # m /\ parent(k) = i
      <4>1. slot(k)' = slot(k) /\ slot(parent(k))' = slot(m)
        BY <2>4, <2>7, <3>3
      <4> QED
        BY <2>2, <3>3, <4>1
    <3>4. CASE k # i /\ k # m /\ parent(k) # i
      <4>1. slot(k)' = slot(k) /\ slot(parent(k))' = slot(parent(k))
        BY <2>4, <2>7, <2>8, <3>4
      <4> QED
        BY <1>3, <3>4, <4>1
    <3> QED
      BY <3>1, <3>2, <3>3, <3>4
  <2>9. ASSUME NEW k \in 1 .. (len - 1), parent(k) = m
        PROVE  ~before(slot(k)', slot(parent(m))')
    <3>1. k # i /\ k # m /\ parent(k) # i
      BY <1>0, <2>2, <2>7, <2>9
    <3>2. slot(k)' = slot(k) /\ slot(parent(m))' = slot(m)
      BY <2>2, <2>4, <2>7, <3>1
    <3> QED
      BY <1>3, <2>9, <3>1, <3>2
  <2>10. OrderInv'
    BY <1>0, <2>1, <2>4, <2>8, <2>9 DEF OrderInv, Exempt
  <2> QED
    BY <2>4, <2>5, <2>10
<1> QED
  BY <1>4, <1>5

\* A new entry is appended, and siftUp starts at its place.
LEMMA PushStep ==
  ASSUME HeapInv, NEW d \in Nat, push(d)
  PROVE  /\ HeapInv'
         /\ Contents' = Contents \union {[deadline |-> d, seq |-> seq]}
         /\ \A u \in Contents : u.seq < seq
         /\ [deadline |-> d, seq |-> seq] \in Entries
<1> USE DEF HeapInv
<1> DEFINE t == [deadline |-> d, seq |-> seq]
<1>0. /\ arr \in Seq(Entries) /\ seq \in Nat /\ len \in Nat /\ t \in Entries
      /\ t.seq = seq /\ mode = "idle"
  BY SlotType DEF TypeInv, Entries, push
<1>1. /\ arr' = Append(arr, t) /\ seq' = seq + 1
      /\ mode' = "up" /\ I' = len /\ thenDown' = FALSE
  BY DEF push
<1> HIDE DEF t
<1>2. /\ arr' \in Seq(Entries) /\ len' = len + 1
      /\ \A i \in 1 .. len : arr'[i] = arr[i]
      /\ arr'[len + 1] = t
  BY <1>0, <1>1, QueueJoin, QueuePositions DEF len
<1>3. TypeInv'
  <2>1. I' \in Nat /\ I' < len' /\ seq' \in Nat
    BY <1>0, <1>1, <1>2
  <2>2. mode' \in {"idle", "up", "down"} /\ mode' # "down" /\ thenDown' \in BOOLEAN
    BY <1>1
  <2> QED
    BY <1>2, <2>1, <2>2 DEF TypeInv
<1>4. SeqInv'
  <2>1. \A i \in 1 .. len : arr[i].seq \in Nat
    <3>1. \A i \in 1 .. len : arr[i] \in Entries
      BY <1>0, QueuePositions DEF len
    <3> QED
      BY <3>1 DEF Entries
  <2>2. \A i \in 1 .. (len + 1) : i \in 1 .. len \/ i = len + 1
    BY <1>0
  <2>3. \A i \in 1 .. (len + 1) : arr'[i].seq < seq + 1
    BY <1>0, <1>2, <2>1, <2>2 DEF SeqInv
  <2>4. ASSUME NEW i \in 1 .. (len + 1), NEW j \in 1 .. (len + 1),
               arr'[i].seq = arr'[j].seq
        PROVE  i = j
    <3>1. CASE i \in 1 .. len /\ j \in 1 .. len
      BY <1>2, <2>4, <3>1 DEF SeqInv
    <3>2. CASE i \in 1 .. len /\ j = len + 1
      BY <1>0, <1>2, <2>1, <2>4, <3>2 DEF SeqInv
    <3>3. CASE i = len + 1 /\ j \in 1 .. len
      BY <1>0, <1>2, <2>1, <2>4, <3>3 DEF SeqInv
    <3> QED
      BY <2>2, <3>1, <3>2, <3>3
  <2> QED
    BY <1>1, <1>2, <2>3, <2>4 DEF SeqInv
<1>5. OrderInv'
  <2>1. \A k \in 0 .. (len - 1) : slot(k)' = slot(k)
    BY <1>0, <1>2 DEF slot
  <2>2. \A k \in 1 .. len : k # len => k \in 1 .. (len - 1)
    BY <1>0
  <2>3. \A k \in 1 .. (len - 1) :
           k \in 0 .. (len - 1) /\ parent(k) \in 0 .. (len - 1)
    BY <1>0, ParentFacts
  <2>4. \A k \in 1 .. len : parent(k) < len
    BY <1>0, ParentFacts
  <2>5. \A k \in 1 .. (len - 1) : ~before(slot(k), slot(parent(k)))
    BY <1>0 DEF OrderInv, Exempt
  <2>6. ASSUME NEW k \in 1 .. len, k # len
        PROVE  ~before(slot(k)', slot(parent(k))')
    BY <2>1, <2>2, <2>3, <2>5, <2>6
  <2>7. (len + 1) - 1 = len
    BY <1>0
  <2> QED
    BY <1>0, <1>1, <1>2, <2>4, <2>6, <2>7 DEF OrderInv, Exempt
<1>6. Contents' = Contents \union {t}
  <2>1. Contents' = {arr'[i] : i \in 1 .. (len + 1)} /\ Contents = {arr[i] : i \in 1 .. len}
    BY <1>2 DEF Contents
  <2>2. \A i \in 1 .. (len + 1) : i \in 1 .. len \/ i = len + 1
    BY <1>0
  <2>3. 1 .. len \subseteq 1 .. (len + 1) /\ len + 1 \in 1 .. (len + 1)
    BY <1>0
  <2> QED
    BY <1>2, <2>1, <2>2, <2>3
<1>7. \A u \in Contents : u.seq < seq
  BY DEF Contents, SeqInv
<1> QED
  BY <1>0, <1>3, <1>4, <1>5, <1>6, <1>7 DEF t

\* The root of an ordered heap comes before every other entry.
LEMMA RootFirst ==
  ASSUME HeapInv, mode = "idle", len > 0
  PROVE  \A u \in Contents \ {slot(0)} : before(slot(0), u)
<1> USE DEF HeapInv
<1>0. /\ arr \in Seq(Entries) /\ len \in Nat
      /\ \A k \in 0 .. (len - 1) : slot(k) \in Entries
  BY SlotType DEF TypeInv
<1>1. \A k \in 1 .. (len - 1) : ~before(slot(k), slot(parent(k)))
  BY DEF OrderInv, Exempt
<1> DEFINE Bad == {k \in 0 .. (len - 1) : before(slot(k), slot(0))}
<1>2. Bad = {}
  <2> SUFFICES ASSUME Bad # {} PROVE FALSE
    OBVIOUS
  <2>1. Bad \in SUBSET Nat
    BY <1>0
  <2>2. PICK k \in Bad : \A j \in Bad : k <= j
    BY <2>1, LeastNatural
  <2>3. k \in 0 .. (len - 1) /\ before(slot(k), slot(0))
    OBVIOUS
  <2>4. k # 0
    BY <1>0, <2>3, OrderFacts
  <2>5. k \in 1 .. (len - 1) /\ parent(k) \in 0 .. (len - 1) /\ parent(k) < k
    BY <1>0, <2>3, <2>4, ParentFacts
  <2>6. ~before(slot(parent(k)), slot(0))
    BY <1>0, <2>2, <2>5
  <2>7. slot(0) \in Entries
    BY <1>0
  <2> QED
    BY <1>0, <1>1, <2>3, <2>5, <2>6, <2>7, OrderFacts
<1>3. ASSUME NEW u \in Contents \ {slot(0)} PROVE before(slot(0), u)
  <2>1. PICK i \in 1 .. len : u = arr[i]
    BY DEF Contents
  <2>2. PICK k \in 0 .. (len - 1) : i = k + 1
    <3>1. i - 1 \in 0 .. (len - 1) /\ i = (i - 1) + 1
      BY <1>0
    <3> QED
      BY <3>1
  <2>3. u = slot(k) /\ k # 0
    BY <1>3, <2>1, <2>2 DEF slot
  <2>4. slot(0) = arr[1] /\ 1 \in 1 .. len /\ i # 1
    BY <1>0, <2>2, <2>3 DEF slot
  <2>5. u.seq # slot(0).seq
    BY <2>1, <2>4 DEF SeqInv
  <2>6. ~before(u, slot(0)) /\ u \in Entries /\ slot(0) \in Entries
    BY <1>0, <1>2, <2>3
  <2> QED
    BY <2>5, <2>6, OrderFacts
<1> QED
  BY <1>3

\* pop and removeAt: slot i is vacated, and the sift that repairs the order
\* starts there, unless the vacated slot was the last.
LEMMA VacateStep ==
  ASSUME HeapInv, mode = "idle", NEW i \in 0 .. (len - 1),
         arr' = vacated(i), seq' = seq,
         thenDown' \in BOOLEAN,
         \/ i = 0 /\ mode' = "down" /\ I' = 0
         \/ i < len - 1 /\ mode' = "up" /\ I' = i /\ thenDown' = TRUE
         \/ i = len - 1 /\ mode' = "idle" /\ I' \in Nat
  PROVE  HeapInv'
<1> USE DEF HeapInv
<1>0. /\ arr \in Seq(Entries) /\ seq \in Nat /\ len \in Nat
      /\ \A k \in 0 .. (len - 1) : slot(k) \in Entries
  BY SlotType DEF TypeInv
<1>1. /\ arr' \in Seq(Entries) /\ len' = len - 1
      /\ \A k \in 0 .. (len - 2) : slot(k)' = IF k = i THEN slot(len - 1) ELSE slot(k)
      /\ SeqInv'
  BY <1>0, VacateFacts
<1>2. TypeInv'
  <2>1. I' \in Nat /\ (mode' = "up" => I' < len') /\ (mode' = "down" => I' <= len')
    BY <1>0, <1>1
  <2>2. mode' \in {"idle", "up", "down"}
    OBVIOUS
  <2> QED
    BY <1>0, <1>1, <2>1, <2>2 DEF TypeInv
<1>3. \A k \in 1 .. (len - 2) :
         /\ k \in 1 .. (len - 1) /\ k \in 0 .. (len - 2)
         /\ parent(k) \in 0 .. (len - 2) /\ parent(k) < k
  BY <1>0, ParentFacts
<1>4. \A k \in 1 .. (len - 1) : ~before(slot(k), slot(parent(k)))
  BY DEF OrderInv, Exempt
<1>5. ASSUME NEW k \in 1 .. (len - 2), k # i, parent(k) # i
      PROVE  ~before(slot(k)', slot(parent(k))')
  BY <1>1, <1>3, <1>4, <1>5
<1>6. ASSUME NEW k \in 1 .. (len - 2), parent(k) = i, i > 0
      PROVE  ~before(slot(k)', slot(parent(i))')
  <2>0. PICK g \in Nat : g = parent(i) /\ g < i
    BY <1>0, <1>6, ParentFacts
  <2>1. g \in 0 .. (len - 1) /\ g \in 0 .. (len - 2) /\ g # i
    BY <1>0, <2>0, <1>3, <1>6
  <2>2. slot(k)' = slot(k) /\ slot(g)' = slot(g)
    BY <1>0, <1>1, <1>3, <1>6, <2>1
  <2>3. ~before(slot(k), slot(i)) /\ ~before(slot(i), slot(g))
    BY <1>0, <1>3, <1>4, <1>6, <2>0
  <2>4. slot(k) \in Entries /\ slot(i) \in Entries /\ slot(g) \in Entries
    BY <1>0, <2>1, <1>3
  <2> QED
    BY <2>0, <2>2, <2>3, <2>4, OrderFacts
<1>7. len' - 1 = len - 2
  BY <1>0, <1>1
<1>8. CASE i = 0 /\ mode' = "down" /\ I' = 0
  <2>1. \A k \in 1 .. (len - 2) : k # i
    BY <1>8
  <2> QED
    BY <1>1, <1>2, <1>5, <1>7, <1>8, <2>1 DEF OrderInv, Exempt
<1>9. CASE i < len - 1 /\ mode' = "up" /\ I' = i /\ thenDown' = TRUE
  BY <1>1, <1>2, <1>5, <1>6, <1>7, <1>9 DEF OrderInv, Exempt
<1>10. CASE i = len - 1 /\ mode' = "idle"
  <2>1. \A k \in 1 .. (len - 2) : k # i /\ parent(k) # i
    BY <1>0, <1>3, <1>10
  <2> QED
    BY <1>1, <1>2, <1>5, <1>7, <1>10, <2>1 DEF OrderInv
<1> QED
  BY <1>8, <1>9, <1>10

LEMMA PopStep ==
  ASSUME HeapInv, pop
  PROVE  /\ HeapInv' /\ Contents' = Contents \ {slot(0)}
         /\ slot(0) \in Contents /\ TOP' = slot(0)
         /\ \A u \in Contents \ {slot(0)} : before(slot(0), u)
<1>0. /\ mode = "idle" /\ len > 0 /\ arr' = vacated(0) /\ seq' = seq
      /\ mode' = "down" /\ I' = 0 /\ thenDown' = thenDown /\ TOP' = slot(0)
  BY DEF pop
<1>1. /\ 0 \in 0 .. (len - 1) /\ thenDown' \in BOOLEAN
      /\ arr \in Seq(Entries) /\ SeqInv
  BY <1>0, SlotType DEF HeapInv, TypeInv
<1>2. HeapInv'
  BY <1>0, <1>1, VacateStep
<1>3. Contents' = Contents \ {slot(0)} /\ slot(0) \in Contents
  BY <1>0, <1>1, VacateFacts
<1> QED
  BY <1>0, <1>2, <1>3, RootFirst

LEMMA RemoveStep ==
  ASSUME HeapInv, NEW i \in 0 .. (len - 1), removeAt(i)
  PROVE  /\ HeapInv' /\ Contents' = Contents \ {slot(i)}
         /\ slot(i) \in Contents /\ TOP' = None
<1>0. /\ mode = "idle" /\ arr' = vacated(i) /\ seq' = seq /\ TOP' = None
  BY DEF removeAt
<1>1. arr \in Seq(Entries) /\ SeqInv /\ len \in Nat /\ I \in Nat /\ thenDown \in BOOLEAN
  BY SlotType DEF HeapInv, TypeInv
<1>2. /\ thenDown' \in BOOLEAN
      /\ \/ i < len - 1 /\ mode' = "up" /\ I' = i /\ thenDown' = TRUE
         \/ i = len - 1 /\ mode' = "idle" /\ I' \in Nat
  <2>1. CASE i >= len - 1
    <3>1. UNCHANGED <<mode, I, thenDown>> /\ i = len - 1
      BY <1>1, <2>1 DEF removeAt
    <3> QED
      BY <1>0, <1>1, <3>1
  <2>2. CASE ~(i >= len - 1)
    <3>1. mode' = "up" /\ I' = i /\ thenDown' = TRUE /\ i < len - 1
      BY <1>1, <2>2 DEF removeAt
    <3> QED
      BY <3>1
  <2> QED
    BY <2>1, <2>2
<1>3. HeapInv'
  BY <1>0, <1>1, <1>2, VacateStep
<1>4. Contents' = Contents \ {slot(i)} /\ slot(i) \in Contents
  BY <1>0, <1>1, VacateFacts
<1> QED
  BY <1>0, <1>3, <1>4

\* The heap is ordered up to the sift in progress, and its entries carry
\* distinct sequence numbers, in every reachable state.
THEOREM HeapInvariant == Spec => []HeapInv
<1>1. Init => HeapInv
  <2> SUFFICES ASSUME Init PROVE HeapInv
    OBVIOUS
  <2>1. len = 0 /\ arr \in Seq(Entries)
    BY DEF Init, len
  <2>2. 1 .. 0 = {} /\ 1 .. (0 - 1) = {}
    OBVIOUS
  <2> QED
    BY <2>1, <2>2 DEF Init, HeapInv, TypeInv, SeqInv, OrderInv
<1>2. HeapInv /\ [Next]_vars => HeapInv'
  <2> SUFFICES ASSUME HeapInv, [Next]_vars PROVE HeapInv'
    OBVIOUS
  <2>1. ASSUME NEW d \in 0 .. MaxDeadline, push(d) PROVE HeapInv'
    <3>1. d \in Nat
      BY HeapAssumption
    <3> QED
      BY <2>1, <3>1, PushStep
  <2>2. ASSUME UNCHANGED vars PROVE HeapInv'
    BY <2>2 DEF vars, HeapInv, TypeInv, SeqInv, OrderInv, Exempt, len, slot
  <2> QED
    BY <2>1, <2>2, PopStep, RemoveStep, SiftUpStep, SiftDownStep DEF Next
<1> QED
  BY <1>1, <1>2, PTL DEF Spec

\* The array heap implements the timer queue: pop answers the first timer in
\* (deadline, seq) order, an operation adds or removes exactly its own entry,
\* and the sifts leave the contents alone.
THEOREM HeapImplementsQueue == Spec => ImplementsTimerQueue
<1>1. Init => TQ!Init
  BY DEF Init, TQ!Init, Contents, len
<1>2. HeapInv /\ [Next]_vars => [TQ!Next]_<<Contents, TOP>>
  <2> SUFFICES ASSUME HeapInv, [Next]_vars
               PROVE  TQ!Next \/ UNCHANGED <<Contents, TOP>>
    OBVIOUS
  <2>1. ASSUME NEW d \in 0 .. MaxDeadline, push(d) PROVE TQ!Next
    <3> DEFINE t == [deadline |-> d, seq |-> seq]
    <3>0. d \in Nat
      BY HeapAssumption
    <3>1. /\ Contents' = Contents \union {t} /\ t \in Entries
          /\ \A u \in Contents : u.seq < seq
      BY <2>1, <3>0, PushStep
    <3>2. TOP' = None /\ t.seq = seq
      BY <2>1 DEF push
    <3> HIDE DEF t
    <3> QED
      BY <3>1, <3>2 DEF TQ!Next, TQ!Push, TQ!Entries, Entries
  <2>2. ASSUME pop PROVE TQ!Next
    <3>1. /\ Contents' = Contents \ {slot(0)}
          /\ slot(0) \in Contents /\ TOP' = slot(0)
          /\ \A u \in Contents \ {slot(0)} : before(slot(0), u)
      BY <2>2, PopStep
    <3>2. TQ!Pop(slot(0))
      BY <3>1 DEF TQ!Pop, TQ!before, before
    <3> QED
      BY <3>1, <3>2 DEF TQ!Next
  <2>3. ASSUME NEW i \in 0 .. (len - 1), removeAt(i) PROVE TQ!Next
    <3>1. Contents' = Contents \ {slot(i)} /\ slot(i) \in Contents /\ TOP' = None
      BY <2>3, RemoveStep
    <3> QED
      BY <3>1 DEF TQ!Next, TQ!Remove
  <2>4. ASSUME siftUp PROVE UNCHANGED <<Contents, TOP>>
    BY <2>4, SiftUpStep DEF siftUp
  <2>5. ASSUME siftDown PROVE UNCHANGED <<Contents, TOP>>
    BY <2>5, SiftDownStep DEF siftDown
  <2>6. ASSUME UNCHANGED vars PROVE UNCHANGED <<Contents, TOP>>
    BY <2>6 DEF vars, Contents, len
  <2> QED
    BY <2>1, <2>2, <2>3, <2>4, <2>5, <2>6 DEF Next
<1> QED
  BY <1>1, <1>2, HeapInvariant, PTL DEF Spec, ImplementsTimerQueue, TQ!Spec
=============================================================================

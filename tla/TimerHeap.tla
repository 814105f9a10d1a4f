------------------------------ MODULE TimerHeap ------------------------------
(***************************************************************************)
(* The binary heap of armed timers, one array access at a time             *)
(* (packages/compiler/src/backend/wasm/timers.ts: before, siftUp,          *)
(* siftDown, push, pop, removeAt; scr_async.c keeps the same heap).        *)
(*                                                                         *)
(* An entry is reduced to what the order reads.  The array is the sequence *)
(* of its first `len` slots; indices are the code's, from 0.  Growing the  *)
(* backing store copies the slots and is not modelled.                     *)
(***************************************************************************)
EXTENDS Integers, Sequences

CONSTANTS
    None,          \* no timer
    MaxDeadline,   \* bound on deadlines
    MaxPush        \* bound on the number of pushes

ASSUME HeapAssumption == MaxDeadline \in Nat /\ MaxPush \in Nat

VARIABLES
    arr,         \* the heap array
    seq,         \* next sequence number
    mode,        \* "idle", "up" (in siftUp) or "down" (in siftDown)
    I,           \* the sift's index
    thenDown,    \* siftUp was called by removeAt, which sifts down next
    TOP          \* what the last operation answered: pop's timer, else None

vars == <<arr, seq, mode, I, thenDown, TOP>>

Entries == [deadline : Nat, seq : Nat]

Init ==
    /\ arr = <<>> /\ seq = 0
    /\ mode = "idle" /\ I = 0 /\ thenDown = FALSE /\ TOP = None

len == Len(arr)
slot(i) == arr[i + 1]

before(a, b) ==
    IF a.deadline # b.deadline THEN a.deadline < b.deadline ELSE a.seq < b.seq

swapped(i, j) == [arr EXCEPT ![i + 1] = slot(j), ![j + 1] = slot(i)]

\* The array after its last entry has been moved into slot i.
vacated(i) == SubSeq([arr EXCEPT ![i + 1] = slot(len - 1)], 1, len - 1)

push(deadline) ==
    /\ mode = "idle" /\ seq < MaxPush
    /\ arr' = Append(arr, [deadline |-> deadline, seq |-> seq])
    /\ seq' = seq + 1
    /\ mode' = "up" /\ I' = len /\ thenDown' = FALSE
    /\ TOP' = None

pop ==
    /\ mode = "idle" /\ len > 0
    /\ TOP' = slot(0)
    /\ arr' = vacated(0)
    /\ mode' = "down" /\ I' = 0
    /\ UNCHANGED <<seq, thenDown>>

\* Mutant: the moved entry is only sifted down.
removeAtDownOnly(i) ==
    /\ mode = "idle"
    /\ arr' = vacated(i)
    /\ IF i >= len - 1 THEN UNCHANGED <<mode, I, thenDown>>
       ELSE mode' = "down" /\ I' = i /\ UNCHANGED thenDown
    /\ TOP' = None
    /\ UNCHANGED seq

\* The moved entry may belong either way: up first, then down.
removeAt(i) ==
    /\ mode = "idle"
    /\ arr' = vacated(i)
    /\ IF i >= len - 1 THEN UNCHANGED <<mode, I, thenDown>>
       ELSE mode' = "up" /\ I' = i /\ thenDown' = TRUE
    /\ TOP' = None
    /\ UNCHANGED seq

parent(i) == (i - 1) \div 2

siftUp ==
    /\ mode = "up"
    /\ IF I = 0 \/ ~before(slot(I), slot(parent(I)))
       THEN /\ mode' = IF thenDown THEN "down" ELSE "idle"
            /\ UNCHANGED <<arr, I>>
       ELSE /\ arr' = swapped(I, parent(I))
            /\ I' = parent(I)
            /\ UNCHANGED mode
    /\ UNCHANGED <<seq, thenDown, TOP>>

\* The earlier of slot m and its rival, when the rival exists.
earlier(m, child) ==
    IF child < len /\ before(slot(child), slot(m)) THEN child ELSE m

smallest(i) == earlier(earlier(i, 2 * i + 1), 2 * i + 2)

siftDown ==
    /\ mode = "down"
    /\ LET M == smallest(I)
       IN  IF M = I
           THEN mode' = "idle" /\ UNCHANGED <<arr, I>>
           ELSE arr' = swapped(I, M) /\ I' = M /\ UNCHANGED mode
    /\ UNCHANGED <<seq, thenDown, TOP>>

Next ==
    \/ \E d \in 0..MaxDeadline : push(d)
    \/ pop
    \/ \E i \in 0..(len - 1) : removeAt(i)
    \/ siftUp
    \/ siftDown

Spec == Init /\ [][Next]_vars

(***************************************************************************)
(* Properties                                                              *)
(***************************************************************************)

\* The heap as the set of its entries.
Contents == {arr[i] : i \in 1..len}

TQ == INSTANCE TimerQueue WITH queue <- Contents

\* The heap is a timer queue: pop answers the first timer in (deadline, seq)
\* order, an operation adds or removes exactly its own entry, and the sifts
\* neither lose nor duplicate one.
ImplementsTimerQueue == TQ!Spec
===============================================================================

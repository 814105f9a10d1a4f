------------------------------ MODULE TimerQueue ------------------------------
(***************************************************************************)
(* What the timer heap promises to the event loop: a set of armed timers   *)
(* of which the first in (deadline, seq) order can be taken and any one    *)
(* can be removed.  TimerLoop.tla keeps its timers this way; TimerHeap.tla *)
(* implements it.                                                          *)
(***************************************************************************)
EXTENDS Integers

CONSTANT None    \* no timer

VARIABLES
    queue,       \* the armed timers
    TOP          \* the timer the last pop answered, or None

Entries == [deadline : Nat, seq : Nat]

\* (deadline, seq) order: FIFO at equal deadlines.
before(a, b) ==
    IF a.deadline # b.deadline THEN a.deadline < b.deadline ELSE a.seq < b.seq

Init == queue = {} /\ TOP = None

\* A timer is armed; its sequence number is later than every armed one.
Push(t) ==
    /\ t \in Entries
    /\ \A u \in queue : u.seq < t.seq
    /\ queue' = queue \union {t}
    /\ TOP' = None

Pop(t) ==
    /\ \A u \in queue \ {t} : before(t, u)
    /\ queue' = queue \ {t}
    /\ TOP' = t

Remove(t) ==
    /\ queue' = queue \ {t}
    /\ TOP' = None

Next ==
    \/ \E t \in queue' : Push(t)
    \/ \E t \in queue : Pop(t)
    \/ \E t \in queue : Remove(t)

Spec == Init /\ [][Next]_<<queue, TOP>>
===============================================================================

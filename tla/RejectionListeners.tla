-------------------------- MODULE RejectionListeners --------------------------
(***************************************************************************)
(* The linked lists of process.on("unhandledRejection") and of             *)
(* process.on("rejectionHandled") listeners, and the dispatch that walks   *)
(* one while its callbacks register and remove listeners                   *)
(* (packages/compiler/src/backend/wasm/process.ts; both lists have the     *)
(* same code).  PromiseJobs.tla decides when a dispatch happens.           *)
(*                                                                         *)
(* Node n is the n-th registration; 0 is the null reference.  ctx is       *)
(*   "user"     - user code outside a dispatch;                            *)
(*   "walk"     - the dispatch is between two listeners;                   *)
(*   "callback" - the callback of node CUR is running.                     *)
(***************************************************************************)
EXTENDS Integers, Sequences, FiniteSets

CONSTANTS
    Callbacks,     \* the functions a program registers
    MaxNodes,      \* bound on registrations
    MaxRemovals    \* bound on calls of off

ASSUME ListenerAssumption == MaxNodes \in Nat /\ MaxRemovals \in Nat

VARIABLES
    cb, once, next,    \* the fields of each node
    head, tail,        \* the list's globals
    CUR, NEXT, LAST,   \* the dispatch's locals
    ctx,
    removals,          \* calls of off so far
    live,              \* history: nodes registered, not removed, not used up
    atStart,           \* history: live nodes when the dispatch began
    removed,           \* history: nodes removed by off in this dispatch
    called,            \* history: nodes called in this dispatch
    spent              \* history: nodes ever called

nodeVars == <<cb, once, next>>
walkVars == <<CUR, NEXT, LAST>>
history == <<live, atStart, removed, called, spent>>
vars == <<nodeVars, head, tail, walkVars, ctx, removals, history>>

Nodes == 1..Len(cb)

Init ==
    /\ cb = <<>> /\ once = <<>> /\ next = <<>>
    /\ head = 0 /\ tail = 0
    /\ CUR = 0 /\ NEXT = 0 /\ LAST = 0
    /\ ctx = "user" /\ removals = 0
    /\ live = {} /\ atStart = {} /\ removed = {} /\ called = {} /\ spent = {}

\* The nodes reached from n through `next`.
chain(n) ==
    LET from[i \in 0..Len(next)] == IF i = 0 THEN <<>> ELSE <<i>> \o from[next[i]]
    IN  from[n]

\* onUnhandledRejectionAppend, onRejectionHandledAppend.
on(c, o) ==
    LET node == Len(cb) + 1
    IN  /\ ctx \in {"user", "callback"} /\ node <= MaxNodes
        /\ cb' = Append(cb, c) /\ once' = Append(once, o)
        /\ IF tail = 0
           THEN head' = node /\ next' = Append(next, 0)
           ELSE next' = Append([next EXCEPT ![tail] = node], 0) /\ UNCHANGED head
        /\ tail' = node
        /\ live' = live \union {node}
        /\ UNCHANGED <<walkVars, ctx, removals, atStart, removed, called, spent>>

\* Mutant: the tail keeps pointing at a removed node.
unlinkKeepsTail(n, prev) ==
    /\ head' = IF head = n THEN next[n] ELSE head
    /\ next' = IF head # n /\ prev # 0 THEN [next EXCEPT ![prev] = next[n]] ELSE next
    /\ UNCHANGED tail

\* Node n, whose predecessor in the list is prev (0: none), leaves the list.
unlink(n, prev) ==
    /\ head' = IF head = n THEN next[n] ELSE head
    /\ next' = IF head # n /\ prev # 0 THEN [next EXCEPT ![prev] = next[n]] ELSE next
    /\ tail' = IF tail = n THEN prev ELSE tail

\* The predecessor of n in the list as it is now, or 0.
predecessor(n) ==
    LET list == chain(head)
        at == {i \in 2..Len(list) : list[i] = n}
    IN  IF at = {} THEN 0 ELSE list[(CHOOSE i \in at : TRUE) - 1]

\* offUnhandledRejectionRemove, offRejectionHandledRemove: the oldest
\* registration of c goes; none is fine.
off(c) ==
    LET mine == {n \in Nodes : cb[n] = c /\ \E i \in 1..Len(chain(head)) : chain(head)[i] = n}
        oldest == {n \in mine : \A k \in mine : n <= k}
    IN  /\ ctx \in {"user", "callback"} /\ removals < MaxRemovals
        /\ removals' = removals + 1
        /\ IF oldest = {} THEN UNCHANGED <<head, next, tail>>
           ELSE \E n \in oldest : unlink(n, predecessor(n))
        /\ live' = live \ oldest
        /\ removed' = removed \union oldest
        /\ UNCHANGED <<cb, once, walkVars, ctx, atStart, called, spent>>

\* dispatchOrReport calls the dispatch only when the list is non-empty.
Dispatch ==
    /\ ctx = "user" /\ head # 0
    /\ LAST' = tail /\ CUR' = head
    /\ ctx' = "walk"
    /\ atStart' = live /\ removed' = {} /\ called' = {}
    /\ UNCHANGED <<nodeVars, head, tail, NEXT, removals, live, spent>>

\* One listener: its successor is read, a once listener is unlinked through
\* its predecessor in the list as it is now, then the callback starts.
Call ==
    /\ ctx = "walk" /\ CUR # 0
    /\ NEXT' = next[CUR]
    /\ IF once[CUR] THEN unlink(CUR, predecessor(CUR)) ELSE UNCHANGED <<head, next, tail>>
    /\ live' = IF once[CUR] THEN live \ {CUR} ELSE live
    /\ ctx' = "callback"
    /\ called' = called \union {CUR} /\ spent' = spent \union {CUR}
    /\ UNCHANGED <<cb, once, CUR, LAST, removals, atStart, removed>>

\* Mutant: the walk advances past the successor of a once listener.
CallbackReturnsSkips ==
    /\ ctx = "callback"
    /\ IF CUR = LAST
       THEN ctx' = "user" /\ UNCHANGED CUR
       ELSE /\ ctx' = "walk"
            /\ CUR' = IF once[CUR] /\ NEXT # 0 THEN next[NEXT] ELSE NEXT
    /\ UNCHANGED <<nodeVars, head, tail, NEXT, LAST, removals, history>>

\* The walk stops after the node that was the tail when it began.
CallbackReturns ==
    /\ ctx = "callback"
    /\ IF CUR = LAST
       THEN ctx' = "user" /\ UNCHANGED CUR
       ELSE ctx' = "walk" /\ CUR' = NEXT
    /\ UNCHANGED <<nodeVars, head, tail, NEXT, LAST, removals, history>>

WalkEnds ==
    /\ ctx = "walk" /\ CUR = 0
    /\ ctx' = "user"
    /\ UNCHANGED <<nodeVars, head, tail, walkVars, removals, history>>

Next ==
    \/ \E c \in Callbacks, o \in BOOLEAN : on(c, o)
    \/ \E c \in Callbacks : off(c)
    \/ Dispatch
    \/ Call
    \/ CallbackReturns
    \/ WalkEnds

Spec == Init /\ [][Next]_vars

(***************************************************************************)
(* Properties                                                              *)
(***************************************************************************)

\* The list links exactly the live listeners, in registration order, and the
\* tail global is its last node, whatever callbacks register and remove while
\* a dispatch walks it (a stale tail would lose every later registration).
ListExact ==
    LET list == chain(head)
    IN  /\ {list[i] : i \in 1..Len(list)} = live
        /\ \A i, j \in 1..Len(list) : i < j => list[i] < list[j]
        /\ tail = IF list = <<>> THEN 0 ELSE list[Len(list)]

\* A dispatch calls whom it should: when it ends it has called every listener
\* that was registered when it began, those that a callback removed meanwhile
\* excepted; and a once listener runs once, also when its own callback or
\* another one registers, removes or re-arms it.
DispatchExact ==
    [][ /\ ctx # "user" /\ ctx' = "user" => atStart \ removed \subseteq called
        /\ \A n \in called' \ called : once[n] => n \notin spent ]_vars
===============================================================================

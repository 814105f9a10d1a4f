---------------------------- MODULE CycleCollector ----------------------------
(***************************************************************************)
(* Reference counts and the synchronous trial-deletion cycle collector of  *)
(* the native runtime (packages/runtime/src/scr_cycle.c, and the           *)
(* retain/release pair every cycle-capable type has, as in scr_closure.c's *)
(* boxes and the shapes of emit-shapes.ts).                                *)
(*                                                                         *)
(* An object has traced slots (children the collector follows) and then    *)
(* untraced ones (children held through an acyclic holder, such as a dyn   *)
(* tree over a closure, which only the teardown releases); how many of     *)
(* each is its type's, and objects of several types meet.  The runtime is  *)
(* single-threaded and an operation runs to its end, so the whole runtime  *)
(* state is one record h that the code's functions take and return.  A     *)
(* release can nest: freed children, a threshold collection, and the       *)
(* teardowns of that collection.  Touching a freed object is recorded in   *)
(* h.bad; the index of an object that is not buffered is dead data, kept   *)
(* at 0.                                                                   *)
(***************************************************************************)
EXTENDS Integers, Sequences, FiniteSets, SequencesExt

CONSTANTS
    Obj,          \* addresses of cycle-capable objects
    Null,
    NSlots,       \* number of slots of an object
    Shapes,       \* numbers of traced slots the program's types have
    Threshold,    \* SCR_CYCLE_THRESHOLD
    MaxRefs       \* bound on the references the stack holds to one object

Slots == 1..NSlots

VARIABLES
    h,      \* the runtime's state
    ext     \* references held by stacks, locals and runtime-owned buffers

vars == <<h, ext>>

Init ==
    /\ h = [alive |-> {}, rc |-> [o \in Obj |-> 0],
            slot |-> [o \in Obj |-> [s \in Slots |-> Null]],
            traced |-> [o \in Obj |-> 0],
            color |-> [o \in Obj |-> "black"],
            buffered |-> [o \in Obj |-> FALSE], buf_index |-> [o \in Obj |-> 0],
            scr_roots |-> <<>>, scr_collecting |-> FALSE, bad |-> FALSE]
    /\ ext = [o \in Obj |-> 0]

\* The slots in trace order, and as the type of o divides them.
AllSlots == [s \in Slots |-> s]
TracedSlots(g, o) == SubSeq(AllSlots, 1, g.traced[o])
UntracedSlots(g, o) == SubSeq(AllSlots, g.traced[o] + 1, NSlots)

\* The children of o in a sequence of its slots.
children(g, o, slots) ==
    LET filled == SelectSeq(slots, LAMBDA s : g.slot[o][s] # Null)
    IN  [n \in 1..Len(filled) |-> g.slot[o][filled[n]]]

\* g after an access to o.
touch(g, o) == IF o \in g.alive THEN g ELSE [g EXCEPT !.bad = TRUE]

(***************************************************************************)
(* The candidate-root buffer                                               *)
(***************************************************************************)

\* rc hit zero: the last entry is swapped into o's place.
scr_cyc_on_dead(g, o) ==
    IF ~g.buffered[o] THEN g
    ELSE LET n == Len(g.scr_roots)
             last == g.scr_roots[n]
             i == g.buf_index[o]
         IN  [g EXCEPT !.scr_roots = SubSeq([@ EXCEPT ![i] = last], 1, n - 1),
                       !.buf_index[last] = IF last # o THEN i ELSE @,
                       !.buf_index[o] = 0, !.buffered[o] = FALSE]

\* Mutant: an object already in the buffer is not made purple again.
bufferKeepsColor(g, o) ==
    IF g.buffered[o] THEN g
    ELSE [g EXCEPT !.color[o] = "purple", !.buffered[o] = TRUE,
                   !.buf_index[o] = Len(g.scr_roots) + 1, !.scr_roots = Append(@, o)]

\* o becomes a candidate.
buffer(g, o) ==
    LET p == [g EXCEPT !.color[o] = "purple"]
    IN  IF g.buffered[o] THEN p
        ELSE [p EXCEPT !.buffered[o] = TRUE, !.buf_index[o] = Len(g.scr_roots) + 1,
                       !.scr_roots = Append(@, o)]

(***************************************************************************)
(* Trial deletion                                                          *)
(***************************************************************************)
RECURSIVE scr_mark_gray(_, _), scr_scan_black(_, _), scr_scan(_, _), scr_collect_white(_, _)

\* Trial-delete every internal edge of the subgraph of o.
scr_mark_gray(g, o) ==
    LET visit(a, c) == scr_mark_gray([touch(a, c) EXCEPT !.rc[c] = @ - 1], c)
    IN  IF g.color[o] = "gray" THEN g
        ELSE FoldLeft(visit, [g EXCEPT !.color[o] = "gray"], children(g, o, TracedSlots(g, o)))

\* Re-blacken the subgraph of o and restore its edges.
scr_scan_black(g, o) ==
    LET visit(a, c) ==
            LET b == [touch(a, c) EXCEPT !.rc[c] = @ + 1]
            IN  IF b.color[c] # "black" THEN scr_scan_black(b, c) ELSE b
    IN  FoldLeft(visit, [g EXCEPT !.color[o] = "black"], children(g, o, TracedSlots(g, o)))

\* Mutant: an object with references left is blackened without its subgraph.
scanShallow(g, o) ==
    IF g.color[o] # "gray" THEN g
    ELSE IF g.rc[o] > 0 THEN [g EXCEPT !.color[o] = "black"]
    ELSE FoldLeft(scr_scan, [g EXCEPT !.color[o] = "white"], children(g, o, TracedSlots(g, o)))

\* References are left: the subgraph stays.  None: white for now.
scr_scan(g, o) ==
    IF g.color[o] # "gray" THEN g
    ELSE IF g.rc[o] > 0 THEN scr_scan_black(g, o)
    ELSE FoldLeft(scr_scan, [g EXCEPT !.color[o] = "white"], children(g, o, TracedSlots(g, o)))

\* acc = [g, white]: the heap and the white set gathered so far.
scr_collect_white(acc, o) ==
    IF acc.g.color[o] # "white" \/ acc.g.buffered[o] THEN acc
    ELSE LET seen == [acc EXCEPT !.g.color[o] = "black"]
             walked == FoldLeft(scr_collect_white, seen, children(acc.g, o, TracedSlots(acc.g, o)))
         IN  [walked EXCEPT !.white = Append(@, o)]

\* markRoots: candidates still purple are kept, the others leave the buffer.
markRoots(g) ==
    LET visit(a, o) == IF a.color[o] = "purple"
                       THEN LET b == scr_mark_gray(a, o)
                            IN  [b EXCEPT !.buf_index[o] = Len(b.scr_roots) + 1,
                                          !.scr_roots = Append(@, o)]
                       ELSE [a EXCEPT !.buffered[o] = FALSE, !.buf_index[o] = 0]
    IN  FoldLeft(visit, [g EXCEPT !.scr_roots = <<>>], g.scr_roots)

(***************************************************************************)
(* Release and collection                                                  *)
(***************************************************************************)
RECURSIVE release(_, _), scr_collect_cycles(_)

\* scr_cyc_free: the block, header included, is gone.
scr_cyc_free(g, o) ==
    [touch(g, o) EXCEPT !.alive = @ \ {o}, !.rc[o] = 0, !.color[o] = "black", !.traced[o] = 0,
                        !.slot[o] = [s \in Slots |-> Null]]

\* Mutant: the teardown releases the traced children too.
freeReleasesAll(g, o) ==
    scr_cyc_free(FoldLeft(release, g, children(g, o, AllSlots)), o)

\* The teardown of a dead cycle member: releases the untraced children only.
free_fn(g, o) ==
    scr_cyc_free(FoldLeft(release, g, children(g, o, UntracedSlots(g, o))), o)

\* The three phases over the buffer, then the teardowns.
scr_collect_cycles(g) ==
    IF g.scr_collecting \/ g.scr_roots = <<>> THEN g
    ELSE LET marked == markRoots([g EXCEPT !.scr_collecting = TRUE])
             scanned == FoldLeft(scr_scan, marked, marked.scr_roots)
             unflag(a, o) == [a EXCEPT !.buffered[o] = FALSE, !.buf_index[o] = 0]
             drained == [FoldLeft(unflag, scanned, scanned.scr_roots) EXCEPT !.scr_roots = <<>>]
             gathered == FoldLeft(scr_collect_white, [g |-> drained, white |-> <<>>],
                                  scanned.scr_roots)
         IN  [FoldLeft(free_fn, gathered.g, gathered.white) EXCEPT !.scr_collecting = FALSE]

\* rc was decremented and stayed above zero.
scr_cyc_on_release(g, o) ==
    LET b == buffer(g, o)
    IN  IF ~b.scr_collecting /\ Len(b.scr_roots) >= Threshold
        THEN scr_collect_cycles(b) ELSE b

\* Every cycle-capable type's release: at zero the buffer entry goes first,
\* then all children, then the block.
release(g, o) ==
    LET d == [touch(g, o) EXCEPT !.rc[o] = @ - 1]
    IN  IF d.rc[o] = 0
        THEN scr_cyc_free(FoldLeft(release, scr_cyc_on_dead(d, o), children(d, o, AllSlots)), o)
        ELSE scr_cyc_on_release(d, o)

\* Every cycle-capable type's retain, with scr_cyc_mark_live.
retain(g, o) == [touch(g, o) EXCEPT !.rc[o] = @ + 1, !.color[o] = "black"]

(***************************************************************************)
(* The mutator                                                             *)
(***************************************************************************)

\* scr_cyc_alloc of a type with t traced slots, the reference on the caller's
\* stack.
Alloc(o, t) ==
    /\ o \notin h.alive
    /\ h' = [h EXCEPT !.alive = @ \union {o}, !.rc[o] = 1, !.traced[o] = t]
    /\ ext' = [ext EXCEPT ![o] = 1]

\* A local takes a reference to an object a local or a field of one shows.
Retain(o) ==
    /\ \E p \in Obj : ext[p] > 0 /\ (p = o \/ \E s \in Slots : h.slot[p][s] = o)
    /\ ext[o] < MaxRefs
    /\ h' = retain(h, o)
    /\ ext' = [ext EXCEPT ![o] = @ + 1]

Release(o) ==
    /\ ext[o] > 0
    /\ h' = release(h, o)
    /\ ext' = [ext EXCEPT ![o] = @ - 1]

\* Unlink, then release: the slot holds v when the old value's release runs.
store(g, o, s, v) ==
    LET old == g.slot[o][s]
        taken == IF v = Null THEN g ELSE retain(g, v)
        linked == [taken EXCEPT !.slot[o][s] = v]
    IN  IF old = Null THEN linked ELSE release(linked, old)

Store(o, s, v) ==
    /\ ext[o] > 0
    /\ v \in {x \in Obj : ext[x] > 0} \union {Null}
    /\ h.slot[o][s] # v
    /\ h' = store(h, o, s, v)
    /\ UNCHANGED ext

\* Event-loop quiescence and exit.
Collect ==
    /\ h.scr_roots # <<>>
    /\ h' = scr_collect_cycles(h)
    /\ UNCHANGED ext

Next ==
    \/ \E o \in Obj, t \in Shapes : Alloc(o, t)
    \/ \E o \in Obj : Retain(o)
    \/ \E o \in Obj : Release(o)
    \/ \E o \in Obj, s \in Slots, v \in Obj \union {Null} : Store(o, s, v)
    \/ Collect

Spec == Init /\ [][Next]_vars

(***************************************************************************)
(* Properties, of the states between operations                            *)
(***************************************************************************)

\* No release, trace or teardown ever touches a freed object, whatever order
\* nested releases and collections run in; and what a local or a slot holds
\* is alive.
NoUseAfterFree ==
    /\ ~h.bad
    /\ \A o \in Obj : ext[o] > 0 => o \in h.alive
    /\ \A o \in h.alive, s \in Slots : h.slot[o][s] \in h.alive \union {Null}

\* The count of a live object is the number of references to it, from locals
\* and from slots of live objects: every trial decrement is restored or freed
\* with its edge.
RcExact ==
    \A o \in h.alive :
        h.rc[o] = ext[o] + Cardinality({e \in h.alive \X Slots : h.slot[e[1]][e[2]] = o})

\* Outside a collection colors are settled and the buffer's bookkeeping is
\* exact: a purple object is buffered, a buffered one sits at its buf_index,
\* and a freed one is neither.
BufferExact ==
    /\ ~h.scr_collecting
    /\ \A o \in Obj :
        /\ h.color[o] \in {"black", "purple"}
        /\ h.color[o] = "purple" => h.buffered[o]
        /\ h.buffered[o] => /\ o \in h.alive
                            /\ h.buf_index[o] \in 1..Len(h.scr_roots)
                            /\ h.scr_roots[h.buf_index[o]] = o
    /\ Len(h.scr_roots) = Cardinality({o \in Obj : h.buffered[o]})

\* The objects reachable from a set over traced slots.
ReachableFrom(roots) ==
    LET step(S) == S \union UNION {Range(children(h, o, TracedSlots(h, o))) : o \in S}
        reach[n \in 0..Cardinality(Obj)] == IF n = 0 THEN roots ELSE step(reach[n - 1])
    IN  reach[Cardinality(Obj)]

\* What the collector takes for roots: locals, and untraced edges.
Held == {o \in h.alive : ext[o] > 0}
           \union UNION {Range(children(h, o, UntracedSlots(h, o))) : o \in h.alive}

\* No dead cycle is forgotten: every live object that nothing holds is still
\* reachable, over traced edges, from a purple candidate in the buffer, so the
\* next collection finds it.
GarbageIsCandidate ==
    h.alive \ ReachableFrom(Held) \subseteq ReachableFrom({o \in h.alive : h.color[o] = "purple"})

\* The candidate buffer can be trusted between operations: its entries are
\* where the objects say they are, and with them no dead cycle is lost.
CandidatesSound == BufferExact /\ GarbageIsCandidate
===============================================================================

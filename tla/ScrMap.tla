-------------------------------- MODULE ScrMap --------------------------------
(***************************************************************************)
(* The native Map and Set (packages/runtime/src/scr_map.c) under the walks *)
(* that forEach and for-of are desugared to                                *)
(* (packages/compiler/src/frontend/lowering/lower-containers.ts).          *)
(*                                                                         *)
(* A dense array of entries in insertion order, and an open-addressing     *)
(* table of entry indices.  A deletion leaves a tombstone that keeps probe *)
(* chains intact; compaction drops tombstones and moves entries, so it     *)
(* must not happen while a walk holds a plain index into the array, which  *)
(* is what iter_depth is for.  Walks may be open in nested calls and in    *)
(* suspended async frames, and end in any order.                           *)
(*                                                                         *)
(* Indices start at 1 and EMPTY is 0.  The id of an entry and the          *)
(* variables nextId, seen and strayed are history: the order of the        *)
(* insertions, the entry a walk visited last, and that the depth fell      *)
(* behind the open walks.  Reference counts are CycleCollector's.          *)
(***************************************************************************)
EXTENDS Integers, Sequences, FiniteSets

CONSTANTS
    Key, Val,
    Walk,             \* activations of forEach and for-of loops
    Hash,             \* hash of each key
    MinCap,           \* first capacity of the entries array (8)
    MinBuckets,       \* first size of the table (16)
    MinCompact,       \* entries below which iterExit does not compact (16)
    LabelledJumps,    \* some for-of body jumps to a label outside its loop
    MaxId,            \* bound on insertions
    MaxDepth          \* bound on iter_depth

ASSUME ScrMapAssumption ==
    /\ Hash \in [Key -> Nat]
    /\ MinCap \in Nat \ {0}
    /\ MinBuckets \in Nat \ {0}
    /\ MinCompact \in Nat
    /\ IsFiniteSet(Walk)
    /\ LabelledJumps \in BOOLEAN
    /\ MaxId \in Nat
    /\ MaxDepth \in Nat

VARIABLES
    entries, ecap,        \* the array (nentries is its length), its capacity
    buckets, nbuckets,
    nlive,
    iter_depth,
    stage,                \* of each walk: "off", "in", "returning", "done"
    i,                    \* index each walk holds: the entry it is on
    nextId, seen,         \* history
    strayed               \* a throwing return left the depth below the open walks

tableVars == <<entries, ecap, buckets, nbuckets, nlive>>
walkVars == <<stage, i, seen>>
vars == <<tableVars, iter_depth, walkVars, nextId, strayed>>

EMPTY == 0
NoBuckets(nb) == [b \in 0..(nb - 1) |-> EMPTY]

Init ==
    /\ entries = <<>> /\ ecap = 0
    /\ buckets = NoBuckets(0) /\ nbuckets = 0
    /\ nlive = 0 /\ iter_depth = 0
    /\ stage = [w \in Walk |-> "off"]
    /\ i = [w \in Walk |-> 0]
    /\ nextId = 1 /\ seen = [w \in Walk |-> 0]
    /\ strayed = FALSE

(***************************************************************************)
(* The table                                                               *)
(***************************************************************************)
Probe(h, d, nb) == (h + d) % nb

\* Mutant: a tombstone ends the probe chain.
findStopsAtTombstone(k) ==
    {e \in 1..Len(entries) :
        \E d \in 0..(nbuckets - 1) :
            /\ buckets[Probe(Hash[k], d, nbuckets)] = e
            /\ entries[e].live /\ entries[e].key = k
            /\ \A c \in 0..(d - 1) : LET b == buckets[Probe(Hash[k], c, nbuckets)]
                                     IN  b # EMPTY /\ entries[b].live}

\* The live entry of k on its probe chain: a set of at most one index.
scr_map_find(k) ==
    {e \in 1..Len(entries) :
        \E d \in 0..(nbuckets - 1) :
            /\ buckets[Probe(Hash[k], d, nbuckets)] = e
            /\ entries[e].live /\ entries[e].key = k
            /\ \A c \in 0..(d - 1) : buckets[Probe(Hash[k], c, nbuckets)] # EMPTY}

\* bk with entry e in the first empty bucket of the chain of hash h.
insert(bk, nb, h, e) ==
    LET free == CHOOSE d \in 0..(nb - 1) :
                    /\ bk[Probe(h, d, nb)] = EMPTY
                    /\ \A c \in 0..(d - 1) : bk[Probe(h, c, nb)] # EMPTY
    IN  [bk EXCEPT ![Probe(h, free, nb)] = e]

\* Live entries only, in dense order.
scr_map_rebuild_buckets(es, nb) ==
    LET fill[n \in 0..Len(es)] ==
            IF n = 0 THEN NoBuckets(nb)
            ELSE IF es[n].live THEN insert(fill[n - 1], nb, Hash[es[n].key], n)
            ELSE fill[n - 1]
    IN  fill[Len(es)]

\* The live entries, in order.
Live(es) ==
    LET kept[n \in 0..Len(es)] ==
            IF n = 0 THEN <<>>
            ELSE IF es[n].live THEN Append(kept[n - 1], es[n])
            ELSE kept[n - 1]
    IN  kept[Len(es)]

\* Tombstones dropped, order kept; the table is rebuilt at its size.
scr_map_compact ==
    [es |-> Live(entries),
     bk |-> IF nbuckets > 0 THEN scr_map_rebuild_buckets(Live(entries), nbuckets) ELSE buckets]

\* c doubled until it is at least n.
DoubledTo(c, n) ==
    LET cap[k \in 0..n] == IF k = 0 THEN c
                           ELSE IF cap[k - 1] >= n THEN cap[k - 1]
                           ELSE 2 * cap[k - 1]
    IN  cap[n]

\* Mutant: an append compacts whatever walks are open.
reserveIgnoresWalks ==
    IF Len(entries) < ecap /\ nbuckets >= 2 * (Len(entries) + 1)
    THEN [es |-> entries, cap |-> ecap, bk |-> buckets, nb |-> nbuckets]
    ELSE LET c == IF nlive <= Len(entries) \div 2 /\ entries # <<>>
                  THEN scr_map_compact ELSE [es |-> entries, bk |-> buckets]
             n == Len(c.es)
             grown == IF nbuckets >= 2 * (n + 1) THEN nbuckets
                      ELSE DoubledTo(IF nbuckets = 0 THEN MinBuckets ELSE nbuckets, 2 * (n + 1))
         IN  [es |-> c.es,
              cap |-> IF n < ecap THEN ecap ELSE DoubledTo(IF ecap = 0 THEN MinCap ELSE ecap, n + 1),
              bk |-> IF grown = nbuckets THEN c.bk ELSE scr_map_rebuild_buckets(c.es, grown),
              nb |-> grown]

\* Room for one more entry: compact when half of the entries are tombstones
\* and no walk is open, then grow the array and the table as needed.
scr_map_reserve_append ==
    IF Len(entries) < ecap /\ nbuckets >= 2 * (Len(entries) + 1)
    THEN [es |-> entries, cap |-> ecap, bk |-> buckets, nb |-> nbuckets]
    ELSE LET c == IF iter_depth = 0 /\ nlive <= Len(entries) \div 2 /\ entries # <<>>
                  THEN scr_map_compact ELSE [es |-> entries, bk |-> buckets]
             n == Len(c.es)
             grown == IF nbuckets >= 2 * (n + 1) THEN nbuckets
                      ELSE DoubledTo(IF nbuckets = 0 THEN MinBuckets ELSE nbuckets, 2 * (n + 1))
         IN  [es |-> c.es,
              cap |-> IF n < ecap THEN ecap ELSE DoubledTo(IF ecap = 0 THEN MinCap ELSE ecap, n + 1),
              bk |-> IF grown = nbuckets THEN c.bk ELSE scr_map_rebuild_buckets(c.es, grown),
              nb |-> grown]

(***************************************************************************)
(* The operations of a program                                             *)
(***************************************************************************)

\* The stored key and position stay; only the value is replaced.
overwrite(e, v) ==
    /\ entries' = [entries EXCEPT ![e].val = v]
    /\ UNCHANGED <<ecap, buckets, nbuckets, nlive, nextId>>

append(k, v) ==
    /\ nextId <= MaxId
    /\ LET r == scr_map_reserve_append
           idx == Len(r.es) + 1
       IN  /\ entries' = Append(r.es, [id |-> nextId, key |-> k, val |-> v, live |-> TRUE])
           /\ ecap' = r.cap
           /\ nbuckets' = r.nb
           /\ buckets' = insert(r.bk, r.nb, Hash[k], idx)
    /\ nlive' = nlive + 1
    /\ nextId' = nextId + 1

scr_map_set(k, v) ==
    /\ IF scr_map_find(k) # {} THEN \E e \in scr_map_find(k) : overwrite(e, v)
                               ELSE append(k, v)
    /\ UNCHANGED <<iter_depth, walkVars, strayed>>

\* The bucket keeps pointing at the tombstone.
scr_map_delete(k) ==
    /\ \E e \in scr_map_find(k) :
        /\ entries' = [entries EXCEPT ![e].live = FALSE]
        /\ nlive' = nlive - 1
    /\ UNCHANGED <<ecap, buckets, nbuckets, iter_depth, walkVars, nextId, strayed>>

\* Mutant: clear frees the array under an open walk.
clearResets ==
    /\ entries' = <<>>
    /\ nlive' = 0
    /\ buckets' = NoBuckets(nbuckets)
    /\ UNCHANGED <<ecap, nbuckets, iter_depth, walkVars, nextId, strayed>>

\* Under an open walk the dead entries stay, so that indices do.
scr_map_clear ==
    /\ entries' = IF iter_depth = 0 THEN <<>>
                  ELSE [e \in 1..Len(entries) |-> [entries[e] EXCEPT !.live = FALSE]]
    /\ nlive' = 0
    /\ buckets' = NoBuckets(nbuckets)
    /\ UNCHANGED <<ecap, nbuckets, iter_depth, walkVars, nextId, strayed>>

(***************************************************************************)
(* Walks: iterEnter, the index loop, iterExit                              *)
(***************************************************************************)
Open == {w \in Walk : stage[w] = "in"}

scr_map_iter_enter(w) ==
    /\ stage[w] \in {"off", "done"} /\ iter_depth < MaxDepth
    /\ iter_depth' = iter_depth + 1
    /\ stage' = [stage EXCEPT ![w] = "in"]
    /\ i' = [i EXCEPT ![w] = 0]
    /\ seen' = [seen EXCEPT ![w] = 0]
    /\ UNCHANGED <<tableVars, nextId, strayed>>

\* iterCount is read afresh in every pass.
Ahead(w) == {e \in (i[w] + 1)..Len(entries) : entries[e].live}

\* The loop skips tombstones and hands the next live entry to the body.
Visit(w) ==
    /\ stage[w] = "in"
    /\ \E e \in Ahead(w) :
        /\ \A f \in Ahead(w) : e <= f
        /\ i' = [i EXCEPT ![w] = e]
        /\ seen' = [seen EXCEPT ![w] = entries[e].id]
    /\ UNCHANGED <<tableVars, iter_depth, stage, nextId, strayed>>

\* The depth drops by one, guarded at zero; tombstones are dropped with the
\* last walk.
scr_map_iter_exit ==
    /\ iter_depth' = IF iter_depth > 0 THEN iter_depth - 1 ELSE 0
    /\ IF iter_depth' = 0 /\ nlive <= Len(entries) \div 2 /\ Len(entries) >= MinCompact
       THEN /\ entries' = scr_map_compact.es
            /\ buckets' = scr_map_compact.bk
       ELSE UNCHANGED <<entries, buckets>>
    /\ UNCHANGED <<ecap, nbuckets, nlive, nextId>>

Gone(w, how) ==
    /\ stage' = [stage EXCEPT ![w] = how]
    /\ i' = [i EXCEPT ![w] = 0]
    /\ seen' = [seen EXCEPT ![w] = 0]

\* History: a depth that fell behind stays so until no walk is open.
Straying(now) == strayed' = ((strayed \/ now) /\ Open' # {})

End(w) ==
    /\ stage[w] = "in" /\ Ahead(w) = {}
    /\ Gone(w, "done")
    /\ scr_map_iter_exit
    /\ Straying(FALSE)

\* break, or a throw that leaves the loop (catch or finally).
Leave(w) ==
    /\ stage[w] = "in" /\ i[w] > 0
    /\ Gone(w, "off")
    /\ scr_map_iter_exit
    /\ Straying(FALSE)

\* A jump to an outer label crosses the plain try, and no iterExit.
LabelledJump(w) ==
    /\ LabelledJumps
    /\ stage[w] = "in" /\ i[w] > 0
    /\ Gone(w, "off")
    /\ Straying(FALSE)
    /\ UNCHANGED <<tableVars, iter_depth, nextId>>

\* A `return e` in the body: the iterExit put before it runs, and then e, with
\* whatever it calls or awaits, still inside the loop and its try.
Return(w) ==
    /\ stage[w] = "in" /\ i[w] > 0
    /\ stage' = [stage EXCEPT ![w] = "returning"]
    /\ scr_map_iter_exit
    /\ Straying(FALSE)
    /\ UNCHANGED <<i, seen>>

\* e has a value and the frame returns.
Returned(w) ==
    /\ stage[w] = "returning"
    /\ Gone(w, "off")
    /\ UNCHANGED <<tableVars, iter_depth, nextId, strayed>>

\* e throws out of the loop, whose catch runs iterExit a second time: one
\* too many when another walk is open.
ThrowsOut(w) ==
    /\ stage[w] = "returning"
    /\ Gone(w, "off")
    /\ scr_map_iter_exit
    /\ Straying(TRUE)

\* e throws and a catch in the body takes it, or a finally there overrides
\* the return: the loop goes on, and its iterExit has been run.
Caught(w) ==
    /\ stage[w] = "returning"
    /\ stage' = [stage EXCEPT ![w] = "in"]
    /\ Straying(TRUE)
    /\ UNCHANGED <<tableVars, iter_depth, nextId, i, seen>>

Next ==
    \/ \E k \in Key, v \in Val : scr_map_set(k, v)
    \/ \E k \in Key : scr_map_delete(k)
    \/ scr_map_clear
    \/ \E w \in Walk : scr_map_iter_enter(w)
    \/ \E w \in Walk : Visit(w)
    \/ \E w \in Walk : End(w)
    \/ \E w \in Walk : Leave(w)
    \/ \E w \in Walk : LabelledJump(w)
    \/ \E w \in Walk : Return(w)
    \/ \E w \in Walk : Returned(w)
    \/ \E w \in Walk : ThrowsOut(w)
    \/ \E w \in Walk : Caught(w)

Spec == Init /\ [][Next]_vars

(***************************************************************************)
(* Properties                                                              *)
(***************************************************************************)
LiveOf(k) == {e \in 1..Len(entries) : entries[e].live /\ entries[e].key = k}

\* A lookup finds exactly the live entry of its key, of which there is at most
\* one, through every tombstone, rebuild and clear (scr_map_find); it ends,
\* because the table has an empty bucket; and size counts the live entries.
LookupExact ==
    /\ \A k \in Key : scr_map_find(k) = LiveOf(k) /\ Cardinality(LiveOf(k)) <= 1
    /\ nbuckets > 0 => \E b \in 0..(nbuckets - 1) : buckets[b] = EMPTY
    /\ nlive = Cardinality({e \in 1..Len(entries) : entries[e].live})

\* No entry moves or goes while a walk holds an index: whatever other walks
\* and the program do, each index keeps the entry it had.  The exception is
\* the code's: a `return e` whose e throws has run iterExit already, so the
\* property is silent from such a throw, caught in the body or leaving one of
\* several walks, until no walk is open.
IndicesStable ==
    [][~strayed' /\ Open \intersect Open' # {} =>
        /\ Len(entries') >= Len(entries)
        /\ \A e \in 1..Len(entries) : entries'[e].id = entries[e].id]_vars

\* A return whose operand is running has not left its walk.
Standing == [w \in Walk |-> IF stage[w] = "returning" THEN "in" ELSE stage[w]]

LM == INSTANCE LiveMap WITH
        data <- {[id |-> entries[e].id, key |-> entries[e].key, val |-> entries[e].val] :
                    e \in {e \in 1..Len(entries) : entries[e].live}},
        stage <- Standing

\* The array, the table and the depth count implement ECMAScript's live
\* iteration: no walk skips an entry, visits one twice or ends early, however
\* the map is changed between its steps.  A walk that goes on, or stays open,
\* after a return's operand threw is promised nothing (strayed); what it saw
\* and left behind binds the later walks again as soon as all have ended.
ImplementsLiveMap == LM!Init /\ [][strayed \/ LM!Next]_(LM!vars)
===============================================================================

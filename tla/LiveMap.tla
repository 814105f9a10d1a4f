------------------------------- MODULE LiveMap -------------------------------
(***************************************************************************)
(* What a Map or Set promises a program that mutates it while walks over   *)
(* it (forEach, for-of, keys, values, entries) are open: ECMAScript's live *)
(* iteration, which the desugars of lower-containers.ts claim.  Every      *)
(* insertion gets the next id, so ids order the entries; a walk stands on  *)
(* the id it visited last and goes on to the next entry that exists then.  *)
(***************************************************************************)
EXTENDS Integers

CONSTANTS Key, Val, Walk

VARIABLES
    data,     \* the entries: [id, key, val]
    nextId,
    stage,    \* of each walk: "off", "in", or "done" when it saw the end
    seen      \* id of the entry each walk visited last

vars == <<data, nextId, stage, seen>>

Init ==
    /\ data = {} /\ nextId = 1
    /\ stage = [w \in Walk |-> "off"]
    /\ seen = [w \in Walk |-> 0]

Set(k, v) ==
    /\ \/ \E e \in data : /\ e.key = k
                          /\ data' = (data \ {e}) \union {[e EXCEPT !.val = v]}
                          /\ UNCHANGED nextId
       \/ /\ \A e \in data : e.key # k
          /\ data' = data \union {[id |-> nextId, key |-> k, val |-> v]}
          /\ nextId' = nextId + 1
    /\ UNCHANGED <<stage, seen>>

Delete(k) ==
    /\ data' = {e \in data : e.key # k}
    /\ UNCHANGED <<nextId, stage, seen>>

Clear ==
    /\ data' = {}
    /\ UNCHANGED <<nextId, stage, seen>>

Enter(w) ==
    /\ stage[w] # "in"
    /\ stage' = [stage EXCEPT ![w] = "in"]
    /\ seen' = [seen EXCEPT ![w] = 0]
    /\ UNCHANGED <<data, nextId>>

Ahead(w) == {e \in data : e.id > seen[w]}

\* The walk is handed the oldest entry it has not passed.
Visit(w) ==
    /\ stage[w] = "in"
    /\ \E e \in Ahead(w) : /\ \A f \in Ahead(w) : e.id <= f.id
                           /\ seen' = [seen EXCEPT ![w] = e.id]
    /\ UNCHANGED <<data, nextId, stage>>

\* Only a walk with nothing ahead of it ends by itself ...
End(w) ==
    /\ stage[w] = "in" /\ Ahead(w) = {}
    /\ stage' = [stage EXCEPT ![w] = "done"]
    /\ seen' = [seen EXCEPT ![w] = 0]
    /\ UNCHANGED <<data, nextId>>

\* ... and the program may leave one at any time.
Leave(w) ==
    /\ stage[w] = "in"
    /\ stage' = [stage EXCEPT ![w] = "off"]
    /\ seen' = [seen EXCEPT ![w] = 0]
    /\ UNCHANGED <<data, nextId>>

Next ==
    \/ \E k \in Key, v \in Val : Set(k, v)
    \/ \E k \in Key : Delete(k)
    \/ Clear
    \/ \E w \in Walk : Enter(w) \/ Visit(w) \/ End(w) \/ Leave(w)

Spec == Init /\ [][Next]_vars
===============================================================================

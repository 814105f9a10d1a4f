------------------------------ MODULE MCScrMap ------------------------------
(* Instances of ScrMap for TLC. *)
EXTENDS ScrMap, TLC

\* All keys collide in the last bucket, so that every probe chain wraps.
MCHash == [k \in Key |-> MinBuckets - 1]

\* Keys of one hash, values and walks are interchangeable.
Sym == Permutations(Walk) \union Permutations(Val) \union Permutations(Key)
===============================================================================

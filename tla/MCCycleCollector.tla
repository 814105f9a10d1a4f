-------------------------- MODULE MCCycleCollector --------------------------
(* Instances of CycleCollector for TLC. *)
EXTENDS CycleCollector, TLC

\* Addresses are interchangeable.
Sym == Permutations(Obj)
===============================================================================

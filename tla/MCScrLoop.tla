------------------------------ MODULE MCScrLoop ------------------------------
(* Instances of ScrLoop for TLC. *)
EXTENDS ScrLoop

\* Programs that bring together the calls that meet at one station: handles at
\* the re-arm, timers and immediates in one turn, batches of listeners that
\* queue microtasks, exceptions, rejections.
MCPrograms ==
    {{"handle", "clear", "refresh", "micro"},
     {"handle", "ref"},
     {"handle", "time", "immediate"},
     {"timeout", "immediate", "tick", "micro"},
     {"timeout", "immediate", "clear", "ref", "tick", "throw"},
     {"settle", "await", "tick"},
     {"settle", "handled", "source", "throw"},
     {"timeout", "source", "micro"},
     {"settle", "handled", "immediate"},
     {"settle", "micro", "tick", "throw"}}
===============================================================================

--------------------------- MODULE MCScrReadable ---------------------------
(* ScrReadable for TLC: the chunks and the programs.                       *)
EXTENDS ScrReadable

\* Three chunks: below the high-water mark, as long as it, and empty.
MCSizes == <<1, 2, 0>>

\* Programs that consume by 'data', by 'readable' and read(), by both, and by
\* for-await, and two that push the empty chunk.
MCPrograms ==
    {{"data", "pause", "resume", "autoDestroy"},
     {"data", "destroy", "autoDestroy"},
     {"data", "eof", "destroy", "_destroy"},
     {"readable", "read", "autoDestroy", "_destroy"},
     {"data", "readable", "resume", "read"},
     {"next", "destroy", "autoDestroy"},
     {"readable", "read", "empty"},
     {"next", "eof", "empty"}}
============================================================================

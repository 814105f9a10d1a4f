--------------------------- MODULE MCScrWritable ---------------------------
(* ScrWritable for TLC: the sizes of the chunks a program writes.          *)
EXTENDS ScrWritable

\* Two chunks: one in flight, one queued behind it or corked.
MCSizes == <<1, 1>>
=============================================================================

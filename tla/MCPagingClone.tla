----------------------------- MODULE MCPagingClone -----------------------------
(* The bootloader maps any of two 4 kB pages, a 2 MB page beside their table *)
(* and a 1 GB page under another PML4 entry.                                 *)
EXTENDS PagingClone

MCPages == {<<0, 0, 0, 0>>, <<0, 0, 0, 1>>, <<0, 0, 1>>, <<1, 0>>}

\* The theorems on the clone speak of this instance: it has just enough frames.
ASSUME TheoremsApply == FramesForTwo
==============================================================================

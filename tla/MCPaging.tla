------------------------------- MODULE MCPaging -------------------------------
(* Two entries per table and a few pages of every size.                      *)
EXTENDS Paging

\* Two 4 kB pages of one table, a 2 MB page that contains them, a 2 MB page
\* beside it, and a 1 GB page under another PML4 entry.
MCPages == {<<0, 0, 0, 0>>, <<0, 0, 0, 1>>, <<0, 0, 0>>, <<0, 0, 1>>, <<1, 0>>}
==============================================================================

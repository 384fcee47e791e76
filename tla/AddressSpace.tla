----------------------------- MODULE AddressSpace -----------------------------
(***************************************************************************)
(* What paging promises (paging.h): a partial function from virtual pages  *)
(* to frames.  A virtual page is the sequence of its table indices, two    *)
(* for a 1 GB page, three for a 2 MB page, four for a 4 kB page; so a page *)
(* lies inside another when that one's indices are a prefix of its own.    *)
(* Paging.tla is the detailed specification that implements this one.      *)
(***************************************************************************)
EXTENDS Sequences, SequencesExt

CONSTANTS Pages,    \* virtual pages
          Data      \* frames they can be mapped to

VARIABLE mapping

vars == mapping

Overlap(p, q) == IsPrefix(p, q) \/ IsPrefix(q, p)

Init == mapping = <<>>

\* Only a page that overlaps no mapped page is mapped; nothing else changes.
MapPage(page, phys) ==
    /\ \A q \in DOMAIN mapping : ~Overlap(page, q)
    /\ mapping' = [p \in DOMAIN mapping \union {page} |->
                     IF p = page THEN phys ELSE mapping[p]]

UnmapPage(page) ==
    /\ page \in DOMAIN mapping
    /\ mapping' = Restrict(mapping, DOMAIN mapping \ {page})

Next == \E page \in Pages : \/ \E phys \in Data : MapPage(page, phys)
                            \/ UnmapPage(page)

Spec == Init /\ [][Next]_vars
==============================================================================

---------------------------- MODULE PageAllocator ----------------------------
(***************************************************************************)
(* What the physical memory manager promises its callers (pmm.h): a set of *)
(* page frames, each of which is either free or held by somebody.          *)
(* PMM.tla is the detailed specification that implements this one.         *)
(***************************************************************************)
EXTENDS Naturals

CONSTANTS Frames,   \* every frame number a pointer can name
          NULL      \* what pmm_alloc returns when it has no page

VARIABLES free,     \* frames that can be handed out
          held,     \* frames handed out and not given back
          ptr       \* result of the last allocation

vars == <<free, held, ptr>>

Init == /\ free \in SUBSET Frames
        /\ held = {}
        /\ ptr = NULL

\* A free page is handed out, to nobody who has it already.
Alloc == \E page \in free :
            /\ free' = free \ {page}
            /\ held' = held \union {page}
            /\ ptr' = page

\* NULL is returned only when no page is left.
AllocNull == /\ free = {}
             /\ ptr' = NULL
             /\ UNCHANGED <<free, held>>

Free(page) == /\ page \in held
              /\ free' = free \union {page}
              /\ held' = held \ {page}
              /\ UNCHANGED ptr

Next == \/ Alloc
        \/ AllocNull
        \/ \E page \in held : Free(page)

Spec == Init /\ [][Next]_vars
==============================================================================

------------------------------- MODULE KeyQueue -------------------------------
(***************************************************************************)
(* What the key event buffer promises (keyboard.h, keyboard.c:13): the     *)
(* last Capacity key events nobody has read yet, in the order in which     *)
(* they happened.                                                          *)
(***************************************************************************)
EXTENDS Naturals, Sequences

CONSTANTS Capacity, Events

VARIABLES queue,   \* events to be read, oldest first
          got      \* events the reader got, empty again after a Put

vars == <<queue, got>>

Init == queue = <<>> /\ got = <<>>

\* A full queue forgets its oldest event.
Put(e) ==
    /\ queue' = Append(IF Len(queue) = Capacity THEN Tail(queue) ELSE queue, e)
    /\ got' = <<>>

\* Readers take one event or several.
Take(n) ==
    /\ got' = SubSeq(queue, 1, n)
    /\ queue' = SubSeq(queue, n + 1, Len(queue))

Next == (\E e \in Events : Put(e)) \/ (\E n \in 0 .. Len(queue) : Take(n))

Spec == Init /\ [][Next]_vars
==============================================================================

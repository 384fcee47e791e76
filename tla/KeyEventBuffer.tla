---------------------------- MODULE KeyEventBuffer ----------------------------
(***************************************************************************)
(* The ring buffer of key events, kernel/src/drivers/keyboard.c.  The       *)
(* keyboard's interrupt handler appends, the timer's reads.  Both run      *)
(* through interrupt gates and are not interrupted, so each is one step.   *)
(***************************************************************************)
EXTENDS Naturals, Sequences

CONSTANTS SIZE,      \* KBD_KEY_EVENT_BUFFER_SIZE, and the buffer's capacity
          Events,    \* key events
          NoEvent    \* what an element of the zeroed array reads as

\* front and size are uint8_t.
ASSUME SizeAssumption == SIZE \in 1 .. 255

VARIABLES buffer,    \* kbd_key_event_buffer
          size,      \* kbd_key_event_buffer_size
          front,     \* kbd_key_event_buffer_front
          got        \* events the reader got, empty again after an append

bufferVars == <<buffer, size, front, got>>

BufferInit == /\ buffer = [i \in 0 .. SIZE - 1 |-> NoEvent]
              /\ size = 0
              /\ front = 0
              /\ got = <<>>

\* Plausible bug: the front stays behind when the oldest event is overwritten.
AppendEvent_KeepsFront(e) ==
    /\ buffer' = [buffer EXCEPT ![(front + size) % SIZE] = e]
    /\ size' = IF size < SIZE THEN size + 1 ELSE size
    /\ got' = <<>>
    /\ UNCHANGED front

\* kbd_append_key_event_to_buffer.
AppendEvent(e) ==
    /\ buffer' = [buffer EXCEPT ![(front + size) % SIZE] = e]
    /\ \/ /\ size < SIZE
          /\ size' = size + 1
          /\ UNCHANGED front
       \/ /\ size >= SIZE
          /\ front' = (front + 1) % SIZE
          /\ UNCHANGED size
    /\ got' = <<>>

\* kbd_get_key_event_from_buffer; of an empty buffer it changes nothing.
GetEvent ==
    /\ size > 0
    /\ got' = <<buffer[front]>>
    /\ front' = (front + 1) % SIZE
    /\ size' = size - 1
    /\ UNCHANGED buffer

\* The events in the buffer, oldest first.
Content == [i \in 1 .. size |-> buffer[(front + i - 1) % SIZE]]

\* What reading events until there is none comes to.
GetAllEvents ==
    /\ got' = Content
    /\ front' = (front + size) % SIZE
    /\ size' = 0
    /\ UNCHANGED buffer

BufferNext == (\E e \in Events : AppendEvent(e)) \/ GetEvent \/ GetAllEvents

BufferSpec == BufferInit /\ [][BufferNext]_bufferVars

-----------------------------------------------------------------------------
(* Properties.                                                             *)

\* Types of the variables; size never exceeds the capacity, and what can be
\* read was appended before.
BufferTypeOK == /\ buffer \in [0 .. SIZE - 1 -> Events \union {NoEvent}]
                /\ size \in 0 .. SIZE
                /\ front \in 0 .. SIZE - 1
                /\ got \in Seq(Events)
                /\ Content \in Seq(Events)

Queue == INSTANCE KeyQueue WITH Capacity <- SIZE, queue <- Content

\* However appends and reads are interleaved and wherever the indices wrap,
\* readers get the events in order, and only the oldest are lost.
ImplementsKeyQueue == Queue!Spec
==============================================================================

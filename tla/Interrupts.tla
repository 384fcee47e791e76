------------------------------ MODULE Interrupts ------------------------------
(***************************************************************************)
(* How a key press becomes text: kmain from pic_init on, the two PICs and   *)
(* their driver (drivers/pic.c), pit_init_channel, the interrupt gates      *)
(* (cpu/idt.c, cpu/isr.asm) and interrupt_handler.  The modules PS2Controller *)
(* and PS2Keyboard have the details of what is one flag or counter here:    *)
(* the polled initialisation and the decoding of bytes into key events.     *)
(*                                                                         *)
(* A handler runs with interrupts off, so two steps of it suffice: what it  *)
(* does, and the end of interrupt with the return.  Devices act between any *)
(* two steps.                                                              *)
(***************************************************************************)
EXTENDS Naturals, Sequences, SequencesExt

CONSTANTS OtherLines,    \* interrupt lines of devices without a driver
          Frequency,     \* what kmain asks of the timer
          BufferSize     \* key events the buffer holds

ASSUME LinesAssumption == OtherLines \subseteq 3 .. 15
ASSUME SizesAssumption == Frequency \in Nat /\ BufferSize \in Nat \ {0}

VARIABLES pic,          \* the two PICs
          allowed,      \* the processor's interrupt flag
          handler,      \* the interrupt handler that runs
          stage,        \* where kmain is
          written,      \* how many writes of pic_init are done
          full,         \* the keyboard controller has a byte to be read
          announces,    \* it raises IRQ 1 for a byte
          unread        \* key events in the buffer

kmain == <<stage, written>>
keyboard == <<full, announces, unread>>
interruptsVars == <<pic, allowed, handler, kmain, keyboard>>

Chips == {1, 2}
TIMER == 0
KEYBOARD == 1
PIC_CASCADE_IRQ == 2
Lines == {TIMER, KEYBOARD} \union OtherLines
ChipOf(irq) == IF irq > 7 THEN 2 ELSE 1

-----------------------------------------------------------------------------
(* The PICs.  What a write to the data port means depends on the writes     *)
(* before.                                                                 *)

PIC_ICW1 == 17
PIC_ICW4_MODE_8086 == 1
PIC_EOI == 32

Bits(byte) == {n \in 0 .. 7 : (byte \div 2^n) % 2 = 1}

WriteCommand(chip, byte) ==
    IF byte = PIC_ICW1
    THEN [chip EXCEPT !.request = {}, !.service = {}, !.mask = {}, !.expects = "icw2"]
    ELSE [chip EXCEPT !.service = IF @ = {} THEN @ ELSE @ \ {Min(@)}]

WriteData(chip, byte) ==
    CASE chip.expects = "icw2" -> [chip EXCEPT !.offset = byte, !.expects = "icw3"]
      [] chip.expects = "icw3" -> [chip EXCEPT !.expects = "icw4"]
      [] chip.expects = "icw4" -> [chip EXCEPT !.auto = 1 \in Bits(byte), !.expects = "mask"]
      [] chip.expects = "mask" -> [chip EXCEPT !.mask = Bits(byte)]

Write(pics, w) ==
    [pics EXCEPT ![w.chip] = IF w.port = "command" THEN WriteCommand(@, w.byte) ELSE WriteData(@, w.byte)]

Command(chip, byte) == [port |-> "command", chip |-> chip, byte |-> byte]
Data(chip, byte) == [port |-> "data", chip |-> chip, byte |-> byte]

\* Interrupts a chip would like to be served, given those in service.
Deliverable(chip) == {n \in chip.request \ chip.mask : \A s \in chip.service : n < s}

\* The line the processor is interrupted for, if any.
Pending ==
    LET second == Deliverable(pic[2])
        first == Deliverable([pic[1] EXCEPT !.request =
                    IF second = {} THEN @ ELSE @ \union {PIC_CASCADE_IRQ}])
    IN  IF first = {} THEN {}
        ELSE {IF Min(first) = PIC_CASCADE_IRQ THEN 8 + Min(second) ELSE Min(first)}

Serving(chip, n) ==
    [chip EXCEPT !.request = @ \ {n}, !.service = IF chip.auto THEN @ ELSE @ \union {n}]

Raised(pics, irq) == [pics EXCEPT ![ChipOf(irq)].request = @ \union {irq % 8}]

-----------------------------------------------------------------------------
(* The driver of the PICs.                                                 *)

\* Plausible bug: the offsets of the two chips are mixed up.
InitWrites_Swapped(offset_pic1, offset_pic2) ==
    <<Command(1, PIC_ICW1), Command(2, PIC_ICW1), Data(1, offset_pic2), Data(2, offset_pic1),
      Data(1, 2^PIC_CASCADE_IRQ), Data(2, PIC_CASCADE_IRQ),
      Data(1, PIC_ICW4_MODE_8086), Data(1, PIC_ICW4_MODE_8086), Data(1, 255), Data(2, 255)>>

\* Plausible bug: the initialised chips are not masked.
InitWrites_NotMasked(offset_pic1, offset_pic2) ==
    <<Command(1, PIC_ICW1), Command(2, PIC_ICW1), Data(1, offset_pic1), Data(2, offset_pic2),
      Data(1, 2^PIC_CASCADE_IRQ), Data(2, PIC_CASCADE_IRQ),
      Data(1, PIC_ICW4_MODE_8086), Data(1, PIC_ICW4_MODE_8086)>>

\* pic_init.  The first chip is told its mode twice and the second not at all: it
\* takes the mask that follows for its mode, and stays unmasked.
InitWrites(offset_pic1, offset_pic2) ==
    <<Command(1, PIC_ICW1), Command(2, PIC_ICW1), Data(1, offset_pic1), Data(2, offset_pic2),
      Data(1, 2^PIC_CASCADE_IRQ), Data(2, PIC_CASCADE_IRQ),
      Data(1, PIC_ICW4_MODE_8086), Data(1, PIC_ICW4_MODE_8086), Data(1, 255), Data(2, 255)>>

\* pic_enable_irq, for chips that are initialised.
EnableIrq(irq) == [pic EXCEPT ![ChipOf(irq)].mask = @ \ {irq % 8}]

\* Plausible bug: both commands go to the second chip.
SendEoi_SecondOnly(irq) == [pic EXCEPT ![2] = WriteCommand(@, PIC_EOI)]

\* pic_send_eoi.
SendEoi(irq) ==
    LET acknowledged == [pic EXCEPT ![1] = WriteCommand(@, PIC_EOI)]
    IN  IF irq > 7 THEN [acknowledged EXCEPT ![2] = WriteCommand(@, PIC_EOI)] ELSE acknowledged

-----------------------------------------------------------------------------
(* kmain.                                                                  *)

INT_EXT_INT0 == 32
INT_EXT_INT1 == 33
INT_EXT_INT15 == 47
ExternalVectors == INT_EXT_INT0 .. INT_EXT_INT15

NoHandler == [line |-> 0, vector |-> 0, at |-> "none"]

\* One write of pic_init; devices do not wait for the others.
PicInit ==
    /\ stage = "pic_init" /\ handler = NoHandler
    /\ LET writes == InitWrites(INT_EXT_INT0, INT_EXT_INT0 + 8)
       IN  /\ pic' = Write(pic, writes[written + 1])
           /\ stage' = IF written + 1 = Len(writes) THEN "sti" ELSE stage
    /\ written' = written + 1
    /\ UNCHANGED <<allowed, handler, keyboard>>

Step(label, next) ==
    /\ stage = label /\ handler = NoHandler
    /\ stage' = next
    /\ UNCHANGED <<handler, written>>

Sti ==
    /\ Step("sti", "pit_init")
    /\ allowed' = TRUE
    /\ UNCHANGED <<pic, keyboard>>

PIT_F_REF == 1193182
PIT_MIN_FREQUENCY == PIT_F_REF \div 65535

\* Plausible bug: interrupts stay off after success too.
PitInit_NoSti ==
    /\ Step("pit_init", "enable_timer")
    /\ allowed' = FALSE
    /\ UNCHANGED <<pic, keyboard>>

\* pit_init_channel; a frequency out of bounds leaves interrupts off.
PitInit ==
    /\ Step("pit_init", "enable_timer")
    /\ allowed' = (Frequency \in PIT_MIN_FREQUENCY .. PIT_F_REF)
    /\ UNCHANGED <<pic, keyboard>>

EnableTimer ==
    /\ Step("enable_timer", "ps2_init")
    /\ pic' = EnableIrq(TIMER)
    /\ UNCHANGED <<allowed, keyboard>>

\* Reading the controller's byte ends its request for an interrupt, unless the
\* PIC remembers it.
AfterRead == {pic, [pic EXCEPT ![1].request = @ \ {KEYBOARD}]}

\* ps2_init_controller: interrupts of the ports are disabled, ...
DisablePorts ==
    /\ Step("ps2_init", "ps2_test")
    /\ full' = FALSE
    /\ announces' = FALSE
    /\ pic' \in AfterRead
    /\ UNCHANGED <<allowed, unread>>

\* ... answers are polled, ...
Poll ==
    /\ stage \in {"ps2_test", "ps2_identify"}
    /\ handler = NoHandler
    /\ full
    /\ full' = FALSE
    /\ pic' \in AfterRead
    /\ UNCHANGED <<allowed, handler, kmain, announces, unread>>

\* ... a self test or port that fails ends it, ...
Fail ==
    /\ Step("ps2_test", "idle")
    /\ announces' \in BOOLEAN
    /\ pic' = IF announces' /\ full THEN Raised(pic, KEYBOARD) ELSE pic
    /\ UNCHANGED <<allowed, full, unread>>

\* Plausible bug: port 1 is enabled without its interrupt.
EnableWorkingPorts_NoInterrupt ==
    /\ Step("ps2_test", "ps2_identify")
    /\ UNCHANGED <<pic, allowed, keyboard>>

\* ... working ports are enabled with their interrupts, ...
EnableWorkingPorts ==
    /\ Step("ps2_test", "ps2_identify")
    /\ announces' = TRUE
    /\ pic' = IF full THEN Raised(pic, KEYBOARD) ELSE pic
    /\ UNCHANGED <<allowed, full, unread>>

\* ... and the interrupt is enabled last.
EnableKeyboard ==
    /\ Step("ps2_identify", "idle")
    /\ pic' = EnableIrq(KEYBOARD)
    /\ UNCHANGED <<allowed, keyboard>>

Kernel == \/ PicInit \/ Sti \/ PitInit \/ EnableTimer
          \/ DisablePorts \/ Poll \/ Fail \/ EnableWorkingPorts \/ EnableKeyboard

-----------------------------------------------------------------------------
(* Interrupts.                                                             *)

\* Every vector has an interrupt gate, which switches interrupts off.
Enter(line, vector) ==
    /\ handler' = [line |-> line, vector |-> vector, at |-> "body"]
    /\ allowed' = FALSE

TakeInterrupt(line) ==
    /\ allowed
    /\ line \in Pending
    /\ pic' = IF line < 8 THEN [pic EXCEPT ![1] = Serving(@, line)]
              ELSE [pic EXCEPT ![1] = Serving(@, PIC_CASCADE_IRQ), ![2] = Serving(@, line - 8)]
    /\ Enter(line, pic[ChipOf(line)].offset + (line % 8))
    /\ UNCHANGED <<kmain, keyboard>>

\* The buffer drops its oldest event when it is full.
Appended(n) == IF n < BufferSize THEN n + 1 ELSE n

\* interrupt_handler up to pic_send_eoi: the timer's handler prints all events, the
\* keyboard's takes a byte that may complete an event (or gives up and decodes a
\* zero).  Any vector below INT_EXT_INT0 halts the system.
HandleInterrupt ==
    /\ handler.at = "body"
    /\ handler.vector \in ExternalVectors
    /\ unread' \in CASE handler.vector = INT_EXT_INT0 -> {0}
                     [] handler.vector = INT_EXT_INT1 -> {unread, Appended(unread)}
                     [] OTHER -> {unread}
    /\ full' = (full /\ handler.vector # INT_EXT_INT1)
    /\ handler' = [handler EXCEPT !.at = "end"]
    /\ UNCHANGED <<pic, allowed, kmain, announces>>

\* pic_send_eoi, and iretq in isr_common.
EndOfInterrupt ==
    /\ handler.at = "end"
    /\ pic' = SendEoi(handler.vector - INT_EXT_INT0)
    /\ handler' = NoHandler
    /\ allowed' = TRUE
    /\ UNCHANGED <<kmain, keyboard>>

-----------------------------------------------------------------------------
(* Devices.                                                                *)

\* The timer ticks, but not during a timer interrupt that has nothing to print: that
\* is over long before the next tick.
PrintsNothing == handler.vector = INT_EXT_INT0 /\ (handler.at = "end" \/ unread = 0)

Tick ==
    /\ ~PrintsNothing
    /\ pic' = Raised(pic, TIMER)
    /\ UNCHANGED <<allowed, handler, kmain, keyboard>>

\* A key is pressed or a command answered.
DeviceByte ==
    /\ ~full
    /\ full' = TRUE
    /\ pic' = IF announces THEN Raised(pic, KEYBOARD) ELSE pic
    /\ UNCHANGED <<allowed, handler, kmain, announces, unread>>

OtherDevice(line) ==
    /\ pic' = Raised(pic, line)
    /\ UNCHANGED <<allowed, handler, kmain, keyboard>>

-----------------------------------------------------------------------------
(* Specification.                                                          *)

\* The firmware's offsets, everything masked, as the bootloader leaves it.
InterruptsInit ==
    /\ pic = [c \in Chips |-> [request |-> {}, service |-> {}, mask |-> 0 .. 7,
                               offset |-> IF c = 1 THEN 8 ELSE 112,
                               auto |-> FALSE, expects |-> "mask"]]
    /\ allowed = FALSE
    /\ handler = NoHandler
    /\ stage = "pic_init"
    /\ written = 0
    /\ full \in BOOLEAN
    /\ announces \in BOOLEAN
    /\ unread = 0

InterruptsNext ==
    \/ Kernel
    \/ \E line \in Lines : TakeInterrupt(line)
    \/ HandleInterrupt
    \/ EndOfInterrupt
    \/ Tick
    \/ DeviceByte
    \/ \E line \in OtherLines : OtherDevice(line)

\* Handlers return, the timer goes on, and the processor takes an interrupt at the
\* next instruction, so none is overtaken by the timer for ever.
Fairness == /\ WF_interruptsVars(HandleInterrupt)
            /\ WF_interruptsVars(EndOfInterrupt)
            /\ WF_interruptsVars(Tick)
            /\ \A line \in Lines : SF_interruptsVars(TakeInterrupt(line))

InterruptsSpec == InterruptsInit /\ [][InterruptsNext]_interruptsVars /\ Fairness

-----------------------------------------------------------------------------
(* Properties.                                                             *)

\* A device's interrupt never arrives at an exception's vector, where the system
\* halts, nor at the handler of another line.
RightHandler == handler # NoHandler => handler.vector = INT_EXT_INT0 + handler.line

\* Every interrupt is acknowledged by the time its handler returns: one that stays
\* in service would block its own line and those behind it for good.
NothingLeftInService == handler = NoHandler => pic[1].service = {} /\ pic[2].service = {}

\* Answers that ps2_init_controller polls for are not taken by the keyboard's
\* interrupt handler.
AnswersReachInit == stage \in {"ps2_init", "ps2_test", "ps2_identify"} => handler.vector # INT_EXT_INT1

\* No byte waits unannounced, whether it came while kmain initialises the controller,
\* while the interrupt was masked, or while another was in service: the PIC has a
\* request for it, or the handler is about to read it.  pic_init takes its masks
\* off for a moment, before interrupts are on.
ByteAnnounced ==
    full /\ stage # "pic_init" /\ KEYBOARD \notin pic[1].mask
        => \/ KEYBOARD \in pic[1].request
           \/ handler.vector = INT_EXT_INT1 /\ handler.at = "body"

\* Once the keyboard's interrupt is enabled, every byte is read and every key event
\* printed, however often the timer ticks.
KeysArePrinted ==
    /\ (full /\ KEYBOARD \notin pic[1].mask /\ stage = "idle") ~> ~full
    /\ (unread > 0) ~> (unread = 0)
==============================================================================

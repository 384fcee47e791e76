-------------------------------- MODULE Console --------------------------------
(***************************************************************************)
(* All the kernel writes, and when: kmain's text on the terminal, the log    *)
(* that begins on the terminal and moves to the serial port once that has    *)
(* passed its test (main.c, logging.c, drivers/serial.c), the timer's        *)
(* handler that writes what was typed to both, and exceptions.              *)
(*                                                                         *)
(* A handler runs with interrupts off and to its end, but may begin between  *)
(* any two writes of kmain, and between kmain's look at the serial port and  *)
(* the byte it then sends.                                                 *)
(***************************************************************************)
EXTENDS Terminal, Serial, Text, KeyboardLayout

CONSTANTS MaxKeys,        \* bound: key events typed in all
          Typed,          \* the key events that can happen
          Faults          \* exceptions: error code, address, missing argument

ASSUME ConsoleAssumption == Typed \subseteq KeyEvents

VARIABLES boot,       \* how far kmain has come
          todo,       \* what kmain and the handler have yet to write in this step
          works,      \* whether the port does
          keys        \* number of key events so far

vars == <<termVars, serialVars, boot, todo, works, keys>>

-----------------------------------------------------------------------------
(* What is written: characters, or a change of the color, each with its place. *)

To(place, text) == [i \in DOMAIN text |-> [place |-> place, c |-> text[i]]]

LogTo(place, level, msg, args) ==
    To(place, logging_log_msg(LOGGING_LEVEL_DEBUG, level, msg, args))

\* kmain's first lines, in three colors.
Banner == To("terminal", <<"J", "o", "e", "\n">>) \o To("color", <<"red">>)
            \o To("terminal", <<"o", "\t">>) \o To("color", <<"purple">>)
            \o To("terminal", <<"o", "\n">>) \o To("color", <<"white">>)

\* The next thing ctx writes goes to this place, and is written.
Writing(ctx, place) ==
    /\ Runs(ctx)
    /\ todo[ctx] # <<>> /\ Head(todo[ctx]).place = place

Written(ctx) ==
    /\ todo' = [todo EXCEPT ![ctx] = Tail(@)]
    /\ UNCHANGED <<boot, works, keys>>

WriteTerminal(ctx) ==
    /\ Writing(ctx, "terminal")
    /\ PutChar(Head(todo[ctx]).c)
    /\ Written(ctx)
    /\ UNCHANGED serialVars

ChangeColor(ctx) ==
    /\ Writing(ctx, "color")
    /\ SetColor(Head(todo[ctx]).c)
    /\ Written(ctx)
    /\ UNCHANGED serialVars

\* serial_log_write: look at the status, ...
LookAtPort(ctx) ==
    /\ Writing(ctx, "serial")
    /\ AwaitTransmitter(ctx)
    /\ UNCHANGED <<termVars, boot, todo, works, keys>>

\* ... then write.
WritePort(ctx) ==
    /\ Writing(ctx, "serial")
    /\ SendByte(ctx)
    /\ Written(ctx)
    /\ UNCHANGED termVars

\* A port that works sends what it was given.
PortTransmits ==
    /\ works
    /\ Transmit
    /\ UNCHANGED <<termVars, boot, todo, works, keys>>

-----------------------------------------------------------------------------
(* kmain.  What its parts log is one message of one character here.         *)

Step(label, next, writes) ==
    /\ handler = "none" /\ todo["kmain"] = <<>>
    /\ boot = label /\ boot' = next
    /\ todo' = [todo EXCEPT !["kmain"] = writes]
    /\ UNCHANGED <<termVars, works, keys>>

\* logging_set_backend(terminal_log_write), gdt_init and gdt_install.
LogToTerminal ==
    /\ Step("banner", "gdt", LogTo("terminal", LOGGING_LEVEL_INFO, <<"g">>, <<>>))
    /\ LogElsewhere

\* idt_init and idt_install.
InstallIdt ==
    /\ Step("gdt", "idt", LogTo(backend, LOGGING_LEVEL_INFO, <<"i">>, <<>>))
    /\ UNCHANGED serialVars

\* serial_init ...
InitSerial ==
    /\ Step("idt", "serial_init", LogTo(backend, LOGGING_LEVEL_INFO, <<"s">>, <<>>))
    /\ UNCHANGED serialVars

\* ... tests the port, ...
TestPort ==
    /\ Step("serial_init", "test", <<>>)
    /\ BeginTest

\* ... from which the byte has come back, ...
LoopbackOk ==
    /\ uart.looped
    /\ Step("test", "passed", LogTo(backend, LOGGING_LEVEL_INFO, <<"k">>, <<>>))
    /\ UNCHANGED serialVars

\* ... or not, or not yet: nothing waits for it.
LoopbackFailed ==
    /\ ~uart.looped
    /\ Step("test", "failed", LogTo(backend, LOGGING_LEVEL_ERROR, <<"l">>, <<>>))
    /\ UNCHANGED serialVars

\* Plausible bug: kmain does not look at what serial_init returns.
RefusePort_Ignored ==
    /\ Step("failed", "drivers", LogTo("serial", LOGGING_LEVEL_INFO, <<"p">>, <<>>))
    /\ EndTest("serial")

\* kmain stops if serial_init fails, ...
RefusePort ==
    /\ Step("failed", "refused", LogTo(backend, LOGGING_LEVEL_ERROR, <<"e">>, <<>>))
    /\ EndTest(backend)

\* Plausible bug: only a failed test leaves loopback mode.
LogToSerial_InLoopback ==
    /\ Step("passed", "drivers", LogTo("serial", LOGGING_LEVEL_INFO, <<"p">>, <<>>))
    /\ backend' = "serial"
    /\ UNCHANGED <<portVars, ready, handler>>

\* ... else logs to the port from now on: what pmm_init and the others say.
LogToSerial ==
    /\ Step("passed", "drivers", LogTo("serial", LOGGING_LEVEL_INFO, <<"p">>, <<>>))
    /\ EndTest("serial")

\* sti, and what ps2_init_controller says.
EnableInterrupts ==
    /\ Step("drivers", "running",
            LogTo(backend, LOGGING_LEVEL_INFO, <<"%", "x", "%", "s">>, <<10, <<"b">>>>))
    /\ UNCHANGED serialVars

\* hcf: kmain stops, with interrupts still on if they were.
Hcf == /\ Step("refused", "halted", <<>>) \/ Step("running", "idle", <<>>)
       /\ UNCHANGED serialVars

Kernel == \/ LogToTerminal \/ InstallIdt \/ InitSerial \/ TestPort
          \/ LoopbackOk \/ LoopbackFailed \/ RefusePort \/ LogToSerial
          \/ EnableInterrupts \/ Hcf

-----------------------------------------------------------------------------
(* Handlers.                                                               *)

Enter(kind, writes) ==
    /\ Interrupt(kind)
    /\ todo' = [todo EXCEPT !["handler"] = writes]
    /\ UNCHANGED <<termVars, boot, works>>

\* The timer's handler finds a key event in the buffer.
TimerInterrupt(e) ==
    /\ boot \in {"running", "idle"}
    /\ keys < MaxKeys
    /\ keys' = keys + 1
    /\ LET typed == kbd_key_event_to_ascii(e)
       IN  Enter("timer", To("terminal", printf(<<"%", "s">>, <<typed>>).out)
                            \o LogTo(backend, LOGGING_LEVEL_INFO, <<"%", "s">>, <<typed>>))

\* kmain does something the processor has an exception for.
Exception(f) ==
    /\ boot \notin {"banner", "gdt", "halted", "idle"}
    /\ Enter("exception", To(backend, Report(f.vector, f.error_code, f.cr2, f.missing)))
    /\ UNCHANGED keys

\* After an exception there is no return.
ReturnFromInterrupt ==
    /\ handler = "timer" /\ todo["handler"] = <<>>
    /\ Return
    /\ UNCHANGED <<termVars, boot, todo, works, keys>>

-----------------------------------------------------------------------------
(* Specification.                                                          *)

Init == /\ TerminalInit
        /\ SerialInit
        /\ boot = "banner"
        /\ todo = [kmain |-> Banner, handler |-> <<>>]
        /\ works \in BOOLEAN
        /\ keys = 0

Writes(ctx) == WriteTerminal(ctx) \/ ChangeColor(ctx) \/ LookAtPort(ctx) \/ WritePort(ctx)

Next == \/ Kernel
        \/ \E ctx \in Contexts : Writes(ctx)
        \/ PortTransmits
        \/ \E e \in Typed : TimerInterrupt(e)
        \/ \E f \in Faults : Exception(f)
        \/ ReturnFromInterrupt

\* kmain and handlers go on, and so does a port that works.
Fairness == /\ WF_vars(Kernel)
            /\ \A ctx \in Contexts : WF_vars(Writes(ctx))
            /\ WF_vars(ReturnFromInterrupt)
            /\ WF_vars(PortTransmits)

Spec == Init /\ [][Next]_vars /\ Fairness

-----------------------------------------------------------------------------
(* Properties.                                                             *)

\* The kernel as a whole uses terminal and port as their modules take for granted,
\* so what is proved of those holds here: one character at a time on the terminal,
\* nothing on the port but in normal mode, by whoever runs, after a look at its status.
UsesTerminalAndPort == TerminalSpec /\ SerialSpec

\* Nothing waits for the serial port for ever: kmain comes to its end, or to an exception,
\* and a handler that has begun writes all it has to say, whether the port works,
\* does not, or answers its test too late.
EverythingIsWritten ==
    /\ <>(boot \in {"halted", "idle"} \/ handler = "exception")
    /\ (handler # "none") ~> (todo["handler"] = <<>>)
==============================================================================

-------------------------------- MODULE Serial --------------------------------
(***************************************************************************)
(* The serial port (kernel/src/drivers/serial.c): its test, and sending by   *)
(* kmain and by the handlers that interrupt it.  A handler runs to its end,  *)
(* but may begin between kmain's look at the transmit buffer and the byte it *)
(* then writes.                                                             *)
(***************************************************************************)
EXTENDS Integers, Sequences

CONSTANT FifoDepth      \* bytes the port's transmit FIFO holds

ASSUME FifoAssumption == FifoDepth \in Nat \ {0, 1}

VARIABLES uart,       \* the port
          ready,      \* who has seen the transmit buffer empty, and will send
          sent,       \* number of bytes each has sent
          arrived,    \* number of bytes of each that have left the port
          handler,    \* the handler that runs
          backend     \* of the log: where characters go

portVars == <<uart, sent, arrived>>
serialVars == <<portVars, ready, handler, backend>>

Contexts == {"kmain", "handler"}
Handlers == {"timer", "exception"}

Runs(ctx) == IF handler = "none" THEN ctx = "kmain" ELSE ctx = "handler"

TestByte == [from |-> "test", nth |-> 0]

SerialInit == /\ uart = [fifo |-> <<>>, fifos |-> FALSE, loopback |-> FALSE, looped |-> FALSE]
              /\ ready = [c \in Contexts |-> FALSE]
              /\ sent = [c \in Contexts |-> 0]
              /\ arrived = [c \in Contexts \union {"test"} |-> 0]
              /\ handler = "none"
              /\ backend = "none"

\* Plausible bug: the FIFOs stay off.
Configured_NoFifos == [fifo |-> <<>>, fifos |-> FALSE, loopback |-> TRUE, looped |-> FALSE]

\* What serial_init and serial_test make of the port: empty FIFOs that are on, and
\* loopback mode.
Configured == [fifo |-> <<>>, fifos |-> TRUE, loopback |-> TRUE, looped |-> FALSE]

\* A byte the port has no room for is lost.
Received(port, byte) ==
    IF Len(port.fifo) < (IF port.fifos THEN FifoDepth ELSE 1)
    THEN [port EXCEPT !.fifo = Append(@, byte)] ELSE port

\* serial_init, and serial_test up to the read that finds the byte or not.
BeginTest ==
    /\ handler = "none" /\ backend # "serial"
    /\ uart' = Received(Configured, TestByte)
    /\ UNCHANGED <<sent, arrived, ready, handler, backend>>

\* Back to normal mode, and a new backend if the test was passed.
EndTest(to) ==
    /\ handler = "none" /\ backend # "serial"
    /\ uart.loopback
    /\ uart' = [uart EXCEPT !.loopback = FALSE]
    /\ backend' = to
    /\ UNCHANGED <<sent, arrived, ready, handler>>

TransmitterEmpty == uart.fifo = <<>>

\* serial_send_byte: the transmit buffer is seen to be empty, ...
AwaitTransmitter(ctx) ==
    /\ Runs(ctx) /\ backend = "serial"
    /\ ~ready[ctx]
    /\ TransmitterEmpty
    /\ ready' = [ready EXCEPT ![ctx] = TRUE]
    /\ UNCHANGED <<portVars, handler, backend>>

\* ... and the byte is written, which an interrupt may have delayed.
SendByte(ctx) ==
    /\ Runs(ctx) /\ ready[ctx]
    /\ ready' = [ready EXCEPT ![ctx] = FALSE]
    /\ sent' = [sent EXCEPT ![ctx] = @ + 1]
    /\ uart' = Received(uart, [from |-> ctx, nth |-> sent'[ctx]])
    /\ UNCHANGED <<arrived, handler, backend>>

\* The port is done with a byte: it has left, or is back at a port in loopback mode.
Transmit ==
    /\ uart.fifo # <<>>
    /\ uart' = [uart EXCEPT !.fifo = Tail(@), !.looped = @ \/ uart.loopback]
    /\ arrived' = IF uart.loopback THEN arrived
                  ELSE [arrived EXCEPT ![Head(uart.fifo).from] = Head(uart.fifo).nth]
    /\ UNCHANGED <<sent, ready, handler, backend>>

Interrupt(kind) ==
    /\ handler = "none"
    /\ handler' = kind
    /\ UNCHANGED <<portVars, ready, backend>>

\* A handler has sent what it began to send.
Return ==
    /\ handler # "none" /\ ~ready["handler"]
    /\ handler' = "none"
    /\ UNCHANGED <<portVars, ready, backend>>

\* Logging begins on the terminal.
LogElsewhere ==
    /\ backend = "none"
    /\ backend' = "terminal"
    /\ UNCHANGED <<portVars, ready, handler>>

SerialNext ==
    \/ BeginTest \/ LogElsewhere
    \/ \E to \in {backend, "serial"} : EndTest(to)
    \/ \E ctx \in Contexts : AwaitTransmitter(ctx) \/ SendByte(ctx)
    \/ Transmit
    \/ \E kind \in Handlers : Interrupt(kind)
    \/ Return

SerialSpec == SerialInit /\ [][SerialNext]_serialVars

-----------------------------------------------------------------------------
(* Properties.                                                             *)

\* No byte is lost on its way through the port and none overtakes another of the same
\* writer, although a handler may fill the transmit buffer between kmain's look
\* at it and its write: what has been sent and has not left waits, in order.
SerialKeepsText ==
    \A ctx \in Contexts :
        /\ \A n \in arrived[ctx] + 1 .. sent[ctx] :
              \E i \in 1 .. Len(uart.fifo) : uart.fifo[i] = [from |-> ctx, nth |-> n]
        /\ \A i, j \in 1 .. Len(uart.fifo) :
              i < j /\ uart.fifo[i].from = ctx /\ uart.fifo[j].from = ctx
                => uart.fifo[i].nth < uart.fifo[j].nth

-----------------------------------------------------------------------------
(* What is needed to prove it.                                             *)

Bytes == [from : Contexts \union {"test"}, nth : Nat]

PortTypeOK ==
    /\ uart \in [fifo : Seq(Bytes), fifos : BOOLEAN, loopback : BOOLEAN, looped : BOOLEAN]
    /\ ready \in [Contexts -> BOOLEAN]
    /\ sent \in [Contexts -> Nat]
    /\ arrived \in [Contexts \union {"test"} -> Nat]
    /\ handler \in {"none"} \union Handlers
    /\ backend \in {"none", "terminal", "serial"}

\* The port carries the log only in normal mode with its FIFOs on, and nothing before.
InUse ==
    /\ uart.loopback => uart.fifos
    /\ backend = "serial" => uart.fifos /\ ~uart.loopback
    /\ backend # "serial" =>
         \A ctx \in Contexts : sent[ctx] = 0 /\ arrived[ctx] = 0 /\ ~ready[ctx]
    /\ backend # "serial" => Len(uart.fifo) <= 1

\* There is room for whoever is about to send: a handler finds the buffer as it saw it,
\* kmain finds at most the last byte of a handler in it.
RoomToSend ==
    /\ Len(uart.fifo) <= 2
    /\ ready["kmain"] => Len(uart.fifo) <= 1
    /\ ready["handler"] => Len(uart.fifo) = 0 /\ handler # "none"

\* What waits has been sent and has not left, and nothing leaves that was not sent.
WaitingSent ==
    /\ \A ctx \in Contexts : arrived[ctx] <= sent[ctx]
    /\ \A i \in 1 .. Len(uart.fifo) :
        uart.fifo[i].from \in Contexts =>
            /\ arrived[uart.fifo[i].from] < uart.fifo[i].nth
            /\ uart.fifo[i].nth <= sent[uart.fifo[i].from]

PortInv == PortTypeOK /\ InUse /\ RoomToSend /\ WaitingSent /\ SerialKeepsText
==============================================================================

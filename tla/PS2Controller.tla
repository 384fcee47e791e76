----------------------------- MODULE PS2Controller -----------------------------
(***************************************************************************)
(* ps2_init_controller, kernel/src/drivers/ps2.c, with the functions it     *)
(* calls down to ps2_kbd_init of ps2_keyboard.c, against a controller and   *)
(* the devices at its two ports.  The kernel thread polls; IRQ 1 is masked  *)
(* until the last step, so no handler takes bytes away from it.            *)
(*                                                                         *)
(* out is the output buffer with what the devices have ready to follow it:  *)
(* devices answer before the driver gives up waiting, and a timeout is a   *)
(* read when nothing is there.  The controller itself answers at once, so   *)
(* a command and the read of its answer are one step: a byte from a device  *)
(* comes before both or after both.                                        *)
(***************************************************************************)
EXTENDS Naturals, Sequences

CONSTANTS MaxResends,    \* how often devices ask for a byte again, in all
          MaxTyped       \* how many keys are typed during the initialisation

ASSUME BoundsAssumption == MaxResends \in Nat /\ MaxTyped \in Nat

VARIABLES pc,        \* where the kernel thread is
          call,      \* the call of ps2_send_byte it makes
          acked,     \* whether the last call returned PS2_OK
          drv,       \* what the driver knows
          config,    \* the controller's configuration byte
          out,       \* bytes to be read
          dev,       \* the devices
          machine,   \* what the machine is like
          resends, typed

deviceVars == <<dev, machine, resends, typed>>
vars == <<pc, call, acked, drv, config, out, deviceVars>>

Ports == {1, 2}

-----------------------------------------------------------------------------
(* Bytes.                                                                  *)

Bit(byte, n) == (byte \div 2^n) % 2 = 1
SetBit(byte, n) == IF Bit(byte, n) THEN byte ELSE byte + 2^n
ClearBit(byte, n) == IF Bit(byte, n) THEN byte - 2^n ELSE byte

\* Bits of the configuration byte; a set clock bit disables the port.
IntBit(p) == p - 1
ClockBit(p) == p + 3
TRANSLATION == 6

ACK == 250
RESEND == 254
SELFTEST_PASSED == 170
CONTROLLER_TEST_PASSED == 85
CONTROLLER_TEST_FAILED == 252
PORT_TEST_PASSED == 0
KBD_AT == 131071

\* ps2_device_is_keyboard; 0xab83 and 0xabc1 are MF2 keyboards.
IsKeyboard(device_type) == device_type \in {KBD_AT, 43907, 43969}

\* ps2_receive_byte: 0 after a timeout.
Received(bytes) == IF bytes = <<>> THEN 0 ELSE Head(bytes)
Rest(bytes) == IF bytes = <<>> THEN <<>> ELSE Tail(bytes)

-----------------------------------------------------------------------------
(* The controller and its devices.                                         *)

Keyboards == {"mf2", "at"}
Kinds == {"none", "mouse"} \union Keyboards
Device(kind) == [kind |-> kind, scanning |-> kind \in Keyboards, set |-> 2, wants_set |-> FALSE]

\* A controller without a second port keeps it disabled.
Accepted(byte) == IF machine.has_port_2 THEN byte ELSE SetBit(byte, ClockBit(2))

\* Configurations the firmware leaves, and the one a self test may leave.
FirmwareConfigs == {71, 101}
ResetConfig == 3

KeyByte == 28

\* What becomes of a device that is sent a byte, and its answer.
Commands == {"reset", "disable scanning", "enable scanning", "identify", "set scancode set", "set 1"}

AfterByte(d, byte) ==
    CASE byte = "reset" -> Device(d.kind)
      [] byte = "set scancode set" -> [d EXCEPT !.wants_set = d.kind \in Keyboards]
      [] byte = "set 1" -> [d EXCEPT !.set = IF d.wants_set THEN 1 ELSE @, !.wants_set = FALSE]
      [] OTHER -> [d EXCEPT !.scanning = byte = "enable scanning" \/ (@ /\ byte = "identify"),
                            !.wants_set = FALSE]

Answer(d, byte) ==
    CASE byte = "reset" -> <<ACK, SELFTEST_PASSED>> \o (IF d.kind = "mouse" THEN <<0>> ELSE <<>>)
      [] byte = "identify" -> <<ACK>> \o (CASE d.kind = "mf2" -> <<171, 131>>
                                            [] d.kind = "mouse" -> <<0>>
                                            [] d.kind = "at" -> <<>>)
      [] byte = "set 1" /\ ~d.wants_set -> <<RESEND>>
      [] OTHER -> <<ACK>>

\* Nothing answers from a port that is disabled, absent or without a device.
Reachable(p) == dev[p].kind # "none" /\ ~Bit(config, ClockBit(p))

-----------------------------------------------------------------------------
(* Control flow.                                                           *)

At(label) == pc = label /\ UNCHANGED <<acked, deviceVars>>
Goto(label) == pc' = label /\ UNCHANGED call
Call(p, byte, then) == /\ call' = [port |-> p, data |-> byte, attempt |-> 1, then |-> then]
                       /\ pc' = "send"

PS2_MAX_RESENDS == 5

\* Plausible bug: any answer will do.
Acknowledges_AnyAnswer(bytes) == bytes # <<>>

\* Whether an answer ends ps2_send_byte.
Acknowledges(bytes) == Received(bytes) = ACK

\* Plausible bug: an attempt that failed does not count.
AfterAttempt_NotCounted == IF acked' THEN Goto(call.then) ELSE UNCHANGED <<call, pc>>

AfterAttempt ==
    IF acked' \/ call.attempt = PS2_MAX_RESENDS THEN Goto(call.then)
    ELSE call' = [call EXCEPT !.attempt = @ + 1] /\ pc' = "send"

\* An attempt of ps2_send_byte: the device takes the byte, asks for it again or
\* is not there; then one byte is read.  Anything but ACK starts another attempt.
SendByte ==
    /\ pc = "send"
    /\ \/ /\ Reachable(call.port)
          /\ dev' = [dev EXCEPT ![call.port] = AfterByte(@, call.data)]
          /\ LET bytes == out \o Answer(dev[call.port], call.data)
             IN  acked' = Acknowledges(bytes) /\ out' = Rest(bytes)
          /\ UNCHANGED resends
       \/ /\ Reachable(call.port)
          /\ resends < MaxResends
          /\ resends' = resends + 1
          /\ LET bytes == Append(out, RESEND)
             IN  acked' = Acknowledges(bytes) /\ out' = Rest(bytes)
          /\ UNCHANGED dev
       \/ /\ ~Reachable(call.port)
          /\ acked' = Acknowledges(out)
          /\ out' = Rest(out)
          /\ UNCHANGED <<dev, resends>>
    /\ AfterAttempt
    /\ UNCHANGED <<drv, config, machine, typed>>

-----------------------------------------------------------------------------
(* ps2_init_controller up to the reset of the devices.                     *)

Return(code) == drv' = [drv EXCEPT !.result = code] /\ Goto("done")

\* Flush, disable both ports, flush, set the configuration.  The port 1 clock
\* bit is cleared, which enables the port.
Prepare ==
    /\ At("start")
    /\ out' = <<>>
    /\ config' = SetBit(ClearBit(ClearBit(ClearBit(ClearBit(config,
                   IntBit(1)), IntBit(2)), ClockBit(1)), TRANSLATION), ClockBit(2))
    /\ drv' = [drv EXCEPT !.config_byte = config']
    /\ Goto("self_test")

\* The self test may reset the configuration, so it is written again.
SelfTest ==
    LET bytes == Append(out, IF machine.healthy THEN CONTROLLER_TEST_PASSED ELSE CONTROLLER_TEST_FAILED)
    IN  /\ At("self_test")
        /\ out' = Rest(bytes)
        /\ IF Received(bytes) = CONTROLLER_TEST_PASSED
           THEN config' = drv.config_byte /\ Goto("find_port_2") /\ UNCHANGED drv
           ELSE config' \in {config, Accepted(ResetConfig)} /\ Return("PS2_ERROR_CONTROLLER_TEST_FAILED")

\* Port 2 is enabled and the configuration read, of which the interrupt bit is
\* tested, not the clock bit.
FindPort2 ==
    LET enabled == Accepted(ClearBit(config, ClockBit(2)))
        bytes == Append(out, enabled)
    IN  /\ At("find_port_2")
        /\ out' = Rest(bytes)
        /\ drv' = [drv EXCEPT !.port_2_supported = ~Bit(Received(bytes), IntBit(2))]
        /\ config' = IF drv'.port_2_supported THEN drv.config_byte ELSE enabled
        /\ Goto("test")

\* Both ports are tested with the command that tests port 1.
TestPort ==
    LET bytes == Append(out, IF machine.port_1_ok THEN PORT_TEST_PASSED ELSE 1)
        again == drv.port = 1 /\ drv.port_2_supported
    IN  /\ At("test")
        /\ out' = Rest(bytes)
        /\ drv' = [drv EXCEPT !.port = IF again THEN 2 ELSE 1,
                              !.works = IF Received(bytes) = PORT_TEST_PASSED
                                        THEN @ \union {drv.port} ELSE @]
        /\ Goto(IF again THEN "test" ELSE "enable")
        /\ UNCHANGED config

EnablePorts ==
    LET Enabled(byte, p) == IF p \in drv.works THEN SetBit(ClearBit(byte, ClockBit(p)), IntBit(p))
                            ELSE byte
    IN  /\ At("enable")
        /\ IF drv.works = {} THEN Return("PS2_ERROR_NO_WORKING_PORTS") /\ UNCHANGED config
           ELSE /\ drv' = [drv EXCEPT !.config_byte = Enabled(Enabled(@, 1), 2)]
                /\ config' = Accepted(drv'.config_byte)
                /\ Goto("reset")
        /\ UNCHANGED out

-----------------------------------------------------------------------------
(* ps2_reset_device and ps2_identify_device, for each port.                *)

ResetDevice ==
    /\ At("reset")
    /\ IF drv.port \in drv.works THEN Call(drv.port, "reset", "reset_sent") ELSE Goto("reset_done")
    /\ UNCHANGED <<drv, config, out>>

\* Whatever the outcome the port counts as populated.
DeviceReset ==
    /\ At("reset_sent")
    /\ out' = IF acked THEN Rest(out) ELSE out
    /\ drv' = [drv EXCEPT !.populated = @ \union {drv.port}]
    /\ Goto("reset_done")
    /\ UNCHANGED config

ResetDone ==
    /\ At("reset_done")
    /\ drv' = [drv EXCEPT !.port = 3 - @]
    /\ Goto(IF drv.port = 1 THEN "reset" ELSE "identify")
    /\ UNCHANGED <<config, out>>

\* Plausible bug: what was there before is not flushed.
IdentifyDevice_NoFlush ==
    /\ At("identify")
    /\ IF 1 \in drv.populated THEN Call(drv.port, "disable scanning", "stopped") ELSE Goto("finish")
    /\ UNCHANGED <<drv, config, out>>

\* Both ports depend on port 1 being populated.
IdentifyDevice ==
    /\ At("identify")
    /\ IF 1 \in drv.populated THEN out' = <<>> /\ Call(drv.port, "disable scanning", "stopped")
       ELSE UNCHANGED out /\ Goto("finish")
    /\ UNCHANGED <<drv, config>>

\* The configuration is saved and translation disabled.
SaveConfig ==
    LET bytes == Append(out, config)
    IN  /\ At("stopped")
        /\ IF acked
           THEN /\ drv' = [drv EXCEPT !.saved = Received(bytes)]
                /\ out' = Rest(bytes)
                /\ config' = Accepted(ClearBit(drv'.saved, TRANSLATION))
                /\ Call(drv.port, "identify", "asked")
           ELSE Goto("identified") /\ UNCHANGED <<drv, out, config>>

\* The first byte of the answer; without one it is an AT keyboard.
ReadIdHigh ==
    /\ At("asked")
    /\ IF acked
       THEN /\ drv' = [drv EXCEPT !.device_type[drv.port] = IF out = <<>> THEN KBD_AT ELSE Head(out) * 256]
            /\ out' = Rest(out)
            /\ Goto(IF out = <<>> THEN "restore" ELSE "id_low")
       ELSE Goto("identified") /\ UNCHANGED <<drv, out>>
    /\ UNCHANGED config

\* The second byte, if there is one.
ReadIdLow ==
    /\ At("id_low")
    /\ drv' = [drv EXCEPT !.device_type[drv.port] = @ + Received(out)]
    /\ out' = Rest(out)
    /\ Goto("restore")
    /\ UNCHANGED config

RestoreConfig ==
    /\ At("restore")
    /\ config' = Accepted(drv.saved)
    /\ Goto("identified")
    /\ UNCHANGED <<drv, out>>

\* A keyboard at either port starts the driver for port 1.
Identified ==
    /\ At("identified")
    /\ IF IsKeyboard(drv.device_type[drv.port]) /\ drv.kbd_state = "UNINITIALIZED"
       THEN Call(1, "disable scanning", "kbd_set")
       ELSE Goto("next_port")
    /\ UNCHANGED <<drv, config, out>>

-----------------------------------------------------------------------------
(* ps2_kbd_init and ps2_kbd_set_scancode_set.  What ps2_send_byte returns   *)
(* is ignored.                                                             *)

KbdSetScancodeSet ==
    /\ At("kbd_set")
    /\ drv' = [drv EXCEPT !.tries = 0]
    /\ Call(1, "set scancode set", "kbd_command")
    /\ UNCHANGED <<config, out>>

\* ps2_send_byte took the answer, so this reads what comes next.
KbdCommandSent ==
    /\ At("kbd_command")
    /\ out' = Rest(out)
    /\ Call(1, "set 1", "kbd_set_sent")
    /\ UNCHANGED <<drv, config>>

\* Only RESEND repeats the command, and the third failure ends the initialisation.
KbdSetSent ==
    /\ At("kbd_set_sent")
    /\ out' = Rest(out)
    /\ drv' = [drv EXCEPT !.tries = IF Received(out) = ACK THEN @ ELSE @ + 1]
    /\ IF drv'.tries >= 3 THEN Goto("next_port")
       ELSE IF Received(out) = RESEND THEN Call(1, "set scancode set", "kbd_command")
       ELSE Call(1, "enable scanning", "kbd_enabled")
    /\ UNCHANGED config

KbdEnabled ==
    /\ At("kbd_enabled")
    /\ drv' = [drv EXCEPT !.kbd_state = "NORMAL"]
    /\ Goto("next_port")
    /\ UNCHANGED <<config, out>>

NextPort ==
    /\ At("next_port")
    /\ drv' = [drv EXCEPT !.port = 2]
    /\ Goto(IF drv.port = 1 THEN "identify" ELSE "finish")
    /\ UNCHANGED <<config, out>>

Finish ==
    /\ At("finish")
    /\ drv' = [drv EXCEPT !.irq1_enabled = TRUE, !.result = "PS2_OK"]
    /\ Goto("done")
    /\ UNCHANGED <<config, out>>

-----------------------------------------------------------------------------
(* Specifications.                                                         *)

Init ==
    /\ machine \in [has_port_2 : BOOLEAN, port_1_ok : BOOLEAN, healthy : BOOLEAN]
    /\ \E kind_1, kind_2 \in Kinds :
         /\ ~machine.has_port_2 => kind_2 = "none"
         /\ dev = [p \in Ports |-> Device(IF p = 1 THEN kind_1 ELSE kind_2)]
    /\ \E byte \in FirmwareConfigs : config = Accepted(byte)
    /\ out \in {<<>>, <<KeyByte>>}
    /\ resends = 0
    /\ typed = 0
    /\ pc = "start"
    /\ call = [port |-> 1, data |-> "reset", attempt |-> 1, then |-> "start"]
    /\ acked = FALSE
    /\ drv = [port |-> 1, config_byte |-> 0, saved |-> 0, port_2_supported |-> FALSE, works |-> {},
              populated |-> {}, device_type |-> [p \in Ports |-> 0], tries |-> 0,
              kbd_state |-> "UNINITIALIZED", irq1_enabled |-> FALSE, result |-> "none"]

Next == \/ Prepare \/ SelfTest \/ FindPort2 \/ TestPort \/ EnablePorts
        \/ ResetDevice \/ DeviceReset \/ ResetDone
        \/ IdentifyDevice \/ SaveConfig \/ ReadIdHigh \/ ReadIdLow \/ RestoreConfig \/ Identified
        \/ KbdSetScancodeSet \/ KbdCommandSent \/ KbdSetSent \/ KbdEnabled
        \/ NextPort \/ Finish \/ SendByte

\* A key is pressed on a keyboard that scans.
TypeKey == \E p \in Ports :
    /\ typed < MaxTyped
    /\ pc # "done"
    /\ Reachable(p)
    /\ dev[p].scanning
    /\ typed' = typed + 1
    /\ out' = Append(out, KeyByte)
    /\ UNCHANGED <<pc, call, acked, drv, config, dev, machine, resends>>

\* Nobody touches the keyboard before it is initialised.  The kernel thread
\* goes on whatever happens.
QuietSpec == Init /\ [][Next]_vars /\ WF_vars(Next)

TypingSpec == Init /\ [][Next \/ TypeKey]_vars

-----------------------------------------------------------------------------
(* Properties.                                                             *)

\* A keyboard at port 1 of a machine in order is usable after the initialisation,
\* whatever is at port 2 and however often bytes have to be repeated: it scans
\* in the scan code set the driver decodes, and its interrupts arrive.
KeyboardReady ==
    pc = "done" /\ machine.healthy /\ machine.port_1_ok /\ dev[1].kind \in Keyboards
        => /\ drv.result = "PS2_OK"
           /\ drv.kbd_state = "NORMAL"
           /\ dev[1].scanning /\ dev[1].set = 1
           /\ Bit(config, IntBit(1)) /\ ~Bit(config, ClockBit(1)) /\ ~Bit(config, TRANSLATION)
           /\ drv.irq1_enabled

\* No stale byte is ever taken for the configuration: once the ports are enabled
\* the controller keeps the configuration the driver chose.
ConfigUnharmed ==
    drv.works # {} /\ pc \notin {"test", "enable"} => config = Accepted(drv.config_byte)

\* The initialisation ends, whichever devices are missing or answer wrongly.
InitTerminates == <>(pc = "done")
==============================================================================

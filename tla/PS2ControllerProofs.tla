-------------------------- MODULE PS2ControllerProofs --------------------------
(***************************************************************************)
(* The initialisation of the PS/2 controller, with nobody typing: for any   *)
(* number of bytes the devices ask for again, the controller keeps the      *)
(* configuration the driver chose; and for as many as ps2_send_byte bears,  *)
(* a keyboard at port 1 is usable at the end.                              *)
(***************************************************************************)
EXTENDS PS2Controller, SequenceTheorems, TLAPS

DeviceStates == [kind : Kinds, scanning : BOOLEAN, set : {1, 2}, wants_set : BOOLEAN]

Driver == [port : Ports, config_byte : Nat, saved : Nat, port_2_supported : BOOLEAN,
           works : SUBSET Ports, populated : SUBSET Ports, device_type : [Ports -> Nat],
           tries : Nat, kbd_state : {"UNINITIALIZED", "NORMAL"}, irq1_enabled : BOOLEAN,
           result : {"none", "PS2_OK", "PS2_ERROR_CONTROLLER_TEST_FAILED",
                     "PS2_ERROR_NO_WORKING_PORTS"}]

Prologue == {"start", "self_test", "find_port_2", "test", "enable"}
KeyboardInit == {"kbd_set", "kbd_command", "kbd_set_sent", "kbd_enabled"}

Calls == [port : Ports, data : Commands, attempt : 1 .. PS2_MAX_RESENDS,
          then : {"start", "reset_sent", "stopped", "asked"} \union KeyboardInit]

\* Where the thread is, or will be when ps2_send_byte returns.
Place == IF pc = "send" THEN call.then ELSE pc

TypeOK ==
    /\ machine \in [has_port_2 : BOOLEAN, port_1_ok : BOOLEAN, healthy : BOOLEAN]
    /\ dev \in [Ports -> DeviceStates]
    /\ ~machine.has_port_2 => dev[2].kind = "none"
    /\ drv \in Driver
    /\ call \in Calls
    /\ acked \in BOOLEAN
    /\ resends \in 0 .. MaxResends

MachineOK == machine.healthy /\ machine.port_1_ok

\* What the driver writes before it enables the ports, and what it enables them with.
PORTS_OFF == 36
PORTS_ON == 7

\* Up to the reset of the devices one state follows the other: nobody speaks, and
\* both ports work or none.
BeforeReset ==
    /\ pc = "start" => \E byte \in FirmwareConfigs : config = Accepted(byte)
    /\ pc \in Prologue \ {"start"} => out = <<>> /\ config = PORTS_OFF /\ drv.config_byte = PORTS_OFF
    /\ pc \in {"start", "self_test", "find_port_2"} => drv.works = {} /\ drv.port = 1
    /\ pc \in {"find_port_2", "test", "enable"} => machine.healthy
    /\ pc = "test" => /\ drv.port_2_supported
                      /\ drv.works = IF drv.port = 2 /\ machine.port_1_ok THEN {1} ELSE {}
    /\ pc = "enable" => drv.port = 1 /\ drv.works = IF machine.port_1_ok THEN Ports ELSE {}

\* The configuration is the chosen one from then on.
Chosen == /\ MachineOK
          /\ drv.works = Ports
          /\ drv.config_byte = PORTS_ON
          /\ config = Accepted(PORTS_ON)

AfterEnable ==
    /\ pc \notin Prologue \union {"done"} => Chosen
    /\ pc = "done" => \/ drv.result = "PS2_OK" /\ Chosen
                      \/ ~MachineOK /\ drv.works = {}

\* The bytes ps2_send_byte is called with, and where from.
CallsFit ==
    pc = "send" =>
        /\ <<call.data, call.then>> \in
             {<<"reset", "reset_sent">>, <<"disable scanning", "stopped">>, <<"identify", "asked">>,
              <<"disable scanning", "kbd_set">>, <<"set scancode set", "kbd_command">>,
              <<"set 1", "kbd_set_sent">>, <<"enable scanning", "kbd_enabled">>}
        /\ call.port = IF call.then \in KeyboardInit THEN 1 ELSE drv.port

\* The bytes a device names itself with.
IdBytes(kind) == CASE kind = "mf2" -> <<171, 131>> [] kind = "mouse" -> <<0>> [] OTHER -> <<>>

\* From the flush before a device is identified on, what there is to be read is
\* what the driver waits for.
Quiet ==
    /\ Place \in KeyboardInit \union {"stopped", "restore", "identified"} => out = <<>>
    /\ Place = "asked" /\ (pc = "send" \/ ~acked) => out = <<>>
    /\ pc = "asked" /\ acked => out = IdBytes(dev[drv.port].kind)
    /\ pc = "id_low" => /\ dev[drv.port].kind \in {"mf2", "mouse"}
                        /\ out = Tail(IdBytes(dev[drv.port].kind))

\* So is the configuration that is saved and restored.
SavedIsChosen == Place \in {"asked", "id_low", "restore"} => drv.saved = Accepted(PORTS_ON)

Inv == TypeOK /\ BeforeReset /\ AfterEnable /\ CallsFit /\ Quiet /\ SavedIsChosen

-----------------------------------------------------------------------------
(* Configuration bytes.                                                    *)

\* The constants the driver computes with.
LEMMA BitNumbers ==
    /\ IntBit(1) = 0 /\ IntBit(2) = 1 /\ ClockBit(1) = 4 /\ ClockBit(2) = 5 /\ TRANSLATION = 6
  BY DEF IntBit, ClockBit, TRANSLATION

\* What Prepare makes of a configuration of the firmware.
LEMMA PreparedConfig ==
    ASSUME NEW byte \in FirmwareConfigs
    PROVE  SetBit(ClearBit(ClearBit(ClearBit(ClearBit(Accepted(byte),
             IntBit(1)), IntBit(2)), ClockBit(1)), TRANSLATION), ClockBit(2)) = PORTS_OFF
  <1>1. Accepted(byte) \in {71, 101, 103}
    BY DEF FirmwareConfigs, Accepted, SetBit, Bit, ClockBit
  <1>2. PICK a \in {71, 101, 103} : a = Accepted(byte)
    BY <1>1
  <1>3. ClearBit(a, 0) \in {70, 100, 102}
    BY DEF ClearBit, Bit
  <1>4. PICK b \in {70, 100, 102} : b = ClearBit(a, 0)
    BY <1>3
  <1>5. ClearBit(b, 1) \in {68, 100}
    BY DEF ClearBit, Bit
  <1>6. PICK c \in {68, 100} : c = ClearBit(b, 1)
    BY <1>5
  <1>7. ClearBit(c, 4) = c
    BY DEF ClearBit, Bit
  <1>8. ClearBit(c, 6) \in {4, 36}
    BY DEF ClearBit, Bit
  <1>9. PICK d \in {4, 36} : d = ClearBit(c, 6)
    BY <1>8
  <1>10. SetBit(d, 5) = 36
    BY DEF SetBit, Bit
  <1> QED
    BY <1>2, <1>4, <1>6, <1>7, <1>9, <1>10, BitNumbers DEF PORTS_OFF

\* Port 2 is enabled for a moment.
LEMMA MomentConfig ==
    /\ Accepted(ClearBit(PORTS_OFF, ClockBit(2))) \in {4, 36}
    /\ \A byte \in {4, 36} : ~Bit(byte, IntBit(2))
  <1>1. ClearBit(36, 5) = 4 /\ SetBit(4, 5) = 36
    BY DEF ClearBit, SetBit, Bit
  <1>2. \A byte \in {4, 36} : ~Bit(byte, 1)
    BY DEF Bit
  <1> QED
    BY <1>1, <1>2, BitNumbers DEF Accepted, PORTS_OFF

\* Both ports enabled, with their interrupts.
LEMMA EnabledConfig ==
    SetBit(ClearBit(SetBit(ClearBit(PORTS_OFF, ClockBit(1)), IntBit(1)), ClockBit(2)), IntBit(2)) = PORTS_ON
  <1>1. ClearBit(36, 4) = 36 /\ SetBit(36, 0) = 37 /\ ClearBit(37, 5) = 5 /\ SetBit(5, 1) = 7
    BY DEF ClearBit, SetBit, Bit
  <1> QED
    BY <1>1, BitNumbers DEF PORTS_OFF, PORTS_ON

\* Saving the configuration, disabling translation and restoring it changes nothing.
LEMMA ChosenConfig ==
    /\ Accepted(PORTS_ON) \in {7, 39}
    /\ Accepted(ClearBit(Accepted(PORTS_ON), TRANSLATION)) = Accepted(PORTS_ON)
    /\ Accepted(Accepted(PORTS_ON)) = Accepted(PORTS_ON)
    /\ \A byte \in {7, 39} : /\ Bit(byte, IntBit(1)) /\ ~Bit(byte, ClockBit(1))
                             /\ ~Bit(byte, TRANSLATION)
  <1>1. SetBit(7, 5) = 39 /\ SetBit(39, 5) = 39 /\ ClearBit(7, 6) = 7 /\ ClearBit(39, 6) = 39
    BY DEF ClearBit, SetBit, Bit
  <1>2. \A byte \in {7, 39} : Bit(byte, 0) /\ ~Bit(byte, 4) /\ ~Bit(byte, 6)
    BY DEF Bit
  <1> QED
    BY <1>1, <1>2, BitNumbers DEF Accepted, PORTS_ON

\* Before the ports are enabled nothing answers, and then whatever is there.
LEMMA ReachableFacts ==
    ASSUME TypeOK, Chosen, NEW p \in Ports
    PROVE  Reachable(p) <=> dev[p].kind # "none"
  <1>1. \A byte \in {7, 39} : ~Bit(byte, 4) /\ (Bit(byte, 5) <=> byte = 39)
    BY DEF Bit
  <1>2. SetBit(7, 5) = 39
    BY DEF SetBit, Bit
  <1>3. config \in {7, 39} /\ (config = 39 => ~machine.has_port_2)
    BY <1>2, BitNumbers DEF Chosen, Accepted, PORTS_ON
  <1>4. p = 1 \/ p = 2
    BY DEF Ports
  <1> QED
    BY <1>1, <1>3, <1>4, BitNumbers DEF Reachable, TypeOK

-----------------------------------------------------------------------------
(* Bytes that are read.                                                    *)

\* What is appended to nothing is read at once.
LEMMA ReadAnswer ==
    ASSUME NEW b
    PROVE  /\ Received(Append(<<>>, b)) = b
           /\ Rest(Append(<<>>, b)) = <<>>
  <1>1. Append(<<>>, b) = <<b>>
    OBVIOUS
  <1>2. Head(<<b>>) = b /\ Tail(<<b>>) = <<>> /\ <<b>> # <<>>
    OBVIOUS
  <1> QED
    BY <1>1, <1>2 DEF Received, Rest

LEMMA ReadNothing == Received(<<>>) = 0 /\ Rest(<<>>) = <<>>
  BY DEF Received, Rest

\* One byte and then others.
LEMMA OneThenTheRest ==
    ASSUME NEW first \in Nat, NEW more \in Seq(Nat)
    PROVE  /\ <<first>> \o more \in Seq(Nat)
           /\ <<first>> \o more # <<>>
           /\ Head(<<first>> \o more) = first
           /\ Tail(<<first>> \o more) = more
  <1>1. PICK h : h = <<first>>
    OBVIOUS
  <1>2. h \in Seq(Nat) /\ Len(h) = 1 /\ h[1] = first
    BY <1>1
  <1>3. PICK s : s = h \o more
    OBVIOUS
  <1>4. /\ s \in Seq(Nat) /\ Len(s) = 1 + Len(more)
        /\ \A i \in 1 .. 1 + Len(more) : s[i] = IF i <= 1 THEN h[i] ELSE more[i - 1]
    BY <1>2, <1>3, ConcatProperties
  <1>5. s # <<>> /\ Head(s) = first
    BY <1>2, <1>4
  <1>6. PICK t : t = Tail(s)
    OBVIOUS
  <1>7. t = more
    <2>1. t \in Seq(Nat) /\ Len(t) = Len(more) /\ \A i \in 1 .. Len(t) : t[i] = s[i + 1]
      BY <1>4, <1>5, <1>6, HeadTailProperties
    <2>2. ASSUME NEW i \in 1 .. Len(t) PROVE t[i] = more[i]
      <3>1. i + 1 \in 1 .. 1 + Len(more) /\ ~(i + 1 <= 1) /\ (i + 1) - 1 = i
        BY <2>1
      <3> QED
        BY <1>4, <2>1, <3>1
    <2> QED
      BY <2>1, <2>2, SeqEqual
  <1> QED
    BY <1>1, <1>3, <1>4, <1>5, <1>6, <1>7

\* What devices answer after ACK.
Ids == {<<>>, <<0>>, <<171, 131>>}

\* What becomes of a device's answer when nothing is to be read before it.
Answered(d, byte, bytes) ==
    LET refused == byte = "set 1" /\ ~d.wants_set
    IN  /\ Acknowledges(bytes) <=> ~refused
        /\ Rest(bytes) = IF byte = "identify" THEN IdBytes(d.kind) ELSE <<>>
        /\ refused => AfterByte(d, byte) = d

LEMMA AnswerFacts ==
    ASSUME NEW d \in DeviceStates, d.kind # "none", NEW byte \in Commands \ {"reset"}
    PROVE  Answered(d, byte, <<>> \o Answer(d, byte))
  <1>1. d.kind \in {"mf2", "at", "mouse"}
    BY DEF DeviceStates, Kinds, Keyboards
  <1>2. ASSUME NEW first \in {ACK, RESEND}, NEW more \in Ids, NEW bytes,
               bytes = <<>> \o (<<first>> \o more)
        PROVE  (Acknowledges(bytes) <=> first = ACK) /\ Rest(bytes) = more
    <2>1. bytes # <<>> /\ Head(bytes) = first /\ Tail(bytes) = more
      <3>1. first \in Nat /\ more \in Seq(Nat)
        <4>1. <<>> \in Seq(Nat) /\ <<0>> \in Seq(Nat) /\ <<171, 131>> \in Seq(Nat)
          OBVIOUS
        <4>2. first \in Nat
          BY DEF ACK, RESEND
        <4>3. more = <<>> \/ more = <<0>> \/ more = <<171, 131>>
          BY DEF Ids
        <4> QED
          BY <4>1, <4>2, <4>3
      <3>2. PICK s : s = <<first>> \o more
        OBVIOUS
      <3>3. s \in Seq(Nat) /\ s # <<>> /\ Head(s) = first /\ Tail(s) = more
        BY <3>1, <3>2, OneThenTheRest
      <3>4. <<>> \o s = s
        BY <3>3
      <3> QED
        BY <1>2, <3>2, <3>3, <3>4
    <2> QED
      BY <2>1 DEF Acknowledges, Received, Rest
  <1>3. <<ACK>> = <<ACK>> \o <<>> /\ <<RESEND>> = <<RESEND>> \o <<>>
    BY DEF ACK, RESEND
  <1>4. PICK bytes : bytes = <<>> \o Answer(d, byte)
    OBVIOUS
  <1>5. CASE byte = "identify"
    <2>1. PICK more \in Ids : more = IdBytes(d.kind)
      BY DEF IdBytes, Ids
    <2>2. Answer(d, byte) = <<ACK>> \o more
      <3>1. Answer(d, byte) = <<ACK>> \o (CASE d.kind = "mf2" -> <<171, 131>>
                                            [] d.kind = "mouse" -> <<0>>
                                            [] d.kind = "at" -> <<>>)
        BY <1>5 DEF Answer
      <3>2. (CASE d.kind = "mf2" -> <<171, 131>> [] d.kind = "mouse" -> <<0>> [] d.kind = "at" -> <<>>)
              = more
        BY <1>1, <2>1 DEF IdBytes
      <3> QED
        BY <3>1, <3>2
    <2>3. Acknowledges(bytes) /\ Rest(bytes) = more
      BY <1>2, <1>4, <2>2
    <2> QED
      BY <1>4, <1>5, <2>1, <2>3 DEF Answered
  <1>6. CASE byte = "set 1" /\ ~d.wants_set
    <2>1. Answer(d, byte) = <<RESEND>> \o <<>>
      BY <1>3, <1>6 DEF Answer
    <2>2. ~Acknowledges(bytes) /\ Rest(bytes) = <<>>
      <3>1. ACK # RESEND
        BY DEF ACK, RESEND
      <3> QED
        BY <1>2, <1>4, <2>1, <3>1 DEF Ids
    <2>3. AfterByte(d, byte) = d
      <3>1. AfterByte(d, byte) = [d EXCEPT !.set = d.set, !.wants_set = FALSE]
        BY <1>6 DEF AfterByte
      <3> QED
        BY <1>6, <3>1 DEF DeviceStates
    <2>4. byte # "identify"
      BY <1>6
    <2> QED
      BY <1>4, <1>6, <2>2, <2>3, <2>4 DEF Answered
  <1>7. CASE byte # "identify" /\ ~(byte = "set 1" /\ ~d.wants_set)
    <2>1. Answer(d, byte) = <<ACK>> \o <<>>
      BY <1>3, <1>7 DEF Answer
    <2>2. Acknowledges(bytes) /\ Rest(bytes) = <<>>
      BY <1>2, <1>4, <2>1 DEF Ids
    <2> QED
      BY <1>4, <1>7, <2>2 DEF Answered
  <1> QED
    BY <1>5, <1>6, <1>7

\* A byte leaves a device the device it was.
LEMMA AfterByteType ==
    ASSUME NEW d \in DeviceStates, NEW byte \in Commands
    PROVE  AfterByte(d, byte) \in DeviceStates /\ AfterByte(d, byte).kind = d.kind
  <1>1. CASE byte = "reset"
    <2>1. AfterByte(d, byte) = [kind |-> d.kind, scanning |-> d.kind \in Keyboards, set |-> 2,
                                wants_set |-> FALSE]
      BY <1>1 DEF AfterByte, Device
    <2> QED
      BY <2>1 DEF DeviceStates
  <1>2. CASE byte = "set scancode set"
    <2>1. PICK wants \in BOOLEAN : wants <=> d.kind \in Keyboards
      OBVIOUS
    <2>2. AfterByte(d, byte) = [d EXCEPT !.wants_set = wants]
      BY <1>2, <2>1 DEF AfterByte
    <2> QED
      BY <2>2 DEF DeviceStates
  <1>3. CASE byte = "set 1"
    <2>1. AfterByte(d, byte) = [d EXCEPT !.set = IF d.wants_set THEN 1 ELSE d.set, !.wants_set = FALSE]
      BY <1>3 DEF AfterByte
    <2>2. (IF d.wants_set THEN 1 ELSE d.set) \in {1, 2}
      BY DEF DeviceStates
    <2> QED
      BY <2>1, <2>2 DEF DeviceStates
  <1>4. CASE byte \notin {"reset", "set scancode set", "set 1"}
    <2>1. PICK on \in BOOLEAN : on <=> byte = "enable scanning" \/ (d.scanning /\ byte = "identify")
      OBVIOUS
    <2>2. AfterByte(d, byte) = [d EXCEPT !.scanning = on, !.wants_set = FALSE]
      BY <1>4, <2>1 DEF AfterByte
    <2> QED
      BY <2>2 DEF DeviceStates
  <1> QED
    BY <1>1, <1>2, <1>3, <1>4

-----------------------------------------------------------------------------
(* ps2_send_byte.                                                          *)

\* The device took the byte.
Took == /\ acked' = TRUE
        /\ dev[call.port].kind # "none"
        /\ ~(call.data = "set 1" /\ ~dev[call.port].wants_set)
        /\ dev' = [dev EXCEPT ![call.port] = AfterByte(dev[call.port], call.data)]
        /\ out' = IF call.data = "identify" THEN IdBytes(dev[call.port].kind) ELSE <<>>
        /\ pc' = call.then /\ call' = call
        /\ resends' = resends

\* Nobody did: the device asked for it again, is not there, or was not told before
\* what the byte is about.
Refused == /\ acked' = FALSE
           /\ dev' = dev
           /\ out' = <<>>
           /\ \/ resends < MaxResends /\ resends' = resends + 1
              \/ /\ resends' = resends
                 /\ \/ dev[call.port].kind = "none"
                    \/ call.data = "set 1" /\ ~dev[call.port].wants_set
           /\ \/ call.attempt = PS2_MAX_RESENDS /\ pc' = call.then /\ call' = call
              \/ /\ call.attempt < PS2_MAX_RESENDS
                 /\ pc' = "send" /\ call' = [call EXCEPT !.attempt = call.attempt + 1]

\* If there is nothing else to be read, these are the outcomes of an attempt.
LEMMA Sent ==
    ASSUME TypeOK, Chosen, SendByte, out = <<>>, call.data # "reset"
    PROVE  Took \/ Refused
  <1>1. /\ call.port \in Ports /\ call.data \in Commands \ {"reset"}
        /\ call.attempt \in 1 .. PS2_MAX_RESENDS
        /\ dev[call.port] \in DeviceStates
        /\ dev \in [Ports -> DeviceStates]
    BY DEF TypeOK, Calls
  <1>2. Reachable(call.port) <=> dev[call.port].kind # "none"
    BY <1>1, ReachableFacts
  <1>3. acked' \in BOOLEAN /\ AfterAttempt
    BY DEF SendByte, Acknowledges
  <1>4. acked' = TRUE => pc' = call.then /\ call' = call
    BY <1>3 DEF AfterAttempt, Goto
  <1>5. acked' = FALSE =>
          \/ call.attempt = PS2_MAX_RESENDS /\ pc' = call.then /\ call' = call
          \/ /\ call.attempt < PS2_MAX_RESENDS
             /\ pc' = "send" /\ call' = [call EXCEPT !.attempt = call.attempt + 1]
    BY <1>1, <1>3 DEF AfterAttempt, Goto, PS2_MAX_RESENDS
  <1>6. CASE Reachable(call.port) /\ dev' = [dev EXCEPT ![call.port] = AfterByte(@, call.data)]
             /\ acked' = Acknowledges(out \o Answer(dev[call.port], call.data))
             /\ out' = Rest(out \o Answer(dev[call.port], call.data))
             /\ UNCHANGED resends
    <2>1. PICK bytes : bytes = <<>> \o Answer(dev[call.port], call.data)
      OBVIOUS
    <2>2. Answered(dev[call.port], call.data, bytes)
      BY <1>1, <1>2, <1>6, <2>1, AnswerFacts
    <2>3. (acked' <=> Acknowledges(bytes)) /\ out' = Rest(bytes) /\ UNCHANGED resends
      BY <1>6, <2>1
    <2>4. CASE call.data = "set 1" /\ ~dev[call.port].wants_set
      <3>1. acked' = FALSE /\ out' = <<>>
        BY <1>3, <2>2, <2>3, <2>4 DEF Answered
      <3>2. dev' = dev
        BY <1>1, <1>6, <2>2, <2>4 DEF Answered
      <3> QED
        BY <1>5, <2>3, <2>4, <3>1, <3>2 DEF Refused
    <2>5. CASE ~(call.data = "set 1" /\ ~dev[call.port].wants_set)
      <3>1. acked' = TRUE
        BY <1>3, <2>2, <2>3, <2>5 DEF Answered
      <3>2. out' = IF call.data = "identify" THEN IdBytes(dev[call.port].kind) ELSE <<>>
        BY <2>2, <2>3 DEF Answered
      <3> QED
        BY <1>2, <1>4, <1>6, <2>3, <2>5, <3>1, <3>2 DEF Took
    <2> QED
      BY <2>4, <2>5
  <1>7. CASE Reachable(call.port) /\ resends < MaxResends /\ resends' = resends + 1
             /\ acked' = Acknowledges(Append(out, RESEND)) /\ out' = Rest(Append(out, RESEND))
             /\ UNCHANGED dev
    <2>1. ACK # RESEND
      BY DEF ACK, RESEND
    <2>2. acked' = FALSE /\ out' = <<>>
      BY <1>3, <1>7, <2>1, ReadAnswer DEF Acknowledges
    <2> QED
      BY <1>5, <1>7, <2>2 DEF Refused
  <1>8. CASE ~Reachable(call.port) /\ acked' = Acknowledges(out) /\ out' = Rest(out)
             /\ UNCHANGED <<dev, resends>>
    <2>1. 0 # ACK
      BY DEF ACK
    <2>2. acked' = FALSE /\ out' = <<>>
      BY <1>3, <1>8, <2>1, ReadNothing DEF Acknowledges
    <2> QED
      BY <1>2, <1>5, <1>8, <2>2 DEF Refused
  <1> QED
    BY <1>6, <1>7, <1>8 DEF SendByte
-----------------------------------------------------------------------------
(* Every action keeps the invariant.                                       *)

\* Nothing has happened to the devices, and no byte is being sent.
LEMMA PrepareKeeps ==
    ASSUME Inv, Prepare
    PROVE  Inv'
  <1>1. /\ pc = "start" /\ pc' = "self_test" /\ out' = <<>>
        /\ UNCHANGED <<call, acked, dev, machine, resends, typed>>
    BY DEF Prepare, At, Goto, deviceVars
  <1>2. config' = PORTS_OFF
    <2>1. PICK byte \in FirmwareConfigs : config = Accepted(byte)
      BY <1>1 DEF Inv, BeforeReset
    <2> QED
      BY <2>1, PreparedConfig DEF Prepare
  <1>3. drv' = [drv EXCEPT !.config_byte = PORTS_OFF]
    BY <1>2 DEF Prepare
  <1>4. TypeOK'
    BY <1>1, <1>3 DEF Inv, TypeOK, Driver, PORTS_OFF
  <1>5. BeforeReset'
    BY <1>1, <1>2, <1>3 DEF Inv, TypeOK, BeforeReset, Driver, Prologue
  <1>6. AfterEnable' /\ CallsFit' /\ Quiet' /\ SavedIsChosen'
    BY <1>1 DEF AfterEnable, CallsFit, Quiet, SavedIsChosen, Place, Prologue, KeyboardInit
  <1> QED
    BY <1>4, <1>5, <1>6 DEF Inv

LEMMA SelfTestKeeps ==
    ASSUME Inv, SelfTest
    PROVE  Inv'
  <1>1. /\ pc = "self_test" /\ out = <<>> /\ config = PORTS_OFF /\ drv.config_byte = PORTS_OFF
        /\ UNCHANGED <<call, acked, dev, machine, resends, typed>>
        /\ drv.works = {} /\ drv.port = 1
    <2>1. pc = "self_test" /\ UNCHANGED <<acked, dev, machine, resends, typed>> /\ UNCHANGED call
      BY DEF SelfTest, At, deviceVars, Return, Goto
    <2> QED
      BY <2>1 DEF Inv, BeforeReset, Prologue
  <1>2. PICK byte : byte = IF machine.healthy THEN CONTROLLER_TEST_PASSED ELSE CONTROLLER_TEST_FAILED
    OBVIOUS
  <1>3. /\ out' = <<>>
        /\ IF byte = CONTROLLER_TEST_PASSED
           THEN config' = drv.config_byte /\ pc' = "find_port_2" /\ UNCHANGED drv
           ELSE pc' = "done" /\ drv' = [drv EXCEPT !.result = "PS2_ERROR_CONTROLLER_TEST_FAILED"]
    BY <1>1, <1>2, ReadAnswer DEF SelfTest, Goto, Return
  <1>4. machine.healthy <=> byte = CONTROLLER_TEST_PASSED
    BY <1>2 DEF CONTROLLER_TEST_PASSED, CONTROLLER_TEST_FAILED
  <1>5. TypeOK'
    <2>1. TypeOK /\ drv \in Driver
      BY DEF Inv, TypeOK
    <2>2. drv' \in Driver
      <3>1. CASE byte = CONTROLLER_TEST_PASSED
        BY <1>3, <2>1, <3>1
      <3>2. CASE byte # CONTROLLER_TEST_PASSED
        BY <1>3, <2>1, <3>2 DEF Driver
      <3> QED  BY <3>1, <3>2
    <2> QED  BY <1>1, <2>1, <2>2 DEF TypeOK
  <1>6. CASE machine.healthy
    <2>1. BeforeReset'
      BY <1>1, <1>3, <1>4, <1>6 DEF Inv, TypeOK, BeforeReset, Driver, Prologue
    <2>2. AfterEnable' /\ CallsFit' /\ Quiet' /\ SavedIsChosen'
      BY <1>3, <1>4, <1>6 DEF AfterEnable, CallsFit, Quiet, SavedIsChosen, Place, Prologue,
         KeyboardInit
    <2> QED
      BY <1>5, <2>1, <2>2 DEF Inv
  <1>7. CASE ~machine.healthy
    <2>1. pc' = "done" /\ ~MachineOK' /\ drv'.works = {}
      BY <1>1, <1>3, <1>4, <1>7 DEF Inv, TypeOK, Driver, MachineOK
    <2>2. BeforeReset' /\ AfterEnable' /\ CallsFit' /\ Quiet' /\ SavedIsChosen'
      BY <2>1 DEF BeforeReset, AfterEnable, CallsFit, Quiet, SavedIsChosen, Place, Prologue,
         KeyboardInit
    <2> QED
      BY <1>5, <2>2 DEF Inv
  <1> QED
    BY <1>6, <1>7

LEMMA FindPort2Keeps ==
    ASSUME Inv, FindPort2
    PROVE  Inv'
  <1>1. /\ pc = "find_port_2" /\ pc' = "test"
        /\ UNCHANGED <<acked, dev, machine, resends, typed>> /\ UNCHANGED call
    BY DEF FindPort2, At, deviceVars, Goto
  <1>2. /\ out = <<>> /\ config = PORTS_OFF /\ drv.config_byte = PORTS_OFF
        /\ drv.works = {} /\ drv.port = 1 /\ machine.healthy
    BY <1>1 DEF Inv, BeforeReset, Prologue
  <1>3. PICK enabled \in {4, 36} : enabled = Accepted(ClearBit(config, ClockBit(2)))
    BY <1>2, MomentConfig
  <1>4. Received(Append(out, enabled)) = enabled /\ Rest(Append(out, enabled)) = <<>>
    BY <1>2, ReadAnswer
  <1>5. ~Bit(enabled, IntBit(2))
    BY MomentConfig
  <1>6. PICK supported \in BOOLEAN : supported <=> ~Bit(enabled, IntBit(2))
    OBVIOUS
  <1>7. /\ out' = <<>>
        /\ drv' = [drv EXCEPT !.port_2_supported = supported]
        /\ config' = IF drv'.port_2_supported THEN drv.config_byte ELSE enabled
    BY <1>3, <1>4, <1>6 DEF FindPort2
  <1>8. TypeOK'
    BY <1>1, <1>7 DEF Inv, TypeOK, Driver
  <1>9. drv'.port_2_supported = TRUE /\ config' = PORTS_OFF
    BY <1>2, <1>5, <1>6, <1>7 DEF Inv, TypeOK, Driver
  <1>10. BeforeReset'
    BY <1>1, <1>2, <1>7, <1>9 DEF Inv, TypeOK, BeforeReset, Driver, Prologue
  <1>11. AfterEnable' /\ CallsFit' /\ Quiet' /\ SavedIsChosen'
    BY <1>1 DEF AfterEnable, CallsFit, Quiet, SavedIsChosen, Place, Prologue, KeyboardInit
  <1> QED
    BY <1>8, <1>10, <1>11 DEF Inv

LEMMA TestPortKeeps ==
    ASSUME Inv, TestPort
    PROVE  Inv'
  <1>1. /\ pc = "test" /\ UNCHANGED <<acked, dev, machine, resends, typed, config>> /\ UNCHANGED call
    BY DEF TestPort, At, deviceVars, Goto
  <1>2. /\ out = <<>> /\ config = PORTS_OFF /\ drv.config_byte = PORTS_OFF
        /\ machine.healthy /\ drv.port_2_supported
        /\ drv.works = IF drv.port = 2 /\ machine.port_1_ok THEN {1} ELSE {}
    BY <1>1 DEF Inv, BeforeReset, Prologue
  <1>3. PICK byte : byte = IF machine.port_1_ok THEN PORT_TEST_PASSED ELSE 1
    OBVIOUS
  <1>4. Received(Append(out, byte)) = byte /\ Rest(Append(out, byte)) = <<>>
    BY <1>2, ReadAnswer
  <1>5. machine.port_1_ok <=> byte = PORT_TEST_PASSED
    BY <1>3 DEF PORT_TEST_PASSED
  <1>6. PICK works : works = IF byte = PORT_TEST_PASSED THEN drv.works \union {drv.port} ELSE drv.works
    OBVIOUS
  <1>7. /\ out' = <<>>
        /\ drv' = [drv EXCEPT !.port = IF drv.port = 1 /\ drv.port_2_supported THEN 2 ELSE 1,
                              !.works = works]
        /\ pc' = IF drv.port = 1 /\ drv.port_2_supported THEN "test" ELSE "enable"
    BY <1>3, <1>4, <1>6 DEF TestPort, Goto
  <1>8. drv.port \in Ports /\ drv.works \subseteq Ports /\ drv \in Driver
    BY DEF Inv, TypeOK, Driver
  <1>9. works \subseteq Ports
    BY <1>6, <1>8
  <1>10. TypeOK'
    BY <1>1, <1>7, <1>9 DEF Inv, TypeOK, Driver, Ports
  <1>11. works = IF machine.port_1_ok THEN IF drv.port = 1 THEN {1} ELSE Ports ELSE {}
    BY <1>2, <1>5, <1>6, <1>8 DEF Ports
  <1>12. BeforeReset'
    <2>1. CASE drv.port = 1
      <3>1. pc' = "test" /\ drv' = [drv EXCEPT !.port = 2, !.works = works]
        BY <1>2, <1>7, <2>1
      <3>2. /\ drv'.port = 2 /\ drv'.works = works /\ drv'.port_2_supported
            /\ drv'.config_byte = PORTS_OFF
        BY <1>2, <1>8, <3>1 DEF Driver
      <3> QED
        BY <1>1, <1>2, <1>7, <1>11, <2>1, <3>1, <3>2 DEF BeforeReset, Prologue
    <2>2. CASE drv.port = 2
      <3>1. pc' = "enable" /\ drv' = [drv EXCEPT !.port = 1, !.works = works]
        BY <1>7, <2>2
      <3>2. drv'.port = 1 /\ drv'.works = works /\ drv'.config_byte = PORTS_OFF
        BY <1>2, <1>8, <3>1 DEF Driver
      <3> QED
        BY <1>1, <1>2, <1>7, <1>11, <2>2, <3>1, <3>2 DEF BeforeReset, Prologue
    <2> QED
      BY <1>8, <2>1, <2>2 DEF Ports
  <1>13. AfterEnable' /\ CallsFit' /\ Quiet' /\ SavedIsChosen'
    <2>1. pc' \in {"test", "enable"}
      BY <1>7
    <2> QED
      BY <2>1 DEF AfterEnable, CallsFit, Quiet, SavedIsChosen, Place, Prologue, KeyboardInit
  <1> QED
    BY <1>10, <1>12, <1>13 DEF Inv

LEMMA EnablePortsKeeps ==
    ASSUME Inv, EnablePorts
    PROVE  Inv'
  <1>1. /\ pc = "enable" /\ UNCHANGED <<acked, dev, machine, resends, typed, out>> /\ UNCHANGED call
    BY DEF EnablePorts, At, deviceVars, Goto, Return
  <1>2. /\ out = <<>> /\ config = PORTS_OFF /\ drv.config_byte = PORTS_OFF
        /\ machine.healthy /\ drv.port = 1
        /\ drv.works = IF machine.port_1_ok THEN Ports ELSE {}
    BY <1>1 DEF Inv, BeforeReset, Prologue
  <1>3. CASE machine.port_1_ok
    <2>1. drv.works = Ports /\ 1 \in drv.works /\ 2 \in drv.works
      BY <1>2, <1>3 DEF Ports
    <2>2. /\ pc' = "reset"
          /\ drv' = [drv EXCEPT !.config_byte = PORTS_ON]
          /\ config' = Accepted(drv'.config_byte)
      <3>1. PICK byte : byte = SetBit(ClearBit(SetBit(ClearBit(drv.config_byte, ClockBit(1)), IntBit(1)), ClockBit(2)), IntBit(2))
        OBVIOUS
      <3>2. byte = PORTS_ON
        BY <1>2, <3>1, EnabledConfig
      <3>3. drv' = [drv EXCEPT !.config_byte = byte] /\ pc' = "reset" /\ config' = Accepted(drv'.config_byte)
        BY <2>1, <3>1 DEF EnablePorts, Goto
      <3> QED
        BY <3>2, <3>3
    <2>3. TypeOK'
      BY <1>1, <2>2 DEF Inv, TypeOK, Driver, PORTS_ON
    <2>4. drv'.works = Ports /\ drv'.config_byte = PORTS_ON
      BY <2>1, <2>2 DEF Inv, TypeOK, Driver
    <2>5. config' = Accepted(PORTS_ON)'
      BY <1>1, <2>2, <2>4 DEF Accepted, PORTS_ON
    <2>6. Chosen'
      BY <1>1, <1>2, <1>3, <2>4, <2>5 DEF Chosen, MachineOK
    <2> QED
      BY <2>2, <2>3, <2>6 DEF Inv, BeforeReset, AfterEnable, CallsFit, Quiet, SavedIsChosen, Place,
                              Prologue, KeyboardInit
  <1>4. CASE ~machine.port_1_ok
    <2>1. pc' = "done" /\ drv' = [drv EXCEPT !.result = "PS2_ERROR_NO_WORKING_PORTS"]
      BY <1>2, <1>4 DEF EnablePorts, Goto, Return
    <2>2. TypeOK'
      BY <1>1, <2>1 DEF Inv, TypeOK, Driver
    <2>3. ~MachineOK' /\ drv'.works = {}
      BY <1>1, <1>2, <1>4, <2>1 DEF Inv, TypeOK, Driver, MachineOK
    <2> QED
      BY <2>1, <2>2, <2>3 DEF Inv, BeforeReset, AfterEnable, CallsFit, Quiet, SavedIsChosen, Place,
                              Prologue, KeyboardInit
  <1> QED
    BY <1>3, <1>4

\* The configuration stays the chosen one as long as nobody writes another.
LEMMA ChosenStays ==
    ASSUME Inv, pc \notin Prologue \union {"done"}, UNCHANGED <<config, machine>>,
           drv'.works = drv.works, drv'.config_byte = drv.config_byte
    PROVE  Chosen /\ Chosen'
  <1>1. Chosen
    BY DEF Inv, AfterEnable
  <1> QED
    BY <1>1 DEF Chosen, MachineOK, Accepted

LEMMA CallType ==
    ASSUME NEW p \in Ports, NEW byte \in Commands,
           NEW then \in {"reset_sent", "stopped", "asked"} \union KeyboardInit
    PROVE  [port |-> p, data |-> byte, attempt |-> 1, then |-> then] \in Calls
  BY DEF Calls, PS2_MAX_RESENDS

LEMMA ResetDeviceKeeps ==
    ASSUME Inv, ResetDevice
    PROVE  Inv'
  <1>1. pc = "reset" /\ UNCHANGED <<acked, dev, machine, resends, typed, drv, config, out>>
    BY DEF ResetDevice, At, deviceVars
  <1>2. Chosen'
    BY <1>1, ChosenStays DEF Prologue
  <1>3. CASE /\ call' = [port |-> drv.port, data |-> "reset", attempt |-> 1, then |-> "reset_sent"]
             /\ pc' = "send"
    <2>1. TypeOK'
      BY <1>1, <1>3, CallType DEF Inv, TypeOK, Driver, Commands
    <2>2. /\ call'.port = drv'.port /\ call'.data = "reset" /\ call'.then = "reset_sent"
      BY <1>1, <1>3
    <2>3. CallsFit'
      BY <1>3, <2>2 DEF CallsFit, KeyboardInit
    <2>4. BeforeReset' /\ AfterEnable' /\ Quiet' /\ SavedIsChosen'
      BY <1>2, <1>3, <2>2 DEF BeforeReset, AfterEnable, Quiet, SavedIsChosen, Place, Prologue,
         KeyboardInit
    <2> QED
      BY <2>1, <2>3, <2>4 DEF Inv
  <1>4. CASE pc' = "reset_done" /\ UNCHANGED call
    <2>1. TypeOK'
      BY <1>1, <1>4 DEF Inv, TypeOK
    <2>2. BeforeReset' /\ AfterEnable' /\ CallsFit' /\ Quiet' /\ SavedIsChosen'
      BY <1>2, <1>4 DEF BeforeReset, AfterEnable, CallsFit, Quiet, SavedIsChosen, Place, Prologue,
         KeyboardInit
    <2> QED
      BY <2>1, <2>2 DEF Inv
  <1> QED
    BY <1>3, <1>4 DEF ResetDevice, Call, Goto

LEMMA DeviceResetKeeps ==
    ASSUME Inv, DeviceReset
    PROVE  Inv'
  <1>1. /\ pc = "reset_sent" /\ UNCHANGED <<acked, dev, machine, resends, typed, config>>
        /\ drv' = [drv EXCEPT !.populated = @ \union {drv.port}]
        /\ pc' = "reset_done" /\ UNCHANGED call
    BY DEF DeviceReset, At, Goto, deviceVars
  <1>2. TypeOK'
    BY <1>1 DEF Inv, TypeOK, Driver
  <1>3. drv'.works = drv.works /\ drv'.config_byte = drv.config_byte
    BY <1>1 DEF Inv, TypeOK, Driver
  <1>4. Chosen'
    BY <1>1, <1>3, ChosenStays DEF Prologue
  <1> QED
    BY <1>1, <1>2, <1>4 DEF Inv, BeforeReset, AfterEnable, CallsFit, Quiet, SavedIsChosen, Place,
                            Prologue, KeyboardInit

LEMMA ResetDoneKeeps ==
    ASSUME Inv, ResetDone
    PROVE  Inv'
  <1>1. /\ pc = "reset_done" /\ UNCHANGED <<acked, dev, machine, resends, typed, config, out>>
        /\ drv' = [drv EXCEPT !.port = 3 - @]
        /\ pc' \in {"reset", "identify"} /\ UNCHANGED call
    BY DEF ResetDone, At, Goto, deviceVars
  <1>2. TypeOK'
    <2>1. PICK other \in Ports : other = 3 - drv.port
      BY DEF Inv, TypeOK, Driver, Ports
    <2>2. drv' = [drv EXCEPT !.port = other]
      BY <1>1, <2>1
    <2> QED
      BY <1>1, <2>2 DEF Inv, TypeOK, Driver
  <1>3. drv'.works = drv.works /\ drv'.config_byte = drv.config_byte
    BY <1>1 DEF Inv, TypeOK, Driver
  <1>4. Chosen'
    BY <1>1, <1>3, ChosenStays DEF Prologue
  <1> QED
    BY <1>1, <1>2, <1>4 DEF Inv, BeforeReset, AfterEnable, CallsFit, Quiet, SavedIsChosen, Place,
                            Prologue, KeyboardInit

LEMMA IdentifyDeviceKeeps ==
    ASSUME Inv, IdentifyDevice
    PROVE  Inv'
  <1>1. pc = "identify" /\ UNCHANGED <<acked, dev, machine, resends, typed, drv, config>>
    BY DEF IdentifyDevice, At, deviceVars
  <1>2. Chosen'
    BY <1>1, ChosenStays DEF Prologue
  <1>3. CASE /\ call' = [port |-> drv.port, data |-> "disable scanning", attempt |-> 1, then |-> "stopped"]
             /\ pc' = "send" /\ out' = <<>>
    <2>1. TypeOK'
      BY <1>1, <1>3, CallType DEF Inv, TypeOK, Driver, Commands
    <2>2. call'.port = drv'.port /\ call'.data = "disable scanning" /\ call'.then = "stopped"
      BY <1>1, <1>3
    <2>3. CallsFit'
      BY <1>3, <2>2 DEF CallsFit, KeyboardInit
    <2>4. BeforeReset' /\ AfterEnable' /\ Quiet' /\ SavedIsChosen'
      BY <1>2, <1>3, <2>2 DEF BeforeReset, AfterEnable, Quiet, SavedIsChosen, Place, Prologue,
         KeyboardInit
    <2> QED
      BY <2>1, <2>3, <2>4 DEF Inv
  <1>4. CASE pc' = "finish" /\ UNCHANGED call
    <2>1. TypeOK'
      BY <1>1, <1>4 DEF Inv, TypeOK
    <2>2. BeforeReset' /\ AfterEnable' /\ CallsFit' /\ Quiet' /\ SavedIsChosen'
      BY <1>2, <1>4 DEF BeforeReset, AfterEnable, CallsFit, Quiet, SavedIsChosen, Place, Prologue,
         KeyboardInit
    <2> QED
      BY <2>1, <2>2 DEF Inv
  <1> QED
    BY <1>3, <1>4 DEF IdentifyDevice, Call, Goto

LEMMA SaveConfigKeeps ==
    ASSUME Inv, SaveConfig
    PROVE  Inv'
  <1>1. pc = "stopped" /\ UNCHANGED <<acked, dev, machine, resends, typed>>
    BY DEF SaveConfig, At, deviceVars
  <1>2. Chosen /\ out = <<>>
    BY <1>1 DEF Inv, AfterEnable, Prologue, Quiet, Place, KeyboardInit
  <1>3. Received(Append(out, config)) = config /\ Rest(Append(out, config)) = <<>>
    BY <1>2, ReadAnswer
  <1>4. CASE acked
    <2>1. /\ drv' = [drv EXCEPT !.saved = config]
          /\ out' = <<>>
          /\ config' = Accepted(ClearBit(drv'.saved, TRANSLATION))
          /\ call' = [port |-> drv.port, data |-> "identify", attempt |-> 1, then |-> "asked"]
          /\ pc' = "send"
      BY <1>3, <1>4 DEF SaveConfig, Call
    <2>2. config = Accepted(PORTS_ON) /\ config \in Nat
      BY <1>2, ChosenConfig DEF Chosen
    <2>3. TypeOK'
      BY <1>1, <2>1, <2>2, CallType DEF Inv, TypeOK, Driver, Commands
    <2>4. drv'.saved = config /\ drv'.works = drv.works /\ drv'.config_byte = drv.config_byte /\ drv'.port = drv.port
      BY <2>1 DEF Inv, TypeOK, Driver
    <2>5. config' = config
      BY <2>1, <2>2, <2>4, ChosenConfig
    <2>6. Chosen'
      BY <1>1, <2>4, <2>5, ChosenStays DEF Prologue
    <2>7. Accepted(PORTS_ON)' = Accepted(PORTS_ON)
      BY <1>1 DEF Accepted, PORTS_ON
    <2>8. drv'.saved = Accepted(PORTS_ON)'
      BY <2>2, <2>4, <2>7
    <2>9. call'.port = drv'.port /\ call'.data = "identify" /\ call'.then = "asked"
      BY <2>1, <2>4
    <2>10. CallsFit'
      BY <2>1, <2>9 DEF CallsFit, KeyboardInit
    <2>11. BeforeReset' /\ AfterEnable' /\ Quiet' /\ SavedIsChosen'
      BY <2>1, <2>6, <2>8, <2>9 DEF BeforeReset, AfterEnable, Quiet, SavedIsChosen, Place, Prologue,
         KeyboardInit
    <2> QED
      BY <2>3, <2>10, <2>11 DEF Inv
  <1>5. CASE ~acked
    <2>1. pc' = "identified" /\ UNCHANGED <<drv, out, config>> /\ UNCHANGED call
      BY <1>5 DEF SaveConfig, Goto
    <2>2. TypeOK'
      BY <1>1, <2>1 DEF Inv, TypeOK
    <2>3. Chosen'
      BY <1>1, <2>1, ChosenStays DEF Prologue
    <2>4. BeforeReset' /\ AfterEnable' /\ CallsFit' /\ Quiet' /\ SavedIsChosen'
      BY <1>2, <2>1, <2>3 DEF BeforeReset, AfterEnable, CallsFit, Quiet, SavedIsChosen, Place,
         Prologue, KeyboardInit
    <2> QED
      BY <2>2, <2>4 DEF Inv
  <1> QED
    BY <1>4, <1>5

\* What a device names itself with, and what is left of it.
LEMMA IdFacts ==
    ASSUME NEW kind \in Kinds
    PROVE  /\ IdBytes(kind) # <<>> => kind \in {"mf2", "mouse"} /\ Head(IdBytes(kind)) \in Nat
           /\ kind \in {"mf2", "mouse"} =>
                /\ Tail(IdBytes(kind)) \in {<<>>, <<131>>}
                /\ Received(Tail(IdBytes(kind))) \in Nat
                /\ Rest(Tail(IdBytes(kind))) = <<>>
  <1>1. /\ Head(<<171, 131>>) \in Nat /\ Tail(<<171, 131>>) = <<131>>
        /\ Head(<<0>>) \in Nat /\ Tail(<<0>>) = <<>>
    OBVIOUS
  <1>2. Head(<<131>>) = 131 /\ Tail(<<131>>) = <<>> /\ <<131>> # <<>>
    OBVIOUS
  <1>3. kind = "mf2" => IdBytes(kind) = <<171, 131>>
    BY DEF IdBytes
  <1>4. kind = "mouse" => IdBytes(kind) = <<0>>
    BY DEF IdBytes
  <1>5. kind \notin {"mf2", "mouse"} => IdBytes(kind) = <<>>
    BY DEF IdBytes
  <1>6. Received(<<131>>) \in Nat /\ Rest(<<131>>) = <<>>
    BY <1>2 DEF Received, Rest
  <1>7. Received(<<>>) \in Nat /\ Rest(<<>>) = <<>>
    BY ReadNothing
  <1>8. CASE kind = "mf2"
    <2>1. IdBytes(kind) = <<171, 131>>
      BY <1>3, <1>8
    <2> QED
      BY <1>1, <1>6, <1>8, <2>1, Zenon
  <1>9. CASE kind = "mouse"
    <2>1. IdBytes(kind) = <<0>>
      BY <1>4, <1>9
    <2> QED
      BY <1>1, <1>7, <1>9, <2>1, Zenon
  <1> QED
    BY <1>5, <1>8, <1>9

LEMMA ReadIdHighKeeps ==
    ASSUME Inv, ReadIdHigh
    PROVE  Inv'
  <1>1. pc = "asked" /\ UNCHANGED <<acked, dev, machine, resends, typed, config>> /\ UNCHANGED call
    BY DEF ReadIdHigh, At, deviceVars, Goto
  <1>2. drv.saved = Accepted(PORTS_ON)
    BY <1>1 DEF Inv, SavedIsChosen, Place
  <1>3. Accepted(PORTS_ON)' = Accepted(PORTS_ON)
    BY <1>1 DEF Accepted, PORTS_ON
  <1>4. CASE acked
    <2>1. out = IdBytes(dev[drv.port].kind) /\ dev[drv.port].kind \in Kinds
      BY <1>1, <1>4 DEF Inv, TypeOK, Quiet, DeviceStates, Driver, Place
    <2>2. PICK type : type = IF out = <<>> THEN KBD_AT ELSE Head(out) * 256
      OBVIOUS
    <2>3. /\ drv' = [drv EXCEPT !.device_type[drv.port] = type]
          /\ out' = Rest(out)
          /\ pc' = IF out = <<>> THEN "restore" ELSE "id_low"
      BY <1>4, <2>2 DEF ReadIdHigh, Goto
    <2>4. type \in Nat
      <3>1. CASE out = <<>>
        BY <2>2, <3>1 DEF KBD_AT
      <3>2. CASE out # <<>>
        <4>1. PICK high \in Nat : high = Head(out)
          BY <2>1, <3>2, IdFacts
        <4> QED
          BY <2>2, <3>2, <4>1
      <3> QED
        BY <3>1, <3>2
    <2>5. TypeOK'
      BY <1>1, <2>3, <2>4 DEF Inv, TypeOK, Driver
    <2>6. /\ drv'.saved = drv.saved /\ drv'.works = drv.works /\ drv'.config_byte = drv.config_byte
          /\ drv'.port = drv.port
      BY <2>3 DEF Inv, TypeOK, Driver
    <2>7. Chosen'
      BY <1>1, <2>6, ChosenStays DEF Prologue
    <2>8. CASE out = <<>>
      <3>1. pc' = "restore" /\ out' = <<>>
        BY <2>3, <2>8, ReadNothing
      <3> QED
        BY <1>2, <1>3, <2>5, <2>6, <2>7, <3>1 DEF Inv, BeforeReset, AfterEnable, CallsFit, Quiet,
             SavedIsChosen, Place, Prologue, KeyboardInit
    <2>9. CASE out # <<>>
      <3>1. pc' = "id_low" /\ out' = Tail(out)
        BY <2>3, <2>9 DEF Rest
      <3>2. dev'[drv'.port].kind \in {"mf2", "mouse"} /\ out' = Tail(IdBytes(dev'[drv'.port].kind))
        BY <1>1, <2>1, <2>6, <2>9, <3>1, IdFacts
      <3>3. Quiet'
        BY <3>1, <3>2 DEF Quiet, Place, KeyboardInit
      <3>4. SavedIsChosen'
        BY <1>2, <1>3, <2>6 DEF SavedIsChosen
      <3> QED
        BY <2>5, <2>7, <3>1, <3>3, <3>4 DEF Inv, BeforeReset, AfterEnable, CallsFit, Prologue
    <2> QED
      BY <2>8, <2>9
  <1>5. CASE ~acked
    <2>1. pc' = "identified" /\ UNCHANGED <<drv, out, config>>
      BY <1>1, <1>5 DEF ReadIdHigh, Goto
    <2>2. out = <<>>
      BY <1>1, <1>5 DEF Inv, Quiet, Place
    <2>3. TypeOK'
      BY <1>1, <2>1 DEF Inv, TypeOK
    <2>4. Chosen'
      BY <1>1, <2>1, ChosenStays DEF Prologue
    <2>5. BeforeReset' /\ AfterEnable' /\ CallsFit' /\ Quiet' /\ SavedIsChosen'
      BY <2>1, <2>2, <2>4 DEF BeforeReset, AfterEnable, CallsFit, Quiet, SavedIsChosen, Place,
         Prologue, KeyboardInit
    <2> QED
      BY <2>3, <2>5 DEF Inv
  <1> QED
    BY <1>4, <1>5

LEMMA ReadIdLowKeeps ==
    ASSUME Inv, ReadIdLow
    PROVE  Inv'
  <1>1. /\ pc = "id_low" /\ pc' = "restore"
        /\ UNCHANGED <<acked, dev, machine, resends, typed, config>> /\ UNCHANGED call
        /\ out' = Rest(out)
    BY DEF ReadIdLow, At, deviceVars, Goto
  <1>2. /\ dev[drv.port].kind \in {"mf2", "mouse"}
        /\ out = Tail(IdBytes(dev[drv.port].kind))
        /\ drv.saved = Accepted(PORTS_ON)
    BY <1>1 DEF Inv, Quiet, SavedIsChosen, Place
  <1>3. PICK low \in Nat : low = Received(out)
    BY <1>2, IdFacts DEF Kinds, Keyboards
  <1>4. out' = <<>>
    BY <1>1, <1>2, IdFacts DEF Kinds, Keyboards
  <1>5. drv' = [drv EXCEPT !.device_type[drv.port] = @ + low]
    BY <1>3 DEF ReadIdLow
  <1>6. TypeOK'
    <2>1. PICK type \in Nat : type = drv.device_type[drv.port] + low
      BY DEF Inv, TypeOK, Driver
    <2>2. drv' = [drv EXCEPT !.device_type[drv.port] = type]
      BY <1>5, <2>1
    <2> QED
      BY <1>1, <2>2 DEF Inv, TypeOK, Driver
  <1>7. /\ drv'.saved = drv.saved /\ drv'.works = drv.works /\ drv'.config_byte = drv.config_byte
    BY <1>5 DEF Inv, TypeOK, Driver
  <1>8. Chosen'
    BY <1>1, <1>7, ChosenStays DEF Prologue
  <1>9. Accepted(PORTS_ON)' = Accepted(PORTS_ON)
    BY <1>1 DEF Accepted, PORTS_ON
  <1> QED
    BY <1>1, <1>2, <1>4, <1>6, <1>7, <1>8, <1>9 DEF Inv, BeforeReset, AfterEnable, CallsFit, Quiet,
         SavedIsChosen, Place, Prologue, KeyboardInit

LEMMA RestoreConfigKeeps ==
    ASSUME Inv, RestoreConfig
    PROVE  Inv'
  <1>1. /\ pc = "restore" /\ pc' = "identified"
        /\ UNCHANGED <<acked, dev, machine, resends, typed, drv, out>> /\ UNCHANGED call
        /\ config' = Accepted(drv.saved)
    BY DEF RestoreConfig, At, deviceVars, Goto
  <1>2. drv.saved = Accepted(PORTS_ON) /\ out = <<>> /\ Chosen
    BY <1>1 DEF Inv, Quiet, SavedIsChosen, Place, AfterEnable, Prologue
  <1>3. config' = config
    BY <1>1, <1>2, ChosenConfig DEF Chosen
  <1>4. Chosen'
    BY <1>1, <1>3, ChosenStays DEF Prologue
  <1>5. TypeOK'
    BY <1>1 DEF Inv, TypeOK
  <1> QED
    BY <1>1, <1>2, <1>4, <1>5 DEF Inv, BeforeReset, AfterEnable, CallsFit, Quiet,
         SavedIsChosen, Place, Prologue, KeyboardInit

LEMMA IdentifiedKeeps ==
    ASSUME Inv, Identified
    PROVE  Inv'
  <1>1. pc = "identified" /\ UNCHANGED <<acked, dev, machine, resends, typed, drv, config, out>>
    BY DEF Identified, At, deviceVars
  <1>2. out = <<>>
    BY <1>1 DEF Inv, Quiet, Place
  <1>3. Chosen'
    BY <1>1, ChosenStays DEF Prologue
  <1>4. CASE /\ call' = [port |-> 1, data |-> "disable scanning", attempt |-> 1, then |-> "kbd_set"]
             /\ pc' = "send"
    <2>1. TypeOK'
      BY <1>1, <1>4, CallType DEF Inv, TypeOK, Ports, Commands, KeyboardInit
    <2>2. call'.port = 1 /\ call'.data = "disable scanning" /\ call'.then = "kbd_set"
      BY <1>4
    <2>3. CallsFit'
      BY <1>4, <2>2 DEF CallsFit, KeyboardInit
    <2>4. BeforeReset' /\ AfterEnable' /\ Quiet' /\ SavedIsChosen'
      BY <1>1, <1>2, <1>3, <1>4, <2>2 DEF BeforeReset, AfterEnable, Quiet, SavedIsChosen, Place,
         Prologue, KeyboardInit
    <2> QED
      BY <2>1, <2>3, <2>4 DEF Inv
  <1>5. CASE pc' = "next_port" /\ UNCHANGED call
    <2>1. TypeOK'
      BY <1>1, <1>5 DEF Inv, TypeOK
    <2>2. BeforeReset' /\ AfterEnable' /\ CallsFit' /\ Quiet' /\ SavedIsChosen'
      BY <1>3, <1>5 DEF BeforeReset, AfterEnable, CallsFit, Quiet, SavedIsChosen, Place, Prologue,
         KeyboardInit
    <2> QED
      BY <2>1, <2>2 DEF Inv
  <1> QED
    BY <1>4, <1>5 DEF Identified, Call, Goto

LEMMA KbdSetScancodeSetKeeps ==
    ASSUME Inv, KbdSetScancodeSet
    PROVE  Inv'
  <1>1. /\ pc = "kbd_set" /\ UNCHANGED <<acked, dev, machine, resends, typed, config, out>>
        /\ drv' = [drv EXCEPT !.tries = 0]
        /\ call' = [port |-> 1, data |-> "set scancode set", attempt |-> 1, then |-> "kbd_command"]
        /\ pc' = "send"
    BY DEF KbdSetScancodeSet, At, deviceVars, Call
  <1>2. out = <<>>
    BY <1>1 DEF Inv, Quiet, Place, KeyboardInit
  <1>3. drv'.works = drv.works /\ drv'.config_byte = drv.config_byte
    BY <1>1 DEF Inv, TypeOK, Driver
  <1>4. Chosen'
    BY <1>1, <1>3, ChosenStays DEF Prologue
  <1>5. TypeOK'
    BY <1>1, CallType DEF Inv, TypeOK, Ports, Commands, KeyboardInit, Driver
  <1>6. call'.port = 1 /\ call'.data = "set scancode set" /\ call'.then = "kbd_command"
    BY <1>1
  <1>7. CallsFit'
    BY <1>1, <1>6 DEF CallsFit, KeyboardInit
  <1>8. BeforeReset' /\ AfterEnable' /\ Quiet' /\ SavedIsChosen'
    BY <1>1, <1>2, <1>4, <1>6 DEF BeforeReset, AfterEnable, Quiet, SavedIsChosen, Place, Prologue,
       KeyboardInit
  <1> QED
    BY <1>5, <1>7, <1>8 DEF Inv

LEMMA KbdCommandSentKeeps ==
    ASSUME Inv, KbdCommandSent
    PROVE  Inv'
  <1>1. /\ pc = "kbd_command" /\ UNCHANGED <<acked, dev, machine, resends, typed, drv, config>>
        /\ out' = Rest(out)
        /\ call' = [port |-> 1, data |-> "set 1", attempt |-> 1, then |-> "kbd_set_sent"]
        /\ pc' = "send"
    BY DEF KbdCommandSent, At, deviceVars, Call
  <1>2. out' = <<>>
    BY <1>1, ReadNothing DEF Inv, Quiet, Place, KeyboardInit
  <1>3. Chosen'
    BY <1>1, ChosenStays DEF Prologue
  <1>4. TypeOK'
    BY <1>1, CallType DEF Inv, TypeOK, Ports, Commands, KeyboardInit
  <1>5. call'.port = 1 /\ call'.data = "set 1" /\ call'.then = "kbd_set_sent"
    BY <1>1
  <1>6. CallsFit'
    BY <1>1, <1>5 DEF CallsFit, KeyboardInit
  <1>7. BeforeReset' /\ AfterEnable' /\ Quiet' /\ SavedIsChosen'
    BY <1>1, <1>2, <1>3, <1>5 DEF BeforeReset, AfterEnable, Quiet, SavedIsChosen, Place, Prologue,
       KeyboardInit
  <1> QED
    BY <1>4, <1>6, <1>7 DEF Inv

\* ps2_send_byte has read the answer, so there is none when its result is looked for.
LEMMA KbdSetSentActs ==
    ASSUME Inv, KbdSetSent
    PROVE  /\ pc = "kbd_set_sent" /\ UNCHANGED <<acked, dev, machine, resends, typed, config>>
           /\ out = <<>> /\ out' = <<>>
           /\ drv' = [drv EXCEPT !.tries = drv.tries + 1]
           /\ \/ drv.tries >= 2 /\ pc' = "next_port" /\ call' = call
              \/ /\ drv.tries < 2 /\ pc' = "send"
                 /\ call' = [port |-> 1, data |-> "enable scanning", attempt |-> 1, then |-> "kbd_enabled"]
  <1>1. pc = "kbd_set_sent" /\ UNCHANGED <<acked, dev, machine, resends, typed, config>>
    BY DEF KbdSetSent, At, deviceVars
  <1>2. out = <<>>
    BY <1>1 DEF Inv, Quiet, Place, KeyboardInit
  <1>3. Received(out) = 0 /\ Rest(out) = <<>>
    BY <1>2, ReadNothing
  <1>4. 0 # ACK /\ 0 # RESEND
    BY DEF ACK, RESEND
  <1>5. drv' = [drv EXCEPT !.tries = drv.tries + 1]
    BY <1>3, <1>4 DEF KbdSetSent
  <1>6. drv.tries \in Nat /\ drv'.tries = drv.tries + 1
    BY <1>5 DEF Inv, TypeOK, Driver
  <1>7. IF drv'.tries >= 3 THEN pc' = "next_port" /\ call' = call
        ELSE /\ call' = [port |-> 1, data |-> "enable scanning", attempt |-> 1, then |-> "kbd_enabled"]
             /\ pc' = "send"
    BY <1>3, <1>4 DEF KbdSetSent, Goto, Call
  <1>8. out' = <<>>
    BY <1>3 DEF KbdSetSent
  <1>9. drv'.tries >= 3 <=> drv.tries >= 2
    BY <1>6
  <1>10. drv.tries < 2 <=> ~(drv.tries >= 2)
    BY <1>6
  <1> QED
    BY <1>1, <1>2, <1>5, <1>7, <1>8, <1>9, <1>10, Zenon

LEMMA KbdSetSentKeeps ==
    ASSUME Inv, KbdSetSent
    PROVE  Inv'
  <1>1. /\ pc = "kbd_set_sent" /\ UNCHANGED <<acked, dev, machine, resends, typed, config>>
        /\ out' = <<>> /\ drv' = [drv EXCEPT !.tries = drv.tries + 1]
    BY KbdSetSentActs
  <1>2. drv'.works = drv.works /\ drv'.config_byte = drv.config_byte
    BY <1>1 DEF Inv, TypeOK, Driver
  <1>3. Chosen'
    BY <1>1, <1>2, ChosenStays DEF Prologue
  <1>4. drv' \in Driver
    <2>1. PICK n \in Nat : n = drv.tries + 1
      BY DEF Inv, TypeOK, Driver
    <2>2. drv' = [drv EXCEPT !.tries = n]
      BY <1>1, <2>1
    <2> QED
      BY <2>2 DEF Inv, TypeOK, Driver
  <1>5. CASE /\ call' = [port |-> 1, data |-> "enable scanning", attempt |-> 1, then |-> "kbd_enabled"]
             /\ pc' = "send"
    <2>1. TypeOK'
      BY <1>1, <1>4, <1>5, CallType DEF Inv, TypeOK, Ports, Commands, KeyboardInit
    <2>2. call'.port = 1 /\ call'.data = "enable scanning" /\ call'.then = "kbd_enabled"
      BY <1>5
    <2>3. CallsFit'
      BY <1>5, <2>2 DEF CallsFit, KeyboardInit
    <2>4. BeforeReset' /\ AfterEnable' /\ Quiet' /\ SavedIsChosen'
      BY <1>1, <1>3, <1>5, <2>2 DEF BeforeReset, AfterEnable, Quiet, SavedIsChosen, Place, Prologue,
         KeyboardInit
    <2> QED
      BY <2>1, <2>3, <2>4 DEF Inv
  <1>6. CASE pc' = "next_port" /\ call' = call
    <2>1. TypeOK'
      BY <1>1, <1>4, <1>6 DEF Inv, TypeOK
    <2>2. BeforeReset' /\ AfterEnable' /\ CallsFit' /\ Quiet' /\ SavedIsChosen'
      BY <1>3, <1>6 DEF BeforeReset, AfterEnable, CallsFit, Quiet, SavedIsChosen, Place, Prologue,
         KeyboardInit
    <2> QED
      BY <2>1, <2>2 DEF Inv
  <1> QED
    BY <1>5, <1>6, KbdSetSentActs

LEMMA KbdEnabledKeeps ==
    ASSUME Inv, KbdEnabled
    PROVE  Inv'
  <1>1. /\ pc = "kbd_enabled" /\ pc' = "next_port"
        /\ UNCHANGED <<acked, dev, machine, resends, typed, config, out>> /\ UNCHANGED call
        /\ drv' = [drv EXCEPT !.kbd_state = "NORMAL"]
    BY DEF KbdEnabled, At, deviceVars, Goto
  <1>2. drv'.works = drv.works /\ drv'.config_byte = drv.config_byte
    BY <1>1 DEF Inv, TypeOK, Driver
  <1>3. Chosen'
    BY <1>1, <1>2, ChosenStays DEF Prologue
  <1>4. TypeOK'
    BY <1>1 DEF Inv, TypeOK, Driver
  <1> QED
    BY <1>1, <1>3, <1>4 DEF Inv, BeforeReset, AfterEnable, CallsFit, Quiet, SavedIsChosen, Place,
                            Prologue, KeyboardInit

LEMMA NextPortKeeps ==
    ASSUME Inv, NextPort
    PROVE  Inv'
  <1>1. /\ pc = "next_port" /\ pc' \in {"identify", "finish"}
        /\ UNCHANGED <<acked, dev, machine, resends, typed, config, out>> /\ UNCHANGED call
        /\ drv' = [drv EXCEPT !.port = 2]
    BY DEF NextPort, At, deviceVars, Goto
  <1>2. drv'.works = drv.works /\ drv'.config_byte = drv.config_byte
    BY <1>1 DEF Inv, TypeOK, Driver
  <1>3. Chosen'
    BY <1>1, <1>2, ChosenStays DEF Prologue
  <1>4. TypeOK'
    BY <1>1 DEF Inv, TypeOK, Driver, Ports
  <1> QED
    BY <1>1, <1>3, <1>4 DEF Inv, BeforeReset, AfterEnable, CallsFit, Quiet, SavedIsChosen, Place,
                            Prologue, KeyboardInit

LEMMA FinishKeeps ==
    ASSUME Inv, Finish
    PROVE  Inv'
  <1>1. /\ pc = "finish" /\ pc' = "done"
        /\ UNCHANGED <<acked, dev, machine, resends, typed, config, out>> /\ UNCHANGED call
        /\ drv' = [drv EXCEPT !.irq1_enabled = TRUE, !.result = "PS2_OK"]
    BY DEF Finish, At, deviceVars, Goto
  <1>2. /\ drv'.works = drv.works /\ drv'.config_byte = drv.config_byte
        /\ drv'.result = "PS2_OK"
    BY <1>1 DEF Inv, TypeOK, Driver
  <1>3. Chosen'
    BY <1>1, <1>2, ChosenStays DEF Prologue
  <1>4. TypeOK'
    BY <1>1 DEF Inv, TypeOK, Driver
  <1> QED
    BY <1>1, <1>2, <1>3, <1>4 DEF Inv, BeforeReset, AfterEnable, CallsFit, Quiet, SavedIsChosen,
       Place,
                            Prologue, KeyboardInit

\* Whatever is sent, the same byte is sent again or the thread goes on after it, and
\* what the devices are does not change.
LEMMA SendActs ==
    ASSUME Inv, SendByte
    PROVE  /\ pc = "send" /\ UNCHANGED <<drv, config, machine, typed>>
           /\ call' \in Calls
           /\ call'.port = call.port /\ call'.data = call.data /\ call'.then = call.then
           /\ pc' \in {"send", call.then}
           /\ TypeOK'
           /\ \A p \in Ports : dev'[p].kind = dev[p].kind
  <1>1. pc = "send" /\ UNCHANGED <<drv, config, machine, typed>> /\ AfterAttempt
    BY DEF SendByte
  <1>2. call \in Calls /\ dev \in [Ports -> DeviceStates] /\ resends \in 0 .. MaxResends
    BY DEF Inv, TypeOK
  <1>3. \/ pc' = call.then /\ call' = call
        \/ /\ pc' = "send" /\ call.attempt # PS2_MAX_RESENDS
           /\ call' = [call EXCEPT !.attempt = call.attempt + 1]
    BY <1>1 DEF AfterAttempt, Goto
  <1>4. /\ call' \in Calls
        /\ call'.port = call.port /\ call'.data = call.data /\ call'.then = call.then
    <2>1. CASE call' = call
      BY <1>2, <2>1
    <2>2. CASE /\ call.attempt # PS2_MAX_RESENDS
               /\ call' = [call EXCEPT !.attempt = call.attempt + 1]
      <3>1. PICK next \in 1 .. PS2_MAX_RESENDS : next = call.attempt + 1
        BY <1>2, <2>2 DEF Calls, PS2_MAX_RESENDS
      <3>2. call' = [call EXCEPT !.attempt = next]
        BY <2>2, <3>1
      <3> QED
        BY <1>2, <3>2 DEF Calls
    <2> QED
      BY <1>3, <2>1, <2>2
  <1>5. dev' = dev \/ dev' = [dev EXCEPT ![call.port] = AfterByte(dev[call.port], call.data)]
    BY DEF SendByte
  <1>6. dev' \in [Ports -> DeviceStates] /\ \A p \in Ports : dev'[p].kind = dev[p].kind
    <2>1. call.port \in Ports /\ call.data \in Commands /\ dev[call.port] \in DeviceStates
      BY <1>2 DEF Calls
    <2>2. PICK d \in DeviceStates : d = AfterByte(dev[call.port], call.data) /\ d.kind = dev[call.port].kind
      BY <2>1, AfterByteType
    <2>3. dev' = dev \/ dev' = [dev EXCEPT ![call.port] = d]
      BY <1>5, <2>2
    <2> QED
      BY <1>2, <2>1, <2>2, <2>3
  <1>7. resends' \in 0 .. MaxResends
    <2>1. resends' = resends \/ (resends < MaxResends /\ resends' = resends + 1)
      BY DEF SendByte
    <2> QED
      BY <1>2, <2>1, BoundsAssumption
  <1>8. acked' \in BOOLEAN
    BY DEF SendByte, Acknowledges
  <1>9. TypeOK'
    BY <1>1, <1>4, <1>6, <1>7, <1>8 DEF Inv, TypeOK, Ports
  <1> QED
    BY <1>1, <1>3, <1>4, <1>6, <1>9

\* Everything but a reset is sent when nothing is to be read.
LEMMA SentQuietly ==
    ASSUME Inv, SendByte, call.data # "reset"
    PROVE  Took \/ Refused
  <1>1. pc = "send"
    BY DEF SendByte
  <1>2. Chosen
    BY <1>1 DEF Inv, AfterEnable, Prologue
  <1>3. call.then \in {"stopped", "asked"} \union KeyboardInit
    BY <1>1 DEF Inv, CallsFit, KeyboardInit
  <1>4. out = <<>>
    BY <1>1, <1>3 DEF Inv, Quiet, Place
  <1> QED
    BY <1>2, <1>4, Sent DEF Inv

LEMMA SendByteKeeps ==
    ASSUME Inv, SendByte
    PROVE  Inv'
  <1>1. /\ pc = "send" /\ UNCHANGED <<drv, config, machine, typed>>
        /\ call' \in Calls
        /\ call'.port = call.port /\ call'.data = call.data /\ call'.then = call.then
        /\ pc' \in {"send", call.then}
        /\ TypeOK'
        /\ \A p \in Ports : dev'[p].kind = dev[p].kind
    BY SendActs
  <1>2. Chosen /\ Chosen'
    BY <1>1, ChosenStays DEF Prologue
  <1>3. Place = call.then /\ Place' = call.then
    BY <1>1 DEF Place
  <1>4. /\ <<call.data, call.then>> \in
             {<<"reset", "reset_sent">>, <<"disable scanning", "stopped">>, <<"identify", "asked">>,
              <<"disable scanning", "kbd_set">>, <<"set scancode set", "kbd_command">>,
              <<"set 1", "kbd_set_sent">>, <<"enable scanning", "kbd_enabled">>}
        /\ call.port = IF call.then \in KeyboardInit THEN 1 ELSE drv.port
    BY <1>1 DEF Inv, CallsFit
  <1>5. /\ call.then \in {"reset_sent", "stopped", "asked"} \union KeyboardInit
        /\ call.then = "reset_sent" <=> call.data = "reset"
        /\ call.then = "asked" <=> call.data = "identify"
    BY <1>4 DEF KeyboardInit
  <1>6. CallsFit'
    BY <1>1, <1>4 DEF CallsFit
  <1>7. BeforeReset' /\ AfterEnable'
    BY <1>1, <1>2, <1>5 DEF BeforeReset, AfterEnable, Prologue, KeyboardInit
  <1>8. SavedIsChosen'
    <2>1. Accepted(PORTS_ON)' = Accepted(PORTS_ON)
      BY <1>1 DEF Accepted, PORTS_ON
    <2> QED
      BY <1>1, <1>3, <2>1 DEF Inv, SavedIsChosen
  <1>9. Quiet'
    <2>1. CASE call.data = "reset"
      BY <1>1, <1>3, <1>5, <2>1 DEF Quiet, KeyboardInit
    <2>2. CASE call.data # "reset"
      <3>2. Took \/ Refused
        BY <2>2, SentQuietly
      <3>3. CASE Took
        <4>1. /\ acked' = TRUE /\ pc' = call.then
              /\ out' = IF call.data = "identify" THEN IdBytes(dev[call.port].kind) ELSE <<>>
          BY <3>3 DEF Took
        <4>2. CASE call.data = "identify"
          <5>1. call.then = "asked" /\ call.port = drv.port /\ drv.port \in Ports
            BY <1>4, <1>5, <4>2 DEF KeyboardInit, Inv, TypeOK, Driver
          <5>2. out' = IdBytes(dev'[drv'.port].kind)
            BY <1>1, <4>1, <4>2, <5>1
          <5> QED
            BY <1>3, <4>1, <5>1, <5>2 DEF Quiet, KeyboardInit
        <4>3. CASE call.data # "identify"
          BY <1>1, <1>3, <1>5, <4>1, <4>3 DEF Quiet, KeyboardInit
        <4> QED
          BY <4>2, <4>3
      <3>4. CASE Refused
        <4>1. acked' = FALSE /\ out' = <<>>
          BY <3>4 DEF Refused
        <4> QED
          BY <1>1, <1>3, <1>5, <4>1 DEF Quiet, KeyboardInit
      <3> QED
        BY <3>2, <3>3, <3>4
    <2> QED
      BY <2>1, <2>2
  <1> QED
    BY <1>1, <1>6, <1>7, <1>8, <1>9 DEF Inv

LEMMA InvInit == Init => Inv
  <1> SUFFICES ASSUME Init PROVE Inv
    OBVIOUS
  <1>1. /\ pc = "start" /\ acked = FALSE /\ resends = 0
        /\ machine \in [has_port_2 : BOOLEAN, port_1_ok : BOOLEAN, healthy : BOOLEAN]
        /\ call = [port |-> 1, data |-> "reset", attempt |-> 1, then |-> "start"]
        /\ \E byte \in FirmwareConfigs : config = Accepted(byte)
    BY DEF Init
  <1>2. drv \in Driver /\ drv.works = {} /\ drv.port = 1
    BY DEF Init, Driver, Ports
  <1>3. call \in Calls
    BY <1>1 DEF Calls, Ports, Commands, PS2_MAX_RESENDS
  <1>4. dev \in [Ports -> DeviceStates] /\ (~machine.has_port_2 => dev[2].kind = "none")
    <2>1. PICK kind_1 \in Kinds, kind_2 \in Kinds :
            /\ ~machine.has_port_2 => kind_2 = "none"
            /\ dev = [p \in Ports |-> Device(IF p = 1 THEN kind_1 ELSE kind_2)]
      BY DEF Init
    <2>2. \A kind \in Kinds : Device(kind) \in DeviceStates /\ Device(kind).kind = kind
      BY DEF Device, DeviceStates
    <2> QED
      BY <2>1, <2>2 DEF Ports
  <1>5. TypeOK
    <2>1. 0 \in 0 .. MaxResends
      BY BoundsAssumption
    <2>2. FALSE \in BOOLEAN
      OBVIOUS
    <2> QED
      BY <1>1, <1>2, <1>3, <1>4, <2>1, <2>2, Zenon DEF TypeOK
  <1>6. BeforeReset /\ AfterEnable /\ CallsFit /\ Quiet /\ SavedIsChosen
    BY <1>1, <1>2 DEF BeforeReset, AfterEnable, CallsFit, Quiet, SavedIsChosen, Place, Prologue,
       KeyboardInit
  <1> QED
    BY <1>5, <1>6 DEF Inv

LEMMA InvStep == Inv /\ [Next]_vars => Inv'
  <1> SUFFICES ASSUME Inv, [Next]_vars PROVE Inv'
    OBVIOUS
  <1>1. CASE UNCHANGED vars
    <2>1. UNCHANGED <<pc, call, acked, drv, config, out, dev, machine, resends>>
      BY <1>1 DEF vars, deviceVars
    <2>2. TypeOK' /\ CallsFit' /\ Quiet'
      BY <2>1 DEF Inv, TypeOK, CallsFit, Quiet, Place
    <2>3. BeforeReset' /\ AfterEnable' /\ SavedIsChosen'
      BY <2>1 DEF Inv, BeforeReset, AfterEnable, SavedIsChosen, Place, Chosen, MachineOK, Accepted
    <2> QED
      BY <2>2, <2>3 DEF Inv
  <1>2. CASE Next
    BY <1>2, PrepareKeeps, SelfTestKeeps, FindPort2Keeps, TestPortKeeps, EnablePortsKeeps,
       ResetDeviceKeeps, DeviceResetKeeps, ResetDoneKeeps, IdentifyDeviceKeeps, SaveConfigKeeps,
       ReadIdHighKeeps, ReadIdLowKeeps, RestoreConfigKeeps, IdentifiedKeeps, KbdSetScancodeSetKeeps,
       KbdCommandSentKeeps, KbdSetSentKeeps, KbdEnabledKeeps, NextPortKeeps, FinishKeeps, SendByteKeeps
       DEF Next
  <1> QED
    BY <1>1, <1>2

\* Once ps2_init_controller has enabled the ports, the controller keeps the configuration
\* it was given: what ps2_identify_device saves and restores is that configuration, never
\* a byte a device left behind, however often devices ask for a byte again.
THEOREM ConfigAlwaysUnharmed == QuietSpec => []ConfigUnharmed
  <1>1. Inv => ConfigUnharmed
    <2> SUFFICES ASSUME Inv, drv.works # {}, pc \notin {"test", "enable"}
                 PROVE  config = Accepted(drv.config_byte)
      BY DEF ConfigUnharmed
    <2>1. pc \notin Prologue
      BY DEF Inv, BeforeReset, Prologue
    <2>2. Chosen
      BY <2>1 DEF Inv, AfterEnable
    <2> QED
      BY <2>2 DEF Chosen
  <1> QED
    BY <1>1, InvInit, InvStep, PTL DEF QuietSpec
-----------------------------------------------------------------------------
(* A keyboard at port 1, and fewer bytes asked for again than it takes to   *)
(* exhaust one ps2_send_byte: every byte sent to it is taken.              *)

KeyboardThere == MachineOK /\ dev[1].kind \in Keyboards

Resets == {"reset", "reset_sent", "reset_done"}
Identifying == {"identify", "stopped", "asked", "id_low", "restore", "identified"}

Ready == drv.kbd_state = "NORMAL" /\ dev[1].scanning /\ dev[1].set = 1

\* Every attempt after the first is one the keyboard asked for.
FewResends == pc = "send" /\ call.port = 1 /\ call.data # "reset" => call.attempt <= resends + 1

\* Until port 1 is identified the keyboard driver is not started.
NotStarted == Place \in Prologue \union Resets \/ (Place \in Identifying /\ drv.port = 1)
                 => drv.kbd_state = "UNINITIALIZED"

Present == (\/ Place = "reset_done"
            \/ Place \in {"reset", "reset_sent"} /\ drv.port = 2
            \/ Place = "identify" /\ drv.port = 1)
              => 1 \in drv.populated

\* The keyboard answers and is recognised, an MF2 keyboard by 0xab and then 0x83.
Recognised ==
    drv.port = 1 =>
      /\ pc \in {"stopped", "asked"} => acked
      /\ pc = "id_low" => drv.device_type[1] = 43776
      /\ pc \in {"restore", "identified"} => IsKeyboard(drv.device_type[1])

\* ps2_kbd_init: the keyboard expects the scan code set, then has it, then scans.
SettingUp ==
    /\ Place \in KeyboardInit => drv.port = 1
    /\ Place \in {"kbd_command", "kbd_set_sent"} => drv.tries = 0
    /\ pc = "kbd_command" \/ (pc = "send" /\ call.then = "kbd_set_sent") => dev[1].wants_set
    /\ pc = "kbd_set_sent" \/ Place = "kbd_enabled" => dev[1].set = 1
    /\ pc = "kbd_enabled" => dev[1].scanning

\* Port 2 is no matter of the keyboard.
SetUp ==
    /\ pc \in {"next_port", "finish", "done"} \/ (Place \in Identifying /\ drv.port = 2) => Ready
    /\ pc = "done" => drv.irq1_enabled

Progress == FewResends /\ NotStarted /\ Present /\ Recognised /\ SettingUp /\ SetUp
KbdInv == KeyboardThere => Progress

\* Before the ports are reset.
LEMMA PrologueProgress ==
    ASSUME Inv, KeyboardThere, Progress,
           Prepare \/ SelfTest \/ FindPort2 \/ TestPort \/ EnablePorts
    PROVE  Progress'
  <1>1. pc \in Prologue /\ UNCHANGED <<dev, acked, machine, resends>>
    BY DEF Prepare, SelfTest, FindPort2, TestPort, EnablePorts, At, deviceVars, Prologue
  <1>2. drv.kbd_state = "UNINITIALIZED"
    BY <1>1 DEF Progress, NotStarted, Place, Prologue
  <1>3. drv'.kbd_state = drv.kbd_state
    BY DEF Prepare, SelfTest, FindPort2, TestPort, EnablePorts, Return, Inv, TypeOK, Driver
  <1>4. pc' \in Prologue \/ (pc' = "reset" /\ drv'.port = 1)
    <2>1. CASE Prepare
      BY <2>1 DEF Prepare, Goto, Prologue
    <2>2. CASE SelfTest
      BY <2>2, SelfTestKeeps, <1>1 DEF SelfTest, Goto, Return, Prologue, Inv, AfterEnable,
         KeyboardThere, MachineOK, TypeOK, Driver
    <2>3. CASE FindPort2
      BY <2>3 DEF FindPort2, Goto, Prologue
    <2>4. CASE TestPort
      BY <2>4 DEF TestPort, Goto, Prologue
    <2>5. CASE EnablePorts
      <3>1. pc = "enable"
        BY <2>5 DEF EnablePorts, At
      <3>2. drv.port = 1 /\ drv.works = Ports
        BY <3>1 DEF Inv, BeforeReset, KeyboardThere, MachineOK
      <3>3. pc' = "reset" /\ drv'.port = drv.port
        BY <2>5, <3>2 DEF EnablePorts, Goto, Ports, Inv, TypeOK, Driver
      <3> QED
        BY <3>2, <3>3
    <2> QED
      BY <2>1, <2>2, <2>3, <2>4, <2>5
  <1> QED
    BY <1>2, <1>3, <1>4 DEF Progress, FewResends, NotStarted, Present, Recognised, SettingUp, SetUp,
       Place, Prologue, Resets, Identifying, KeyboardInit, Ready

LEMMA ResetDeviceProgress ==
    ASSUME Inv, KeyboardThere, Progress, ResetDevice
    PROVE  Progress'
  <1>1. pc = "reset" /\ UNCHANGED <<dev, acked, machine, resends, drv>>
    BY DEF ResetDevice, At, deviceVars
  <1>2. drv.port \in drv.works
    BY <1>1 DEF Inv, TypeOK, Driver, AfterEnable, Chosen, Prologue
  <1>3. pc' = "send" /\ call'.data = "reset" /\ call'.then = "reset_sent"
    BY <1>2 DEF ResetDevice, Call
  <1>4. drv.kbd_state = "UNINITIALIZED" /\ (drv.port = 2 => 1 \in drv.populated)
    BY <1>1 DEF Progress, NotStarted, Present, Place, Resets
  <1> QED
    BY <1>1, <1>3, <1>4 DEF Progress, FewResends, NotStarted, Present, Recognised, SettingUp, SetUp,
       Place, Prologue, Resets, Identifying, KeyboardInit, Ready

LEMMA DeviceResetProgress ==
    ASSUME Inv, KeyboardThere, Progress, DeviceReset
    PROVE  Progress'
  <1>1. /\ pc = "reset_sent" /\ pc' = "reset_done" /\ UNCHANGED <<dev, acked, machine, resends>>
        /\ drv' = [drv EXCEPT !.populated = drv.populated \union {drv.port}]
    BY DEF DeviceReset, At, Goto, deviceVars
  <1>2. drv.kbd_state = "UNINITIALIZED" /\ (drv.port = 2 => 1 \in drv.populated)
    BY <1>1 DEF Progress, NotStarted, Present, Place, Resets
  <1>3. drv'.kbd_state = "UNINITIALIZED" /\ 1 \in drv'.populated
    BY <1>1, <1>2 DEF Inv, TypeOK, Driver, Ports
  <1> QED
    BY <1>1, <1>3 DEF Progress, FewResends, NotStarted, Present, Recognised, SettingUp, SetUp,
       Place, Prologue, Resets, Identifying, KeyboardInit, Ready

LEMMA ResetDoneProgress ==
    ASSUME Inv, KeyboardThere, Progress, ResetDone
    PROVE  Progress'
  <1>1. /\ pc = "reset_done" /\ UNCHANGED <<dev, acked, machine, resends>>
        /\ drv' = [drv EXCEPT !.port = 3 - drv.port]
        /\ pc' = IF drv.port = 1 THEN "reset" ELSE "identify"
    BY DEF ResetDone, At, Goto, deviceVars
  <1>2. drv.kbd_state = "UNINITIALIZED" /\ 1 \in drv.populated
    BY <1>1 DEF Progress, NotStarted, Present, Place, Resets
  <1>3. /\ drv'.kbd_state = "UNINITIALIZED" /\ 1 \in drv'.populated
        /\ drv.port = 1 \/ (drv.port = 2 /\ drv'.port = 1)
    BY <1>1, <1>2 DEF Inv, TypeOK, Driver, Ports
  <1> QED
    BY <1>1, <1>3 DEF Progress, FewResends, NotStarted, Present, Recognised, SettingUp, SetUp,
       Place, Prologue, Resets, Identifying, KeyboardInit, Ready

LEMMA FirstAttempt ==
    ASSUME Inv, UNCHANGED resends, call'.attempt = 1
    PROVE  FewResends'
  <1>1. PICK n \in Nat : n = resends'
    BY BoundsAssumption DEF Inv, TypeOK
  <1>2. 1 <= n + 1
    OBVIOUS
  <1> QED
    BY <1>1, <1>2, Zenon DEF FewResends

LEMMA IdentifyDeviceProgress ==
    ASSUME Inv, KeyboardThere, Progress, IdentifyDevice
    PROVE  Progress'
  <1>1. pc = "identify" /\ UNCHANGED <<dev, acked, machine, resends, drv>>
    BY DEF IdentifyDevice, At, deviceVars
  <1>2. /\ drv.port = 1 => drv.kbd_state = "UNINITIALIZED" /\ 1 \in drv.populated
        /\ drv.port = 2 => Ready
        /\ drv.port \in Ports
    BY <1>1 DEF Progress, NotStarted, Present, SetUp, Place, Identifying, Inv, TypeOK, Driver
  <1>3. CASE pc' = "finish" /\ 1 \notin drv.populated
    BY <1>1, <1>2, <1>3 DEF Ports, Progress, FewResends, NotStarted, Present, Recognised, SettingUp,
       SetUp, Place, Prologue, Resets, Identifying, KeyboardInit, Ready
  <1>4. CASE /\ call' = [port |-> drv.port, data |-> "disable scanning", attempt |-> 1, then |-> "stopped"]
             /\ pc' = "send"
    <2>1. call'.data = "disable scanning" /\ call'.then = "stopped" /\ call'.attempt = 1
      BY <1>4
    <2>2. FewResends'
      BY <1>1, <2>1, FirstAttempt
    <2>3. Place' = "stopped" /\ pc' = "send" /\ UNCHANGED <<drv, dev>>
      BY <1>1, <1>4, <2>1 DEF Place
    <2>4. NotStarted'
      BY <1>2, <2>3 DEF NotStarted, Prologue, Resets, Ports
    <2>5. Present' /\ Recognised'
      BY <2>3 DEF Present, Recognised
    <2>6. SettingUp'
      BY <2>1, <2>3 DEF SettingUp, KeyboardInit
    <2>7. SetUp'
      BY <1>2, <2>3 DEF SetUp, Ready
    <2> QED
      BY <2>2, <2>4, <2>5, <2>6, <2>7 DEF Progress
  <1> QED
    BY <1>3, <1>4 DEF IdentifyDevice, Call, Goto

LEMMA SaveConfigProgress ==
    ASSUME Inv, KeyboardThere, Progress, SaveConfig
    PROVE  Progress'
  <1>1. pc = "stopped" /\ UNCHANGED <<dev, acked, machine, resends>>
    BY DEF SaveConfig, At, deviceVars
  <1>2. /\ drv.port = 1 => drv.kbd_state = "UNINITIALIZED" /\ acked
        /\ drv.port = 2 => Ready
        /\ drv.port \in Ports
    BY <1>1 DEF Progress, NotStarted, Recognised, SetUp, Place, Identifying, Inv, TypeOK, Driver
  <1>3. drv'.port = drv.port /\ drv'.kbd_state = drv.kbd_state
    BY DEF SaveConfig, Inv, TypeOK, Driver
  <1>4. CASE /\ call' = [port |-> drv.port, data |-> "identify", attempt |-> 1, then |-> "asked"]
             /\ pc' = "send"
    <2>1. call'.data = "identify" /\ call'.then = "asked" /\ call'.attempt = 1
      BY <1>4
    <2>2. FewResends'
      BY <1>1, <2>1, FirstAttempt
    <2>3. Place' = "asked" /\ pc' = "send"
      BY <1>4, <2>1 DEF Place
    <2>4. NotStarted'
      BY <1>2, <1>3, <2>3 DEF NotStarted, Prologue, Resets, Ports
    <2>5. Present' /\ Recognised'
      BY <2>3 DEF Present, Recognised
    <2>6. SettingUp'
      BY <2>1, <2>3 DEF SettingUp, KeyboardInit
    <2>7. SetUp'
      BY <1>1, <1>2, <1>3, <2>3 DEF SetUp, Ready
    <2> QED
      BY <2>2, <2>4, <2>5, <2>6, <2>7 DEF Progress
  <1>5. CASE ~acked /\ pc' = "identified"
    BY <1>1, <1>2, <1>3, <1>5 DEF Ports, NotStarted, Present, Recognised, SettingUp, SetUp, Place,
       Prologue, Resets, Identifying, KeyboardInit, Ready, FewResends, Progress
  <1> QED
    BY <1>4, <1>5 DEF SaveConfig, Call, Goto

LEMMA ReadIdHighProgress ==
    ASSUME Inv, KeyboardThere, Progress, ReadIdHigh
    PROVE  Progress'
  <1>1. pc = "asked" /\ UNCHANGED <<dev, acked, machine, resends>>
    BY DEF ReadIdHigh, At, deviceVars
  <1>2. /\ drv.port = 1 => drv.kbd_state = "UNINITIALIZED" /\ acked
        /\ drv.port = 2 => Ready
        /\ drv.port \in Ports
    BY <1>1 DEF Progress, NotStarted, Recognised, SetUp, Place, Identifying, Inv, TypeOK, Driver
  <1>3. drv'.port = drv.port /\ drv'.kbd_state = drv.kbd_state
    BY DEF ReadIdHigh, Inv, TypeOK, Driver
  <1>4. CASE drv.port = 2
    <2>1. pc' \in {"restore", "id_low", "identified"}
      BY DEF ReadIdHigh, Goto
    <2> QED
      BY <1>1, <1>2, <1>3, <1>4, <2>1 DEF NotStarted, Present, Recognised, SettingUp, SetUp, Place,
         Prologue, Resets, Identifying, KeyboardInit, Ready, FewResends, Progress
  <1>5. CASE drv.port = 1
    <2>1. acked /\ out = IdBytes(dev[1].kind)
      BY <1>1, <1>2, <1>5 DEF Inv, Quiet
    <2>2. PICK type : type = IF out = <<>> THEN KBD_AT ELSE Head(out) * 256
      OBVIOUS
    <2>3. /\ drv' = [drv EXCEPT !.device_type[1] = type]
          /\ pc' = IF out = <<>> THEN "restore" ELSE "id_low"
      BY <1>5, <2>1, <2>2 DEF ReadIdHigh, Goto
    <2>4. drv'.device_type[1] = type
      BY <2>3 DEF Inv, TypeOK, Driver, Ports
    <2>5. /\ out = <<>> => IsKeyboard(type)
          /\ out # <<>> => type = 43776
      <3>1. CASE dev[1].kind = "at"
        <4>1. out = <<>>
          BY <2>1, <3>1 DEF IdBytes
        <4> QED
          BY <2>2, <4>1 DEF IsKeyboard
      <3>2. CASE dev[1].kind = "mf2"
        <4>1. out = <<171, 131>>
          BY <2>1, <3>2 DEF IdBytes
        <4>2. <<171, 131>> # <<>> /\ Head(<<171, 131>>) = 171 /\ 171 * 256 = 43776
          OBVIOUS
        <4> QED
          BY <2>2, <4>1, <4>2
      <3> QED
        BY <3>1, <3>2 DEF KeyboardThere, Keyboards
    <2> QED
      BY <1>1, <1>2, <1>3, <1>5, <2>3, <2>4, <2>5 DEF NotStarted, Present, Recognised, SettingUp,
         SetUp, Place, Prologue, Resets, Identifying, KeyboardInit, Ready, FewResends, Progress
  <1> QED
    BY <1>2, <1>4, <1>5 DEF Ports

LEMMA ReadIdLowProgress ==
    ASSUME Inv, KeyboardThere, Progress, ReadIdLow
    PROVE  Progress'
  <1>1. pc = "id_low" /\ pc' = "restore" /\ UNCHANGED <<dev, acked, machine, resends>>
    BY DEF ReadIdLow, At, deviceVars, Goto
  <1>2. /\ drv.port = 1 => drv.kbd_state = "UNINITIALIZED" /\ drv.device_type[1] = 43776
        /\ drv.port = 2 => Ready
        /\ drv.port \in Ports
    BY <1>1 DEF Progress, NotStarted, Recognised, SetUp, Place, Identifying, Inv, TypeOK, Driver
  <1>3. drv'.port = drv.port /\ drv'.kbd_state = drv.kbd_state
    BY DEF ReadIdLow, Inv, TypeOK, Driver
  <1>4. CASE drv.port = 2
    BY <1>1, <1>2, <1>3, <1>4 DEF NotStarted, Present, Recognised, SettingUp, SetUp, Place,
       Prologue, Resets, Identifying, KeyboardInit, Ready, FewResends, Progress
  <1>5. CASE drv.port = 1
    <2>1. out = Tail(IdBytes(dev[1].kind)) /\ dev[1].kind = "mf2"
      BY <1>1, <1>5 DEF Inv, Quiet, KeyboardThere, Keyboards
    <2>2. IdBytes(dev[1].kind) = <<171, 131>>
      BY <2>1 DEF IdBytes
    <2>3. Tail(<<171, 131>>) = <<131>> /\ Head(<<131>>) = 131 /\ <<131>> # <<>>
      OBVIOUS
    <2>4. Received(out) = 131
      BY <2>1, <2>2, <2>3 DEF Received
    <2>5. drv' = [drv EXCEPT !.device_type[1] = 43776 + 131]
      BY <1>2, <1>5, <2>4 DEF ReadIdLow
    <2>6. drv'.device_type[1] = 43907
      BY <2>5 DEF Inv, TypeOK, Driver, Ports
    <2>7. IsKeyboard(drv'.device_type[1])
      BY <2>6 DEF IsKeyboard
    <2> QED
      BY <1>1, <1>2, <1>3, <1>5, <2>7 DEF NotStarted, Present, Recognised, SettingUp, SetUp, Place,
         Prologue, Resets, Identifying, KeyboardInit, Ready, FewResends, Progress
  <1> QED
    BY <1>2, <1>4, <1>5 DEF Ports

LEMMA RestoreConfigProgress ==
    ASSUME Inv, KeyboardThere, Progress, RestoreConfig
    PROVE  Progress'
  <1>1. /\ pc = "restore" /\ pc' = "identified"
        /\ UNCHANGED <<dev, acked, machine, resends, drv>>
    BY DEF RestoreConfig, At, deviceVars, Goto
  <1> QED
    BY <1>1 DEF NotStarted, Present, Recognised, SettingUp, SetUp, Place, Prologue, Resets,
       Identifying, KeyboardInit, Ready, FewResends, Progress

LEMMA IdentifiedProgress ==
    ASSUME Inv, KeyboardThere, Progress, Identified
    PROVE  Progress'
  <1>1. pc = "identified" /\ UNCHANGED <<dev, acked, machine, resends, drv>>
    BY DEF Identified, At, deviceVars
  <1>2. /\ drv.port = 1 => drv.kbd_state = "UNINITIALIZED" /\ IsKeyboard(drv.device_type[1])
        /\ drv.port = 2 => Ready
        /\ drv.port \in Ports
    BY <1>1 DEF Progress, NotStarted, Recognised, SetUp, Place, Identifying, Inv, TypeOK, Driver
  <1>3. CASE drv.port = 1
    <2>1. /\ call' = [port |-> 1, data |-> "disable scanning", attempt |-> 1, then |-> "kbd_set"]
          /\ pc' = "send"
      BY <1>2, <1>3 DEF Identified, Call
    <2>2. call'.data = "disable scanning" /\ call'.then = "kbd_set" /\ call'.attempt = 1
      BY <2>1
    <2>3. FewResends'
      BY <1>1, <2>2, FirstAttempt
    <2>4. Place' = "kbd_set" /\ pc' = "send" /\ drv'.port = 1
      BY <1>1, <1>3, <2>1, <2>2 DEF Place
    <2>5. NotStarted' /\ Present' /\ Recognised'
      BY <2>4 DEF NotStarted, Prologue, Resets, Identifying, Present, Recognised
    <2>6. SettingUp' /\ SetUp'
      BY <2>2, <2>4 DEF SettingUp, SetUp, Identifying
    <2> QED
      BY <2>3, <2>5, <2>6 DEF Progress
  <1>4. CASE drv.port = 2
    <2>1. pc' = "next_port"
      BY <1>2, <1>4 DEF Identified, Goto, Ready
    <2> QED
      BY <1>1, <1>2, <1>4, <2>1 DEF NotStarted, Present, Recognised, SettingUp, SetUp, Place,
         Prologue, Resets, Identifying, KeyboardInit, Ready, FewResends, Progress
  <1> QED
    BY <1>2, <1>3, <1>4 DEF Ports

LEMMA KbdSetScancodeSetProgress ==
    ASSUME Inv, KeyboardThere, Progress, KbdSetScancodeSet
    PROVE  Progress'
  <1>1. /\ pc = "kbd_set" /\ UNCHANGED <<acked, dev, machine, resends>>
        /\ drv' = [drv EXCEPT !.tries = 0]
        /\ call' = [port |-> 1, data |-> "set scancode set", attempt |-> 1, then |-> "kbd_command"]
        /\ pc' = "send"
    BY DEF KbdSetScancodeSet, At, deviceVars, Call
  <1>2. call'.data = "set scancode set" /\ call'.then = "kbd_command" /\ call'.attempt = 1
    BY <1>1
  <1>3. drv.port = 1
    BY <1>1 DEF Progress, SettingUp, Place, KeyboardInit
  <1>4. drv'.tries = 0 /\ drv'.port = 1
    BY <1>1, <1>3 DEF Inv, TypeOK, Driver
  <1>5. FewResends'
    BY <1>1, <1>2, FirstAttempt
  <1>6. Place' = "kbd_command" /\ pc' = "send"
    BY <1>1, <1>2 DEF Place
  <1>7. NotStarted' /\ Present' /\ Recognised'
    BY <1>6 DEF NotStarted, Prologue, Resets, Identifying, Present, Recognised
  <1>8. SettingUp' /\ SetUp'
    BY <1>1, <1>2, <1>4, <1>6 DEF SettingUp, SetUp, Identifying
  <1> QED
    BY <1>5, <1>7, <1>8 DEF Progress

LEMMA KbdCommandSentProgress ==
    ASSUME Inv, KeyboardThere, Progress, KbdCommandSent
    PROVE  Progress'
  <1>1. /\ pc = "kbd_command" /\ UNCHANGED <<acked, dev, machine, resends, drv>>
        /\ call' = [port |-> 1, data |-> "set 1", attempt |-> 1, then |-> "kbd_set_sent"]
        /\ pc' = "send"
    BY DEF KbdCommandSent, At, deviceVars, Call
  <1>2. call'.data = "set 1" /\ call'.then = "kbd_set_sent" /\ call'.attempt = 1
    BY <1>1
  <1>3. drv.port = 1 /\ drv.tries = 0 /\ dev[1].wants_set
    BY <1>1 DEF Progress, SettingUp, Place, KeyboardInit
  <1>4. FewResends'
    BY <1>1, <1>2, FirstAttempt
  <1>5. Place' = "kbd_set_sent" /\ pc' = "send"
    BY <1>1, <1>2 DEF Place
  <1>6. NotStarted' /\ Present' /\ Recognised'
    BY <1>5 DEF NotStarted, Prologue, Resets, Identifying, Present, Recognised
  <1>7. SettingUp' /\ SetUp'
    BY <1>1, <1>2, <1>3, <1>5 DEF SettingUp, SetUp, Identifying
  <1> QED
    BY <1>4, <1>6, <1>7 DEF Progress

LEMMA KbdSetSentProgress ==
    ASSUME Inv, KeyboardThere, Progress, KbdSetSent
    PROVE  Progress'
  <1>1. /\ pc = "kbd_set_sent" /\ UNCHANGED <<acked, dev, machine, resends>>
        /\ drv' = [drv EXCEPT !.tries = drv.tries + 1]
    BY KbdSetSentActs
  <1>2. drv.port = 1 /\ drv.tries = 0 /\ dev[1].set = 1
    BY <1>1 DEF Progress, SettingUp, Place, KeyboardInit
  <1>3. /\ call' = [port |-> 1, data |-> "enable scanning", attempt |-> 1, then |-> "kbd_enabled"]
        /\ pc' = "send"
    <2>1. ~(drv.tries >= 2)
      BY <1>2
    <2> QED
      BY <2>1, KbdSetSentActs
  <1>4. call'.data = "enable scanning" /\ call'.then = "kbd_enabled" /\ call'.attempt = 1
    BY <1>3
  <1>5. drv'.port = 1
    BY <1>1, <1>2 DEF Inv, TypeOK, Driver
  <1>6. FewResends'
    BY <1>1, <1>4, FirstAttempt
  <1>7. Place' = "kbd_enabled" /\ pc' = "send"
    BY <1>3, <1>4 DEF Place
  <1>8. NotStarted' /\ Present' /\ Recognised'
    BY <1>7 DEF NotStarted, Prologue, Resets, Identifying, Present, Recognised
  <1>9. SettingUp' /\ SetUp'
    BY <1>1, <1>2, <1>3, <1>4, <1>5, <1>7 DEF SettingUp, SetUp, Identifying
  <1> QED
    BY <1>6, <1>8, <1>9 DEF Progress

LEMMA KbdEnabledProgress ==
    ASSUME Inv, KeyboardThere, Progress, KbdEnabled
    PROVE  Progress'
  <1>1. /\ pc = "kbd_enabled" /\ pc' = "next_port"
        /\ UNCHANGED <<acked, dev, machine, resends>>
        /\ drv' = [drv EXCEPT !.kbd_state = "NORMAL"]
    BY DEF KbdEnabled, At, deviceVars, Goto
  <1>2. dev[1].set = 1 /\ dev[1].scanning
    BY <1>1 DEF Progress, SettingUp, Place
  <1>3. drv'.kbd_state = "NORMAL"
    BY <1>1 DEF Inv, TypeOK, Driver
  <1> QED
    BY <1>1, <1>2, <1>3 DEF NotStarted, Present, Recognised, SettingUp, SetUp, Place, Prologue,
       Resets, Identifying, KeyboardInit, Ready, FewResends, Progress

LEMMA NextPortProgress ==
    ASSUME Inv, KeyboardThere, Progress, NextPort
    PROVE  Progress'
  <1>1. /\ pc = "next_port" /\ pc' \in {"identify", "finish"}
        /\ UNCHANGED <<acked, dev, machine, resends>>
        /\ drv' = [drv EXCEPT !.port = 2]
    BY DEF NextPort, At, deviceVars, Goto
  <1>2. Ready
    BY <1>1 DEF Progress, SetUp
  <1>3. drv'.kbd_state = drv.kbd_state /\ drv'.port = 2
    BY <1>1 DEF Inv, TypeOK, Driver
  <1> QED
    BY <1>1, <1>2, <1>3 DEF NotStarted, Present, Recognised, SettingUp, SetUp, Place, Prologue,
       Resets, Identifying, KeyboardInit, Ready, FewResends, Progress

LEMMA FinishProgress ==
    ASSUME Inv, KeyboardThere, Progress, Finish
    PROVE  Progress'
  <1>1. /\ pc = "finish" /\ pc' = "done"
        /\ UNCHANGED <<acked, dev, machine, resends>>
        /\ drv' = [drv EXCEPT !.irq1_enabled = TRUE, !.result = "PS2_OK"]
    BY DEF Finish, At, deviceVars, Goto
  <1>2. Ready
    BY <1>1 DEF Progress, SetUp
  <1>3. drv'.kbd_state = drv.kbd_state /\ drv'.irq1_enabled
    BY <1>1 DEF Inv, TypeOK, Driver
  <1> QED
    BY <1>1, <1>2, <1>3 DEF NotStarted, Present, Recognised, SettingUp, SetUp, Place, Prologue,
       Resets, Identifying, KeyboardInit, Ready, FewResends, Progress

\* A call of ps2_send_byte that is not about the keyboard.
LEMMA OtherCallProgress ==
    ASSUME Inv, KeyboardThere, Progress, SendByte, call.data = "reset" \/ call.port # 1
    PROVE  Progress'
  <1>1. /\ pc = "send" /\ UNCHANGED drv
        /\ call'.port = call.port /\ call'.data = call.data /\ call'.then = call.then
        /\ pc' \in {"send", call.then}
    BY SendActs
  <1>2. Place = call.then /\ Place' = call.then
    BY <1>1 DEF Place
  <1>3. NotStarted' /\ Present'
    BY <1>1, <1>2 DEF Progress, NotStarted, Present
  <1>4. FewResends'
    BY <1>1 DEF FewResends
  <1>5. CASE call.data = "reset"
    <2>1. call.then = "reset_sent"
      BY <1>1, <1>5 DEF Inv, CallsFit
    <2>2. Recognised' /\ SettingUp' /\ SetUp'
      BY <1>1, <1>2, <2>1 DEF Recognised, SettingUp, SetUp, KeyboardInit, Identifying
    <2> QED
      BY <1>3, <1>4, <2>2 DEF Progress
  <1>6. CASE call.data # "reset" /\ call.port # 1
    <2>1. call.then \in {"stopped", "asked"} /\ drv.port = call.port
      BY <1>1, <1>6 DEF Inv, CallsFit, KeyboardInit
    <2>2. drv.port = 2
      BY <1>6, <2>1 DEF Inv, TypeOK, Driver, Ports
    <2>3. dev'[1] = dev[1]
      <3>1. dev' = dev \/ dev' = [dev EXCEPT ![call.port] = AfterByte(dev[call.port], call.data)]
        BY DEF SendByte
      <3> QED
        BY <2>1, <2>2, <3>1 DEF Inv, TypeOK, Ports
    <2>4. Ready
      BY <1>2, <2>1, <2>2 DEF Progress, SetUp, Identifying
    <2>5. Recognised' /\ SettingUp' /\ SetUp'
      BY <1>1, <1>2, <2>1, <2>2, <2>3, <2>4 DEF Recognised, SettingUp, SetUp, KeyboardInit,
         Identifying, Ready
    <2> QED
      BY <1>3, <1>4, <2>5 DEF Progress
  <1> QED
    BY <1>5, <1>6

\* What the bytes of ps2_kbd_init do to the keyboard.
LEMMA KeyboardTakes ==
    ASSUME NEW d \in DeviceStates, d.kind \in Keyboards, NEW byte
    PROVE  /\ byte = "set scancode set" => AfterByte(d, byte).wants_set
           /\ byte = "set 1" /\ d.wants_set => AfterByte(d, byte).set = 1
           /\ byte = "enable scanning" => AfterByte(d, byte).scanning /\ AfterByte(d, byte).set = d.set
  <1>1. CASE byte = "set scancode set"
    <2>1. AfterByte(d, byte) = [d EXCEPT !.wants_set = d.kind \in Keyboards]
      BY <1>1 DEF AfterByte
    <2> QED
      BY <1>1, <2>1 DEF DeviceStates
  <1>2. CASE byte = "set 1"
    <2>1. AfterByte(d, byte) = [d EXCEPT !.set = IF d.wants_set THEN 1 ELSE d.set, !.wants_set = FALSE]
      BY <1>2 DEF AfterByte
    <2> QED
      BY <1>2, <2>1 DEF DeviceStates
  <1>3. CASE byte = "enable scanning"
    <2>1. PICK on \in BOOLEAN : on <=> byte = "enable scanning" \/ (d.scanning /\ byte = "identify")
      OBVIOUS
    <2>2. AfterByte(d, byte) = [d EXCEPT !.scanning = on, !.wants_set = FALSE]
      BY <1>3, <2>1 DEF AfterByte
    <2>3. on
      BY <1>3, <2>1
    <2> QED
      BY <1>3, <2>2, <2>3 DEF DeviceStates
  <1> QED
    BY <1>1, <1>2, <1>3

LEMMA KeyboardCallProgress ==
    ASSUME Inv, KeyboardThere, Progress, SendByte, call.data # "reset", call.port = 1,
           MaxResends < PS2_MAX_RESENDS
    PROVE  Progress'
  <1>1. /\ pc = "send" /\ UNCHANGED drv
        /\ call'.port = call.port /\ call'.data = call.data /\ call'.then = call.then
    BY SendActs
  <1>2. Place = call.then /\ (pc' \in {"send", call.then} => Place' = call.then)
    BY <1>1 DEF Place
  <1>3. /\ call \in Calls /\ dev \in [Ports -> DeviceStates] /\ dev[1] \in DeviceStates
        /\ dev[1].kind \in Keyboards
    BY DEF Inv, TypeOK, Ports, KeyboardThere
  <1>4. /\ call.data = "set 1" <=> call.then = "kbd_set_sent"
        /\ call.data = "set scancode set" <=> call.then = "kbd_command"
        /\ call.data = "enable scanning" <=> call.then = "kbd_enabled"
        /\ call.then \in {"stopped", "asked"} \union KeyboardInit
        /\ drv.port = 1
    BY <1>1, <1>2 DEF Inv, CallsFit, KeyboardInit, Progress, SettingUp
  <1>5. /\ call.then = "kbd_set_sent" => dev[1].wants_set
        /\ call.then = "kbd_enabled" => dev[1].set = 1
        /\ call.then \in {"kbd_command", "kbd_set_sent"} => drv.tries = 0
    BY <1>1, <1>2 DEF Progress, SettingUp
  <1>6. NotStarted' /\ Present'
    <2>1. Place' = Place
      BY <1>2, SendActs
    <2> QED
      BY <1>1, <2>1 DEF Progress, NotStarted, Present
  <1>7. CASE Took
    <2>1. /\ acked' = TRUE /\ pc' = call.then /\ Place' = call.then
          /\ dev' = [dev EXCEPT ![1] = AfterByte(dev[1], call.data)]
      BY <1>2, <1>7 DEF Took
    <2>2. dev'[1] = AfterByte(dev[1], call.data)
      BY <1>3, <2>1 DEF Ports
    <2>3. FewResends' /\ Recognised' /\ SetUp'
      <3>1. pc' \in {"stopped", "asked", "kbd_set", "kbd_command", "kbd_set_sent", "kbd_enabled"}
        BY <1>4, <2>1 DEF KeyboardInit
      <3>2. FewResends'
        BY <3>1 DEF FewResends
      <3>3. Recognised'
        BY <2>1, <3>1 DEF Recognised
      <3>4. drv'.port # 2
        <4>1. drv' = drv /\ drv.port = 1
          BY <1>1, <1>4, Zenon
        <4> QED
          BY <4>1
      <3>5. SetUp'
        BY <3>1, <3>4 DEF SetUp
      <3> QED
        BY <3>2, <3>3, <3>5
    <2>4. SettingUp'
      <3>1. /\ call.then = "kbd_command" => dev'[1].wants_set
            /\ call.then = "kbd_set_sent" => dev'[1].set = 1
            /\ call.then = "kbd_enabled" => dev'[1].set = 1 /\ dev'[1].scanning
        <4>1. PICK d \in DeviceStates : d = dev[1] /\ d.kind \in Keyboards
          BY <1>3
        <4>2. PICK byte : byte = call.data
          OBVIOUS
        <4>3. dev'[1] = AfterByte(d, byte)
          BY <2>2, <4>1, <4>2
        <4>4. /\ call.then = "kbd_command" => byte = "set scancode set"
              /\ call.then = "kbd_set_sent" => byte = "set 1" /\ d.wants_set
              /\ call.then = "kbd_enabled" => byte = "enable scanning" /\ d.set = 1
          BY <1>4, <1>5, <4>1, <4>2
        <4>5. /\ byte = "set scancode set" => AfterByte(d, byte).wants_set
              /\ byte = "set 1" /\ d.wants_set => AfterByte(d, byte).set = 1
              /\ byte = "enable scanning" => AfterByte(d, byte).scanning /\ AfterByte(d, byte).set = d.set
          BY <4>1, KeyboardTakes
        <4> QED
          BY <4>3, <4>4, <4>5
      <3> QED
        BY <1>1, <1>4, <1>5, <2>1, <3>1 DEF SettingUp, KeyboardInit
    <2> QED
      BY <1>6, <2>3, <2>4 DEF Progress
  <1>8. CASE Refused
    <2>1. resends < MaxResends /\ resends' = resends + 1
      BY <1>3, <1>4, <1>5, <1>8 DEF Refused, Keyboards
    <2>2. call.attempt <= resends + 1 /\ call.attempt \in 1 .. PS2_MAX_RESENDS /\ resends \in Nat
      BY <1>1, <1>3, BoundsAssumption DEF Progress, FewResends, Calls, Inv, TypeOK
    <2>3. call.attempt # PS2_MAX_RESENDS
      BY <2>1, <2>2, BoundsAssumption DEF PS2_MAX_RESENDS
    <2>4. /\ pc' = "send" /\ dev' = dev /\ Place' = call.then
          /\ call' = [call EXCEPT !.attempt = call.attempt + 1]
      BY <1>2, <1>8, <2>3 DEF Refused
    <2>5. FewResends'
      <3>1. call'.attempt = call.attempt + 1
        BY <1>3, <2>4 DEF Calls
      <3>2. PICK a \in Nat, n \in Nat : a = call.attempt /\ n = resends /\ a <= n + 1
        BY <2>2
      <3>3. a + 1 <= (n + 1) + 1
        BY <3>2
      <3> QED
        BY <2>1, <3>1, <3>2, <3>3 DEF FewResends
    <2>6. Recognised' /\ SetUp'
      <3>1. drv'.port # 2
        <4>1. drv' = drv /\ drv.port = 1
          BY <1>1, <1>4, Zenon
        <4> QED
          BY <4>1
      <3>2. Recognised'
        BY <2>4 DEF Recognised
      <3>3. SetUp'
        BY <2>4, <3>1 DEF SetUp
      <3> QED
        BY <3>2, <3>3
    <2>7. SettingUp'
      BY <1>1, <1>4, <1>5, <2>4 DEF SettingUp
    <2> QED
      BY <1>6, <2>5, <2>6, <2>7 DEF Progress
  <1> QED
    BY <1>7, <1>8, SentQuietly

\* Neither the machine nor what its devices are changes.
LEMMA ThereStays == Inv /\ Next => (KeyboardThere' <=> KeyboardThere)
  <1> SUFFICES ASSUME Inv, Next PROVE KeyboardThere' <=> KeyboardThere
    OBVIOUS
  <1>1. CASE SendByte
    <2>1. machine' = machine /\ dev'[1].kind = dev[1].kind
      BY <1>1, SendActs DEF Ports
    <2> QED
      BY <2>1 DEF KeyboardThere, MachineOK
  <1>2. CASE ~SendByte
    <2>1. machine' = machine /\ dev' = dev
      BY <1>2 DEF Next, Prepare, SelfTest, FindPort2, TestPort, EnablePorts, ResetDevice,
         DeviceReset,
           ResetDone, IdentifyDevice, SaveConfig, ReadIdHigh, ReadIdLow, RestoreConfig, Identified,
           KbdSetScancodeSet, KbdCommandSent, KbdSetSent, KbdEnabled, NextPort, Finish, At, deviceVars
    <2> QED
      BY <2>1 DEF KeyboardThere, MachineOK
  <1> QED
    BY <1>1, <1>2

LEMMA KbdInit == Init => KbdInv
  <1> SUFFICES ASSUME Init PROVE Progress
    BY DEF KbdInv
  <1>1. pc = "start" /\ drv.kbd_state = "UNINITIALIZED"
    BY DEF Init
  <1> QED
    BY <1>1 DEF Progress, FewResends, NotStarted, Present, Recognised, SettingUp, SetUp, Place,
                Prologue, Resets, Identifying, KeyboardInit

LEMMA KbdStep == MaxResends < PS2_MAX_RESENDS /\ Inv /\ KbdInv /\ [Next]_vars => KbdInv'
  <1> SUFFICES ASSUME MaxResends < PS2_MAX_RESENDS, Inv, KbdInv, [Next]_vars, KeyboardThere'
               PROVE  Progress'
    BY DEF KbdInv
  <1>1. CASE UNCHANGED vars
    <2>1. UNCHANGED <<pc, call, acked, drv, dev, machine, resends>>
      BY <1>1 DEF vars, deviceVars
    <2>2. KeyboardThere
      BY <2>1 DEF KeyboardThere, MachineOK
    <2>3. Progress
      BY <2>2 DEF KbdInv
    <2> QED
      BY <2>1, <2>3 DEF Progress, FewResends, NotStarted, Present, Recognised, SettingUp, SetUp,
         Place, Ready
  <1>2. CASE Next
    <2>1. KeyboardThere /\ Progress
      BY <1>2, ThereStays DEF KbdInv
    <2>2. CASE SendByte
      <3>1. CASE call.data = "reset" \/ call.port # 1
        BY <2>1, <2>2, <3>1, OtherCallProgress
      <3>2. CASE call.data # "reset" /\ call.port = 1
        BY <2>1, <2>2, <3>2, KeyboardCallProgress
      <3> QED
        BY <3>1, <3>2
    <2>3. CASE ~SendByte
      BY <1>2, <2>1, <2>3, PrologueProgress, ResetDeviceProgress, DeviceResetProgress,
         ResetDoneProgress,
         IdentifyDeviceProgress, SaveConfigProgress, ReadIdHighProgress, ReadIdLowProgress,
         RestoreConfigProgress, IdentifiedProgress, KbdSetScancodeSetProgress, KbdCommandSentProgress,
         KbdSetSentProgress, KbdEnabledProgress, NextPortProgress, FinishProgress
         DEF Next
    <2> QED
      BY <2>2, <2>3
  <1> QED
    BY <1>1, <1>2

\* As long as devices ask for fewer bytes again than one ps2_send_byte repeats, a keyboard
\* at port 1 of a machine in order is identified, told the scan code set, enabled and
\* unmasked, whatever is at port 2.  With as many as it repeats, one call may fail, and
\* the property does.
THEOREM KeyboardReadyCorrect == MaxResends < PS2_MAX_RESENDS => (QuietSpec => []KeyboardReady)
  <1> SUFFICES ASSUME MaxResends < PS2_MAX_RESENDS PROVE QuietSpec => []KeyboardReady
    OBVIOUS
  <1>1. Inv /\ KbdInv => KeyboardReady
    <2> SUFFICES ASSUME Inv, KbdInv, pc = "done", machine.healthy, machine.port_1_ok,
                        dev[1].kind \in Keyboards
                 PROVE  /\ drv.result = "PS2_OK" /\ drv.kbd_state = "NORMAL"
                        /\ dev[1].scanning /\ dev[1].set = 1
                        /\ Bit(config, IntBit(1)) /\ ~Bit(config, ClockBit(1)) /\ ~Bit(config, TRANSLATION)
                        /\ drv.irq1_enabled
      BY DEF KeyboardReady
    <2>1. KeyboardThere
      BY DEF KeyboardThere, MachineOK
    <2>2. Ready /\ drv.irq1_enabled
      BY <2>1 DEF KbdInv, Progress, SetUp
    <2>3. drv.result = "PS2_OK" /\ Chosen
      BY <2>1 DEF Inv, AfterEnable, KeyboardThere
    <2>4. config \in {7, 39}
      BY <2>3, ChosenConfig DEF Chosen
    <2>5. Bit(config, IntBit(1)) /\ ~Bit(config, ClockBit(1)) /\ ~Bit(config, TRANSLATION)
      BY <2>4, ChosenConfig
    <2> QED
      BY <2>2, <2>3, <2>5 DEF Ready
  <1>2. Inv /\ KbdInv /\ [Next]_vars => KbdInv'
    BY KbdStep
  <1> QED
    BY <1>1, <1>2, InvInit, InvStep, KbdInit, PTL DEF QuietSpec
==============================================================================

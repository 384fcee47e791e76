--------------------------- MODULE InterruptsProofs ---------------------------
(***************************************************************************)
(* Every interrupt reaches its own handler and is acknowledged, and no byte *)
(* of the keyboard goes unannounced or astray: for every set of devices      *)
(* without a driver, every frequency of the timer and every size of the key  *)
(* event buffer.                                                           *)
(***************************************************************************)
EXTENDS Interrupts, TLAPS

Chip == [request : SUBSET (0 .. 7), service : SUBSET (0 .. 7), mask : SUBSET (0 .. 7),
         offset : Nat, auto : BOOLEAN, expects : {"icw2", "icw3", "icw4", "mask"}]

Labels == {"pic_init", "sti", "pit_init", "enable_timer", "ps2_init", "ps2_test",
           "ps2_identify", "idle"}

\* A handler that runs is that of the timer or of the keyboard.
RunningHandlers ==
    {[line |-> line, vector |-> INT_EXT_INT0 + line, at |-> at] :
        line \in {TIMER, KEYBOARD}, at \in {"body", "end"}}

PicTypeOK == pic \in [Chips -> Chip]

TypeOK ==
    /\ PicTypeOK
    /\ allowed \in BOOLEAN /\ full \in BOOLEAN /\ announces \in BOOLEAN
    /\ handler \in {NoHandler} \union RunningHandlers
    /\ stage \in Labels

\* What each chip takes the next write to its data port for, after n writes of
\* pic_init.
FirstExpects(n) == CASE n = 0 -> "mask" [] n \in 1 .. 2 -> "icw2" [] n \in 3 .. 4 -> "icw3"
                     [] n \in 5 .. 6 -> "icw4" [] OTHER -> "mask"
SecondExpects(n) == CASE n \in 0 .. 1 -> "mask" [] n \in 2 .. 3 -> "icw2" [] n \in 4 .. 5 -> "icw3"
                      [] OTHER -> "icw4"

\* How far pic_init has brought the chips.
PicInitProgress ==
    stage = "pic_init" =>
        /\ written \in 0 .. 9
        /\ pic[1].expects = FirstExpects(written) /\ pic[2].expects = SecondExpects(written)
        /\ written >= 3 => pic[1].offset = INT_EXT_INT0
        /\ written >= 9 => pic[1].mask = 0 .. 7

\* pic_init runs alone, and a handler runs alone.
InterruptsOff == /\ allowed => handler = NoHandler
                 /\ stage = "pic_init" => ~allowed /\ handler = NoHandler

\* The first chip has an interrupt in service exactly while its handler runs, the
\* second never.
ServedByHandler ==
    /\ pic[1].service = IF handler = NoHandler THEN {} ELSE {handler.line}
    /\ pic[2].service = {}
    /\ ~pic[1].auto

\* Only the timer and, once kmain is done with it, the keyboard are let through.
OnlyDriversEnabled ==
    stage # "pic_init" =>
        /\ pic[1].offset = INT_EXT_INT0
        /\ 2 .. 7 \subseteq pic[1].mask
        /\ KEYBOARD \notin pic[1].mask \/ handler.vector = INT_EXT_INT1 => stage = "idle"

\* The PIC knows of a byte that waits as soon as port 1 is enabled.
Announced ==
    stage = "ps2_identify" \/ (stage # "pic_init" /\ KEYBOARD \notin pic[1].mask) =>
        /\ announces
        /\ full => \/ KEYBOARD \in pic[1].request
                   \/ handler.vector = INT_EXT_INT1 /\ handler.at = "body"

Inv == /\ TypeOK
       /\ PicInitProgress
       /\ InterruptsOff
       /\ ServedByHandler
       /\ OnlyDriversEnabled
       /\ Announced

-----------------------------------------------------------------------------
(* The chips.                                                              *)

\* A chip that differs in its requests only.
OnlyRequests(p, q) ==
    \A c \in Chips : /\ q[c].service = p[c].service /\ q[c].mask = p[c].mask
                     /\ q[c].offset = p[c].offset /\ q[c].auto = p[c].auto
                     /\ q[c].expects = p[c].expects

\* A line that is raised adds a request and changes nothing else.
LEMMA RaisedFacts ==
    ASSUME PicTypeOK, NEW irq \in 0 .. 15
    PROVE  /\ Raised(pic, irq) \in [Chips -> Chip]
           /\ OnlyRequests(pic, Raised(pic, irq))
           /\ pic[1].request \subseteq Raised(pic, irq)[1].request
           /\ irq = KEYBOARD => KEYBOARD \in Raised(pic, irq)[1].request
  <1>1. irq % 8 \in 0 .. 7 /\ (irq = KEYBOARD => irq % 8 = KEYBOARD /\ ChipOf(irq) = 1)
    BY DEF ChipOf, KEYBOARD
  <1>2. PICK c \in Chips : c = ChipOf(irq)
    BY DEF ChipOf, Chips
  <1>3. PICK n \in 0 .. 7 : n = irq % 8
    BY <1>1
  <1>4. PICK q : q = Raised(pic, irq)
    OBVIOUS
  <1>5. q = [pic EXCEPT ![c] = [pic[c] EXCEPT !.request = pic[c].request \union {n}]]
    BY <1>2, <1>3, <1>4 DEF Raised
  <1>6. /\ q \in [Chips -> Chip]
        /\ q[c] = [pic[c] EXCEPT !.request = pic[c].request \union {n}]
        /\ \A d \in Chips : d # c => q[d] = pic[d]
    BY <1>5 DEF PicTypeOK, Chip, Chips
  <1>7. /\ OnlyRequests(pic, q)
        /\ pic[1].request \subseteq q[1].request
        /\ c = 1 => n \in q[1].request
    BY <1>6 DEF PicTypeOK, Chip, Chips, OnlyRequests
  <1> QED  BY <1>1, <1>2, <1>3, <1>4, <1>6, <1>7

\* When the controller's byte is read, the PIC may forget the request for it.
LEMMA AfterReadFacts ==
    ASSUME PicTypeOK, NEW q \in AfterRead
    PROVE  q \in [Chips -> Chip] /\ OnlyRequests(pic, q)
  <1>1. CASE q = pic
    BY <1>1 DEF PicTypeOK, OnlyRequests
  <1>2. CASE q = [pic EXCEPT ![1] = [pic[1] EXCEPT !.request = pic[1].request \ {KEYBOARD}]]
    <2>1. /\ q \in [Chips -> Chip]
          /\ q[1] = [pic[1] EXCEPT !.request = pic[1].request \ {KEYBOARD}]
          /\ q[2] = pic[2]
      BY <1>2 DEF PicTypeOK, Chip, Chips
    <2> QED  BY <2>1 DEF PicTypeOK, Chip, Chips, OnlyRequests
  <1> QED  BY <1>1, <1>2 DEF AfterRead

\* Enabling an interrupt of the first chip takes it from that chip's mask.
LEMMA EnableIrqFacts ==
    ASSUME PicTypeOK, NEW irq \in {TIMER, KEYBOARD}
    PROVE  /\ EnableIrq(irq) \in [Chips -> Chip]
           /\ EnableIrq(irq)[1] = [pic[1] EXCEPT !.mask = pic[1].mask \ {irq}]
           /\ EnableIrq(irq)[2] = pic[2]
  <1>1. ChipOf(irq) = 1 /\ irq % 8 = irq
    BY DEF ChipOf, TIMER, KEYBOARD
  <1>2. EnableIrq(irq) = [pic EXCEPT ![1] = [pic[1] EXCEPT !.mask = pic[1].mask \ {irq}]]
    BY <1>1 DEF EnableIrq
  <1> QED  BY <1>2 DEF PicTypeOK, Chip, Chips

\* The least of one number.
LEMMA MinOfOne == ASSUME NEW n \in Nat PROVE Min({n}) = n
  BY DEF Min

\* The end of the interrupt that alone is in service leaves none there.
LEMMA EoiFacts ==
    ASSUME PicTypeOK, NEW irq \in {TIMER, KEYBOARD}, pic[1].service = {irq}
    PROVE  /\ SendEoi(irq) \in [Chips -> Chip]
           /\ SendEoi(irq)[1] = [pic[1] EXCEPT !.service = {}]
           /\ SendEoi(irq)[2] = pic[2]
  <1>1. ~(irq > 7) /\ PIC_EOI # PIC_ICW1 /\ irq \in Nat
    BY DEF TIMER, KEYBOARD, PIC_EOI, PIC_ICW1
  <1>2. Min({irq}) = irq
    BY <1>1, MinOfOne
  <1>3. WriteCommand(pic[1], PIC_EOI) = [pic[1] EXCEPT !.service = {}]
    <2>1. pic[1].service \ {Min(pic[1].service)} = {} /\ pic[1].service # {}
      BY <1>2
    <2>2. WriteCommand(pic[1], PIC_EOI)
            = [pic[1] EXCEPT !.service = pic[1].service \ {Min(pic[1].service)}]
      BY <1>1, <2>1 DEF WriteCommand, PicTypeOK, Chip, Chips
    <2> QED  BY <2>1, <2>2
  <1>4. SendEoi(irq) = [pic EXCEPT ![1] = WriteCommand(pic[1], PIC_EOI)]
    BY <1>1 DEF SendEoi
  <1> QED  BY <1>3, <1>4 DEF PicTypeOK, Chip, Chips

\* The processor is interrupted for an enabled line of the first chip only.
LEMMA PendingIsEnabled ==
    ASSUME PicTypeOK, 2 .. 7 \subseteq pic[1].mask, NEW line \in Pending
    PROVE  line \in {TIMER, KEYBOARD} /\ line \notin pic[1].mask
  <1>1. PICK wants : wants = IF Deliverable(pic[2]) = {} THEN pic[1].request
                             ELSE pic[1].request \union {PIC_CASCADE_IRQ}
    OBVIOUS
  <1>2. PICK asked : asked = [pic[1] EXCEPT !.request = wants]
    OBVIOUS
  <1>3. PICK first : first = Deliverable(asked)
    OBVIOUS
  <1>4. asked.request = wants /\ asked.mask = pic[1].mask /\ wants \subseteq 0 .. 7
    BY <1>1, <1>2 DEF PicTypeOK, Chip, Chips, PIC_CASCADE_IRQ
  <1>5. first \subseteq {0, 1} /\ first \cap pic[1].mask = {}
    <2>1. first \subseteq wants \ pic[1].mask
      BY <1>3, <1>4 DEF Deliverable
    <2>2. (0 .. 7) \ pic[1].mask \subseteq {0, 1}
      <3>1. \A n \in 0 .. 7 : n \in {0, 1} \/ n \in 2 .. 7
        OBVIOUS
      <3> QED  BY <3>1
    <2> QED  BY <1>4, <2>1, <2>2
  <1>6. first # {} => Min(first) \in first
    <2>1. CASE 0 \in first
      <3>1. \A y \in first : 0 <= y
        BY <1>5
      <3> QED  BY <2>1, <3>1 DEF Min
    <2>2. CASE 0 \notin first /\ first # {}
      <3>1. first = {1}
        BY <1>5, <2>2
      <3> QED  BY <3>1, MinOfOne
    <2> QED  BY <2>1, <2>2
  <1>7. line \in IF first = {} THEN {}
                 ELSE {IF Min(first) = PIC_CASCADE_IRQ THEN 8 + Min(Deliverable(pic[2]))
                       ELSE Min(first)}
    BY <1>1, <1>2, <1>3 DEF Pending
  <1>8. first # {} /\ line = Min(first)
    BY <1>5, <1>6, <1>7 DEF PIC_CASCADE_IRQ
  <1> QED  BY <1>5, <1>6, <1>8 DEF TIMER, KEYBOARD

-----------------------------------------------------------------------------
(* pic_init.                                                               *)

\* The bits of the bytes that are written as modes and masks.
LEMMA BitsFacts == Bits(255) = 0 .. 7 /\ 1 \notin Bits(PIC_ICW4_MODE_8086)
  <1>1. \A n \in 0 .. 7 : (255 \div 2^n) % 2 = 1
    <2>1. (255 \div 2^0) % 2 = 1 /\ (255 \div 2^1) % 2 = 1
      OBVIOUS
    <2>2. (255 \div 2^2) % 2 = 1 /\ (255 \div 2^3) % 2 = 1
      OBVIOUS
    <2>3. (255 \div 2^4) % 2 = 1 /\ (255 \div 2^5) % 2 = 1
      OBVIOUS
    <2>4. (255 \div 2^6) % 2 = 1 /\ (255 \div 2^7) % 2 = 1
      OBVIOUS
    <2> SUFFICES ASSUME NEW n \in 0 .. 7 PROVE (255 \div 2^n) % 2 = 1
      OBVIOUS
    <2>5. CASE n \in 0 .. 1
      <3>1. n = 0 \/ n = 1  BY <2>5
      <3> QED  BY <2>1, <3>1, Zenon
    <2>6. CASE n \in 2 .. 3
      <3>1. n = 2 \/ n = 3  BY <2>6
      <3> QED  BY <2>2, <3>1, Zenon
    <2>7. CASE n \in 4 .. 5
      <3>1. n = 4 \/ n = 5  BY <2>7
      <3> QED  BY <2>3, <3>1, Zenon
    <2>8. CASE n \in 6 .. 7
      <3>1. n = 6 \/ n = 7  BY <2>8
      <3> QED  BY <2>4, <3>1, Zenon
    <2> QED  BY <2>5, <2>6, <2>7, <2>8
  <1>2. (1 \div 2^1) % 2 # 1
    OBVIOUS
  <1> QED  BY <1>1, <1>2 DEF Bits, PIC_ICW4_MODE_8086

\* ICW1 makes a chip forget everything but its offset and mode.
CommandTaken(p, q, c) ==
    /\ q \in [Chips -> Chip] /\ \A d \in Chips \ {c} : q[d] = p[d]
    /\ q[c].expects = "icw2" /\ q[c].service = {}
    /\ q[c].offset = p[c].offset /\ q[c].auto = p[c].auto

LEMMA CommandFacts ==
    ASSUME PicTypeOK, NEW c \in Chips, NEW q, q = Write(pic, Command(c, PIC_ICW1))
    PROVE  CommandTaken(pic, q, c)
  <1>1. PICK chip : chip = WriteCommand(pic[c], PIC_ICW1)
    OBVIOUS
  <1>2. q = [pic EXCEPT ![c] = chip]
    BY <1>1 DEF Write, Command
  <1>3. chip = [pic[c] EXCEPT !.request = {}, !.service = {}, !.mask = {}, !.expects = "icw2"]
    BY <1>1 DEF WriteCommand
  <1>4. pic[c] \in Chip
    BY DEF PicTypeOK
  <1>5. chip = [request |-> {}, service |-> {}, mask |-> {}, offset |-> pic[c].offset,
                auto |-> pic[c].auto, expects |-> "icw2"]
    BY <1>3, <1>4 DEF Chip
  <1>6. chip \in Chip /\ chip.expects = "icw2" /\ chip.service = {}
        /\ chip.offset = pic[c].offset /\ chip.auto = pic[c].auto
    BY <1>4, <1>5 DEF Chip
  <1> QED  BY <1>2, <1>6 DEF PicTypeOK, CommandTaken

\* What a write to a data port is taken for.
DataTaken(p, q, c, byte) ==
    /\ q \in [Chips -> Chip] /\ \A d \in Chips \ {c} : q[d] = p[d]
    /\ q[c].service = p[c].service
    /\ p[c].expects = "icw2" => /\ q[c].expects = "icw3" /\ q[c].offset = byte
                                /\ q[c].auto = p[c].auto
    /\ p[c].expects = "icw3" => /\ q[c].expects = "icw4" /\ q[c].offset = p[c].offset
                                /\ q[c].auto = p[c].auto
    /\ p[c].expects = "icw4" => /\ q[c].expects = "mask" /\ q[c].offset = p[c].offset
                                /\ (q[c].auto <=> 1 \in Bits(byte))
    /\ p[c].expects = "mask" => /\ q[c].expects = "mask" /\ q[c].offset = p[c].offset
                                /\ q[c].auto = p[c].auto /\ q[c].mask = Bits(byte)

LEMMA DataFacts ==
    ASSUME PicTypeOK, NEW c \in Chips, NEW byte \in Nat, NEW q, q = Write(pic, Data(c, byte))
    PROVE  DataTaken(pic, q, c, byte)
  <1>1. PICK chip : chip = WriteData(pic[c], byte)
    OBVIOUS
  <1>2. q = [pic EXCEPT ![c] = chip]
    BY <1>1 DEF Write, Data
  <1>3. /\ pic[c].expects = "icw2" => chip = [pic[c] EXCEPT !.offset = byte, !.expects = "icw3"]
        /\ pic[c].expects = "icw3" => chip = [pic[c] EXCEPT !.expects = "icw4"]
        /\ pic[c].expects = "icw4" =>
              chip = [pic[c] EXCEPT !.auto = 1 \in Bits(byte), !.expects = "mask"]
        /\ pic[c].expects = "mask" => chip = [pic[c] EXCEPT !.mask = Bits(byte)]
    BY <1>1 DEF WriteData
  <1>4. pic[c] \in Chip /\ Bits(byte) \subseteq 0 .. 7 /\ (1 \in Bits(byte)) \in BOOLEAN
    BY DEF PicTypeOK, Bits
  <1>5. pic[c].expects \in {"icw2", "icw3", "icw4", "mask"}
    BY <1>4 DEF Chip
  <1>6. ASSUME chip \in Chip
        PROVE  q \in [Chips -> Chip] /\ q[c] = chip /\ \A d \in Chips \ {c} : q[d] = pic[d]
    BY <1>2, <1>6 DEF PicTypeOK
  <1>7. CASE pic[c].expects = "icw2"
    <2>1. /\ chip \in Chip /\ chip.service = pic[c].service /\ chip.auto = pic[c].auto
          /\ chip.offset = byte /\ chip.expects = "icw3"
      BY <1>3, <1>4, <1>7 DEF Chip
    <2> QED  BY <1>6, <1>7, <2>1 DEF DataTaken
  <1>8. CASE pic[c].expects = "icw3"
    <2>1. /\ chip \in Chip /\ chip.service = pic[c].service /\ chip.auto = pic[c].auto
          /\ chip.offset = pic[c].offset /\ chip.expects = "icw4"
      BY <1>3, <1>4, <1>8 DEF Chip
    <2> QED  BY <1>6, <1>8, <2>1 DEF DataTaken
  <1>9. CASE pic[c].expects = "icw4"
    <2>1. /\ chip \in Chip /\ chip.service = pic[c].service /\ chip.auto = (1 \in Bits(byte))
          /\ chip.offset = pic[c].offset /\ chip.expects = "mask"
      BY <1>3, <1>4, <1>9 DEF Chip
    <2> QED  BY <1>6, <1>9, <2>1 DEF DataTaken
  <1>10. CASE pic[c].expects = "mask"
    <2>1. /\ chip \in Chip /\ chip.service = pic[c].service /\ chip.auto = pic[c].auto
          /\ chip.offset = pic[c].offset /\ chip.expects = "mask" /\ chip.mask = Bits(byte)
      BY <1>3, <1>4, <1>10 DEF Chip
    <2> QED  BY <1>6, <1>10, <2>1 DEF DataTaken
  <1> QED  BY <1>5, <1>7, <1>8, <1>9, <1>10

\* The writes of pic_init, one by one.
LEMMA TheWrites ==
    ASSUME NEW w, w = InitWrites(INT_EXT_INT0, INT_EXT_INT0 + 8)
    PROVE  /\ Len(w) = 10
           /\ w[1] = Command(1, PIC_ICW1) /\ w[2] = Command(2, PIC_ICW1)
           /\ w[3] = Data(1, 32) /\ w[4] = Data(2, 40)
           /\ w[5] = Data(1, 2^PIC_CASCADE_IRQ) /\ w[6] = Data(2, PIC_CASCADE_IRQ)
           /\ w[7] = Data(1, PIC_ICW4_MODE_8086) /\ w[8] = Data(1, PIC_ICW4_MODE_8086)
           /\ w[9] = Data(1, 255) /\ w[10] = Data(2, 255)
  BY DEF InitWrites, INT_EXT_INT0

\* Whatever a write does to the requests of a chip, what pic_init has reached is given
\* by the other fields.
Reached(p, n) ==
    /\ p[1].expects = FirstExpects(n) /\ p[2].expects = SecondExpects(n)
    /\ n >= 3 => p[1].offset = INT_EXT_INT0
    /\ n >= 9 => p[1].mask = 0 .. 7
    /\ p[1].service = {} /\ p[2].service = {} /\ ~p[1].auto

\* What the chips expect between two writes.
LEMMA Expected ==
    /\ FirstExpects(0) = "mask" /\ FirstExpects(1) = "icw2" /\ FirstExpects(2) = "icw2"
    /\ FirstExpects(3) = "icw3" /\ FirstExpects(4) = "icw3" /\ FirstExpects(5) = "icw4"
    /\ FirstExpects(6) = "icw4" /\ FirstExpects(7) = "mask" /\ FirstExpects(8) = "mask"
    /\ FirstExpects(9) = "mask"
    /\ SecondExpects(0) = "mask" /\ SecondExpects(1) = "mask" /\ SecondExpects(2) = "icw2"
    /\ SecondExpects(3) = "icw2" /\ SecondExpects(4) = "icw3" /\ SecondExpects(5) = "icw3"
    /\ SecondExpects(6) = "icw4" /\ SecondExpects(7) = "icw4" /\ SecondExpects(8) = "icw4"
    /\ SecondExpects(9) = "icw4"
  BY DEF FirstExpects, SecondExpects

\* Each write brings the chips on.
LEMMA WriteReaches ==
    ASSUME PicTypeOK, NEW n \in 0 .. 9, Reached(pic, n), NEW q,
           q = Write(pic, InitWrites(INT_EXT_INT0, INT_EXT_INT0 + 8)[n + 1])
    PROVE  /\ q \in [Chips -> Chip]
           /\ n < 9 => Reached(q, n + 1)
           /\ n = 9 => q[1] = pic[1] /\ q[2].service = {}
  <1>1. PICK w : w = InitWrites(INT_EXT_INT0, INT_EXT_INT0 + 8) /\ q = Write(pic, w[n + 1])
    OBVIOUS
  <1>2. /\ 1 \in Chips /\ 2 \in Chips
        /\ PIC_CASCADE_IRQ \in Nat /\ 2^PIC_CASCADE_IRQ \in Nat /\ PIC_ICW4_MODE_8086 \in Nat
    BY DEF Chips, PIC_CASCADE_IRQ, PIC_ICW4_MODE_8086
  <1>3. CASE n = 0
    <2>1. q = Write(pic, Command(1, PIC_ICW1))
      BY <1>1, <1>3, TheWrites
    <2>2. CommandTaken(pic, q, 1)
      BY <1>2, <2>1, CommandFacts
    <2>3. q \in [Chips -> Chip] /\ Reached(q, 1)
      BY <1>2, <1>3, <2>2, Expected DEF Reached, CommandTaken
    <2> QED  BY <1>3, <2>3
  <1>4. CASE n = 1
    <2>1. q = Write(pic, Command(2, PIC_ICW1))
      BY <1>1, <1>4, TheWrites
    <2>2. CommandTaken(pic, q, 2)
      BY <1>2, <2>1, CommandFacts
    <2>3. q \in [Chips -> Chip] /\ Reached(q, 2)
      BY <1>2, <1>4, <2>2, Expected DEF Reached, CommandTaken
    <2> QED  BY <1>4, <2>3
  <1>5. CASE n = 2
    <2>1. q = Write(pic, Data(1, 32))
      BY <1>1, <1>5, TheWrites
    <2>2. DataTaken(pic, q, 1, 32)
      BY <1>2, <2>1, DataFacts
    <2>3. q \in [Chips -> Chip] /\ Reached(q, 3)
      BY <1>2, <1>5, <2>2, Expected DEF Reached, DataTaken, INT_EXT_INT0
    <2> QED  BY <1>5, <2>3
  <1>6. CASE n = 3
    <2>1. q = Write(pic, Data(2, 40))
      BY <1>1, <1>6, TheWrites
    <2>2. DataTaken(pic, q, 2, 40)
      BY <1>2, <2>1, DataFacts
    <2>3. q \in [Chips -> Chip] /\ Reached(q, 4)
      BY <1>2, <1>6, <2>2, Expected DEF Reached, DataTaken
    <2> QED  BY <1>6, <2>3
  <1>7. CASE n = 4
    <2>1. q = Write(pic, Data(1, 2^PIC_CASCADE_IRQ))
      BY <1>1, <1>7, TheWrites
    <2>2. DataTaken(pic, q, 1, 2^PIC_CASCADE_IRQ)
      BY <1>2, <2>1, DataFacts
    <2>3. q \in [Chips -> Chip] /\ Reached(q, 5)
      BY <1>2, <1>7, <2>2, Expected DEF Reached, DataTaken
    <2> QED  BY <1>7, <2>3
  <1>8. CASE n = 5
    <2>1. q = Write(pic, Data(2, PIC_CASCADE_IRQ))
      BY <1>1, <1>8, TheWrites
    <2>2. DataTaken(pic, q, 2, PIC_CASCADE_IRQ)
      BY <1>2, <2>1, DataFacts
    <2>3. q \in [Chips -> Chip] /\ Reached(q, 6)
      BY <1>2, <1>8, <2>2, Expected DEF Reached, DataTaken
    <2> QED  BY <1>8, <2>3
  <1>9. CASE n = 6
    <2>1. q = Write(pic, Data(1, PIC_ICW4_MODE_8086))
      BY <1>1, <1>9, TheWrites
    <2>2. DataTaken(pic, q, 1, PIC_ICW4_MODE_8086)
      BY <1>2, <2>1, DataFacts
    <2>3. q \in [Chips -> Chip] /\ Reached(q, 7)
      BY <1>2, <1>9, <2>2, Expected, BitsFacts DEF Reached, DataTaken
    <2> QED  BY <1>9, <2>3
  <1>10. CASE n = 7
    <2>1. q = Write(pic, Data(1, PIC_ICW4_MODE_8086))
      BY <1>1, <1>10, TheWrites
    <2>2. DataTaken(pic, q, 1, PIC_ICW4_MODE_8086)
      BY <1>2, <2>1, DataFacts
    <2>3. q \in [Chips -> Chip] /\ Reached(q, 8)
      BY <1>2, <1>10, <2>2, Expected DEF Reached, DataTaken
    <2> QED  BY <1>10, <2>3
  <1>11. CASE n = 8
    <2>1. q = Write(pic, Data(1, 255))
      BY <1>1, <1>11, TheWrites
    <2>2. DataTaken(pic, q, 1, 255)
      BY <1>2, <2>1, DataFacts
    <2>3. q \in [Chips -> Chip] /\ Reached(q, 9)
      BY <1>2, <1>11, <2>2, Expected, BitsFacts DEF Reached, DataTaken
    <2> QED  BY <1>11, <2>3
  <1>12. CASE n = 9
    <2>1. q = Write(pic, Data(2, 255))
      BY <1>1, <1>12, TheWrites
    <2>2. DataTaken(pic, q, 2, 255)
      BY <1>2, <2>1, DataFacts
    <2>3. q \in [Chips -> Chip] /\ q[1] = pic[1] /\ q[2].service = {}
      BY <1>2, <1>12, <2>2, Expected DEF Reached, DataTaken
    <2> QED  BY <1>12, <2>3
  <1> QED  BY <1>3, <1>4, <1>5, <1>6, <1>7, <1>8, <1>9, <1>10, <1>11, <1>12

-----------------------------------------------------------------------------
(* The invariant is kept.                                                  *)

\* The bootloader leaves interrupts off and no handler running.
LEMMA InvInit == InterruptsInit => Inv
<1> SUFFICES ASSUME InterruptsInit PROVE Inv
    OBVIOUS
<1>1. /\ pic[1] = [request |-> {}, service |-> {}, mask |-> 0 .. 7, offset |-> 8,
                   auto |-> FALSE, expects |-> "mask"]
      /\ pic[2] = [request |-> {}, service |-> {}, mask |-> 0 .. 7, offset |-> 112,
                   auto |-> FALSE, expects |-> "mask"]
      /\ pic = [c \in Chips |-> pic[c]]
    BY DEF InterruptsInit, Chips
<1>2. PicTypeOK
  <2>1. pic[1] \in Chip /\ pic[2] \in Chip
      BY <1>1 DEF Chip
  <2> QED
      BY <1>1, <2>1 DEF PicTypeOK, Chips
<1>3. TypeOK
    BY <1>2 DEF TypeOK, InterruptsInit, Labels
<1>4. PicInitProgress
    BY <1>1, Expected DEF InterruptsInit, PicInitProgress
<1>5. stage = "pic_init" /\ ~allowed /\ handler = NoHandler
    BY DEF InterruptsInit
<1>6. ServedByHandler
    BY <1>1, <1>5 DEF ServedByHandler
<1> QED
    BY <1>3, <1>4, <1>5, <1>6 DEF Inv, InterruptsOff, OnlyDriversEnabled, Announced

\* pic_init brings the chips to where everything is masked.
LEMMA PicInitPreserves == Inv /\ PicInit => Inv'
<1> SUFFICES ASSUME Inv, PicInit PROVE Inv'
    OBVIOUS
<1>1. PicTypeOK /\ written \in 0 .. 9 /\ Reached(pic, written) /\ stage = "pic_init"
    BY DEF Inv, TypeOK, PicInitProgress, ServedByHandler, PicInit, Reached
<1>2. pic' = Write(pic, InitWrites(INT_EXT_INT0, INT_EXT_INT0 + 8)[written + 1])
    BY DEF PicInit
<1>3. /\ pic' \in [Chips -> Chip]
      /\ written < 9 => Reached(pic', written + 1)
      /\ written = 9 => pic'[1] = pic[1] /\ pic'[2].service = {}
    BY <1>1, <1>2, WriteReaches
<1>4. Len(InitWrites(INT_EXT_INT0, INT_EXT_INT0 + 8)) = 10
    BY TheWrites
<1>5. /\ stage' = IF written = 9 THEN "sti" ELSE "pic_init"
      /\ written' = written + 1
      /\ ~allowed' /\ handler' = NoHandler
  <2>1. written + 1 = 10 <=> written = 9
      BY <1>1
  <2>2. stage' = IF written + 1 = 10 THEN "sti" ELSE stage
      BY <1>4 DEF PicInit
  <2>3. written' = written + 1 /\ allowed' = allowed /\ handler' = handler
      BY DEF PicInit
  <2> QED
      BY <1>1, <2>1, <2>2, <2>3 DEF Inv, InterruptsOff
<1>6. TypeOK'
    BY <1>3, <1>5 DEF Inv, TypeOK, PicTypeOK, PicInit, keyboard, Labels
<1>7. CASE written < 9
  <2>1. stage' = "pic_init" /\ written' \in 0 .. 9 /\ Reached(pic', written')
      BY <1>1, <1>3, <1>5, <1>7
  <2> QED
      BY <1>5, <1>6, <2>1 DEF Inv, Reached, PicInitProgress, InterruptsOff, ServedByHandler,
                              OnlyDriversEnabled, Announced
<1>8. CASE written = 9
  <2>1. stage' = "sti" /\ pic'[1].service = {} /\ pic'[2].service = {} /\ ~pic'[1].auto
      BY <1>1, <1>3, <1>5, <1>8 DEF Reached
  <2>2. pic'[1].offset = INT_EXT_INT0 /\ pic'[1].mask = 0 .. 7
      BY <1>1, <1>3, <1>8 DEF Reached
  <2> QED
      BY <1>5, <1>6, <2>1, <2>2 DEF Inv, PicInitProgress, InterruptsOff, ServedByHandler,
                              OnlyDriversEnabled, Announced, NoHandler, INT_EXT_INT1, KEYBOARD
<1> QED
    BY <1>1, <1>7, <1>8

\* kmain goes on without the PICs.
LEMMA StiPreserves == Inv /\ (Sti \/ PitInit) => Inv'
<1> SUFFICES ASSUME Inv, Sti \/ PitInit PROVE Inv'
    OBVIOUS
<1>1. /\ stage \in {"sti", "pit_init"} /\ stage' \in {"pit_init", "enable_timer"}
      /\ handler = NoHandler /\ allowed' \in BOOLEAN
      /\ UNCHANGED <<pic, handler, full, announces>>
  <2>1. CASE Sti
      BY <2>1 DEF Sti, Step, keyboard
  <2>2. CASE PitInit
      BY <2>2 DEF PitInit, Step, keyboard
  <2> QED
      BY <2>1, <2>2
<1> QED
    BY <1>1 DEF Inv, TypeOK, PicTypeOK, Labels, PicInitProgress, InterruptsOff, ServedByHandler,
                OnlyDriversEnabled, Announced

LEMMA EnableTimerPreserves == Inv /\ EnableTimer => Inv'
<1> SUFFICES ASSUME Inv, EnableTimer PROVE Inv'
    OBVIOUS
<1>1. /\ stage = "enable_timer" /\ stage' = "ps2_init" /\ handler = NoHandler
      /\ pic' = EnableIrq(TIMER)
      /\ UNCHANGED <<handler, allowed, full, announces>>
    BY DEF EnableTimer, Step, keyboard
<1>2. /\ pic' \in [Chips -> Chip]
      /\ pic'[1] = [pic[1] EXCEPT !.mask = pic[1].mask \ {TIMER}]
      /\ pic'[2] = pic[2]
    BY <1>1, EnableIrqFacts DEF Inv, TypeOK
<1>3. pic[1] \in Chip
    BY DEF Inv, TypeOK, PicTypeOK, Chips
<1> QED
    BY <1>1, <1>2, <1>3 DEF Inv, TypeOK, PicTypeOK, Chip, Labels, PicInitProgress, InterruptsOff,
                ServedByHandler, OnlyDriversEnabled, Announced, TIMER, KEYBOARD

\* The last step of ps2_init_controller.
LEMMA EnableKeyboardPreserves == Inv /\ EnableKeyboard => Inv'
<1> SUFFICES ASSUME Inv, EnableKeyboard PROVE Inv'
    OBVIOUS
<1>1. /\ stage = "ps2_identify" /\ stage' = "idle" /\ handler = NoHandler
      /\ pic' = EnableIrq(KEYBOARD)
      /\ UNCHANGED <<handler, allowed, full, announces>>
    BY DEF EnableKeyboard, Step, keyboard
<1>2. /\ pic' \in [Chips -> Chip]
      /\ pic'[1] = [pic[1] EXCEPT !.mask = pic[1].mask \ {KEYBOARD}]
      /\ pic'[2] = pic[2]
    BY <1>1, EnableIrqFacts DEF Inv, TypeOK
<1>3. pic[1] \in Chip
    BY DEF Inv, TypeOK, PicTypeOK, Chips
<1> QED
    BY <1>1, <1>2, <1>3 DEF Inv, TypeOK, PicTypeOK, Chip, Labels, PicInitProgress, InterruptsOff,
                ServedByHandler, OnlyDriversEnabled, Announced, KEYBOARD

\* What happens to the requests alone disturbs only what is known of the byte that
\* waits.
LEMMA RequestsPreserve ==
    ASSUME Inv, pic' \in [Chips -> Chip], OnlyRequests(pic, pic'),
           UNCHANGED <<allowed, handler, written>>,
           full' \in BOOLEAN, announces' \in BOOLEAN, stage' \in Labels,
           stage = "pic_init" <=> stage' = "pic_init",
           stage' = stage \/ (handler = NoHandler /\ KEYBOARD \in pic[1].mask),
           Announced'
    PROVE  Inv'
<1>1. /\ pic'[1].service = pic[1].service /\ pic'[2].service = pic[2].service
      /\ pic'[1].mask = pic[1].mask /\ pic'[1].offset = pic[1].offset
      /\ pic'[1].auto = pic[1].auto
      /\ pic'[1].expects = pic[1].expects /\ pic'[2].expects = pic[2].expects
    BY DEF OnlyRequests, Chips
<1>2. TypeOK'
    BY DEF Inv, TypeOK, PicTypeOK
<1>3. PicInitProgress' /\ InterruptsOff'
    BY <1>1 DEF Inv, PicInitProgress, InterruptsOff
<1>4. ServedByHandler'
    BY <1>1 DEF Inv, ServedByHandler
<1>5. OnlyDriversEnabled'
    BY <1>1 DEF Inv, OnlyDriversEnabled, NoHandler, INT_EXT_INT1
<1> QED
    BY <1>2, <1>3, <1>4, <1>5 DEF Inv

\* Reading a byte by polling ends what was announced.
LEMMA PollPreserves == Inv /\ (DisablePorts \/ Poll) => Inv'
<1> SUFFICES ASSUME Inv, DisablePorts \/ Poll PROVE Inv'
    OBVIOUS
<1>1. /\ stage \in {"ps2_init", "ps2_test", "ps2_identify"} /\ handler = NoHandler
      /\ full' = FALSE
      /\ pic' \in AfterRead
      /\ UNCHANGED <<allowed, handler, written>>
      /\ \/ stage = "ps2_init" /\ stage' = "ps2_test" /\ announces' = FALSE
         \/ stage' = stage /\ stage # "ps2_init" /\ announces' = announces
  <2>1. CASE DisablePorts
      BY <2>1 DEF DisablePorts, Step
  <2>2. CASE Poll
      BY <2>2 DEF Poll, kmain
  <2> QED
      BY <2>1, <2>2
<1>2. pic' \in [Chips -> Chip] /\ OnlyRequests(pic, pic')
    BY <1>1, AfterReadFacts DEF Inv, TypeOK
<1>3. KEYBOARD \in pic[1].mask /\ pic'[1].mask = pic[1].mask
    BY <1>1, <1>2 DEF Inv, OnlyDriversEnabled, OnlyRequests, Chips
<1>4. Announced'
    BY <1>1, <1>3 DEF Inv, Announced
<1> QED
    BY <1>1, <1>2, <1>3, <1>4, RequestsPreserve DEF Inv, TypeOK, Labels

\* A byte that waits when its interrupt is switched on raises it.
LEMMA EnablePortsPreserves == Inv /\ (Fail \/ EnableWorkingPorts) => Inv'
<1> SUFFICES ASSUME Inv, Fail \/ EnableWorkingPorts PROVE Inv'
    OBVIOUS
<1>1. /\ stage = "ps2_test" /\ handler = NoHandler
      /\ stage' = "idle" \/ (stage' = "ps2_identify" /\ announces')
      /\ announces' \in BOOLEAN
      /\ pic' = IF announces' /\ full THEN Raised(pic, KEYBOARD) ELSE pic
      /\ UNCHANGED <<allowed, handler, written, full>>
  <2>1. CASE Fail
      BY <2>1 DEF Fail, Step
  <2>2. CASE EnableWorkingPorts
    <3>1. announces' = TRUE /\ pic' = IF full THEN Raised(pic, KEYBOARD) ELSE pic
        BY <2>2 DEF EnableWorkingPorts
    <3> QED
        BY <2>2, <3>1 DEF EnableWorkingPorts, Step
  <2> QED
      BY <2>1, <2>2
<1>2. PicTypeOK /\ KEYBOARD \in 0 .. 15
    BY DEF Inv, TypeOK, KEYBOARD
<1>3. /\ pic' \in [Chips -> Chip] /\ OnlyRequests(pic, pic')
      /\ announces' /\ full => KEYBOARD \in pic'[1].request
  <2>1. CASE announces' /\ full
      BY <1>1, <1>2, <2>1, RaisedFacts
  <2>2. CASE ~(announces' /\ full)
      BY <1>1, <1>2, <2>2 DEF PicTypeOK, OnlyRequests
  <2> QED
      BY <2>1, <2>2
<1>4. KEYBOARD \in pic[1].mask /\ pic'[1].mask = pic[1].mask
    BY <1>1, <1>3 DEF Inv, OnlyDriversEnabled, OnlyRequests, Chips
<1>5. Announced'
    BY <1>1, <1>3, <1>4 DEF Announced
<1> QED
    BY <1>1, <1>3, <1>4, <1>5, RequestsPreserve DEF Inv, TypeOK, Labels

\* Devices raise their lines, and the keyboard announces what it has.
LEMMA DevicesPreserve ==
    Inv /\ (Tick \/ DeviceByte \/ \E line \in OtherLines : OtherDevice(line)) => Inv'
<1> SUFFICES ASSUME Inv, Tick \/ DeviceByte \/ \E line \in OtherLines : OtherDevice(line)
             PROVE  Inv'
    OBVIOUS
<1>1. PICK line \in 0 .. 15 : pic' \in {pic, Raised(pic, line)}
                              /\ (line # KEYBOARD => full' = full)
                              /\ (line = KEYBOARD => (announces => pic' = Raised(pic, KEYBOARD)))
                              /\ full' \in BOOLEAN
                              /\ UNCHANGED <<allowed, handler, written, stage, announces>>
  <2>1. full \in BOOLEAN
      BY DEF Inv, TypeOK
  <2>2. CASE Tick
    <3>1. /\ pic' = Raised(pic, TIMER)
          /\ UNCHANGED <<allowed, handler, written, stage, announces, full>>
        BY <2>2 DEF Tick, kmain, keyboard
    <3>2. TIMER \in 0 .. 15 /\ TIMER # KEYBOARD
        BY DEF TIMER, KEYBOARD
    <3> QED
        BY <2>1, <3>1, <3>2
  <2>3. CASE DeviceByte
    <3>1. /\ full' = TRUE /\ pic' = IF announces THEN Raised(pic, KEYBOARD) ELSE pic
          /\ UNCHANGED <<allowed, handler, written, stage, announces>>
        BY <2>3 DEF DeviceByte, kmain
    <3>2. KEYBOARD \in 0 .. 15
        BY DEF KEYBOARD
    <3> QED
        BY <3>1, <3>2
  <2>4. ASSUME NEW line \in OtherLines, OtherDevice(line)
        PROVE  /\ line \in 0 .. 15 /\ line # KEYBOARD
               /\ pic' = Raised(pic, line)
               /\ UNCHANGED <<allowed, handler, written, stage, announces, full>>
    <3>1. line \in 3 .. 15
        BY LinesAssumption
    <3> QED
        BY <2>4, <3>1 DEF OtherDevice, kmain, keyboard, KEYBOARD
  <2> QED
      BY <2>1, <2>2, <2>3, <2>4
<1>2. PicTypeOK
    BY DEF Inv, TypeOK
<1>3. /\ pic' \in [Chips -> Chip] /\ OnlyRequests(pic, pic')
      /\ pic[1].request \subseteq pic'[1].request
      /\ line = KEYBOARD /\ announces => KEYBOARD \in pic'[1].request
  <2>1. CASE pic' = pic
      BY <1>1, <1>2, <2>1, RaisedFacts DEF PicTypeOK, OnlyRequests
  <2>2. CASE pic' = Raised(pic, line)
      BY <1>1, <1>2, <2>2, RaisedFacts
  <2> QED
      BY <1>1, <2>1, <2>2
<1>4. pic'[1].mask = pic[1].mask
    BY <1>3 DEF OnlyRequests, Chips
<1>5. Announced'
    BY <1>1, <1>3, <1>4 DEF Inv, Announced
<1>6. /\ announces' \in BOOLEAN /\ full' \in BOOLEAN /\ stage' \in Labels /\ stage' = stage
      /\ UNCHANGED <<allowed, handler, written>>
      /\ stage = "pic_init" <=> stage' = "pic_init"
    BY <1>1 DEF Inv, TypeOK
<1> QED
    BY <1>3, <1>5, <1>6, RequestsPreserve

\* The processor takes an interrupt of an enabled line, at that line's vector.
LEMMA TakeInterruptPreserves ==
    ASSUME NEW line, TakeInterrupt(line), Inv
    PROVE  Inv'
<1>1. allowed /\ handler = NoHandler /\ stage # "pic_init" /\ PicTypeOK
    BY DEF TakeInterrupt, Inv, InterruptsOff, TypeOK
<1>2. line \in {TIMER, KEYBOARD} /\ line \notin pic[1].mask
    BY <1>1, PendingIsEnabled DEF TakeInterrupt, Inv, OnlyDriversEnabled
<1>3. line < 8 /\ ChipOf(line) = 1 /\ line % 8 = line /\ line \in 0 .. 7
    BY <1>2 DEF TIMER, KEYBOARD, ChipOf
<1>4. handler' = [line |-> line, vector |-> INT_EXT_INT0 + line, at |-> "body"]
  <2>1. pic[1].offset = INT_EXT_INT0
      BY <1>1 DEF Inv, OnlyDriversEnabled
  <2> QED
      BY <1>3, <2>1 DEF TakeInterrupt, Enter
<1>5. /\ pic' = [pic EXCEPT ![1] = Serving(pic[1], line)]
      /\ allowed' = FALSE
      /\ UNCHANGED <<stage, written, full, announces>>
    BY <1>3 DEF TakeInterrupt, Enter, kmain, keyboard
<1>6. pic[1] \in Chip /\ pic[1].service = {} /\ ~pic[1].auto
    BY <1>1 DEF Inv, TypeOK, PicTypeOK, Chips, ServedByHandler
<1>7. Serving(pic[1], line) = [pic[1] EXCEPT !.request = pic[1].request \ {line}, !.service = {line}]
    BY <1>6 DEF Serving
<1>8. /\ pic' \in [Chips -> Chip] /\ pic'[2] = pic[2]
      /\ pic'[1] = [pic[1] EXCEPT !.request = pic[1].request \ {line}, !.service = {line}]
  <2>1. [pic[1] EXCEPT !.request = pic[1].request \ {line}, !.service = {line}] \in Chip
      BY <1>3, <1>6 DEF Chip
  <2> QED
      BY <1>1, <1>5, <1>7, <2>1 DEF PicTypeOK, Chips
<1>9. /\ pic'[1].service = {line} /\ pic'[1].mask = pic[1].mask /\ pic'[1].auto = pic[1].auto
      /\ pic'[1].offset = pic[1].offset /\ pic'[1].request = pic[1].request \ {line}
    BY <1>6, <1>8 DEF Chip
<1>10. handler' # NoHandler /\ handler'.line = line /\ handler'.vector = INT_EXT_INT0 + line
       /\ handler'.at = "body" /\ handler' \in RunningHandlers
    BY <1>2, <1>4 DEF NoHandler, RunningHandlers
<1>11. TypeOK'
    BY <1>5, <1>8, <1>10 DEF Inv, TypeOK, PicTypeOK
<1>12. line = KEYBOARD <=> handler'.vector = INT_EXT_INT1
    BY <1>2, <1>10 DEF TIMER, KEYBOARD, INT_EXT_INT0, INT_EXT_INT1
<1>13. OnlyDriversEnabled'
    BY <1>1, <1>2, <1>5, <1>9, <1>12 DEF Inv, OnlyDriversEnabled
<1>14. Announced'
  <2>1. handler.vector # INT_EXT_INT1
      BY <1>1 DEF NoHandler, INT_EXT_INT1
  <2> QED
      BY <1>1, <1>5, <1>9, <1>10, <1>12, <2>1 DEF Inv, Announced
<1>15. ServedByHandler'
    BY <1>6, <1>8, <1>9, <1>10 DEF Inv, ServedByHandler
<1> QED
    BY <1>1, <1>5, <1>11, <1>13, <1>14, <1>15 DEF Inv, PicInitProgress, InterruptsOff

\* The keyboard's handler takes the byte it was called for.
LEMMA HandleInterruptPreserves == Inv /\ HandleInterrupt => Inv'
<1> SUFFICES ASSUME Inv, HandleInterrupt PROVE Inv'
    OBVIOUS
<1>1. handler.at = "body" /\ handler # NoHandler
    BY DEF HandleInterrupt, NoHandler
<1>2. PICK line \in {TIMER, KEYBOARD} :
         handler = [line |-> line, vector |-> INT_EXT_INT0 + line, at |-> "body"]
    BY <1>1 DEF Inv, TypeOK, RunningHandlers
<1>3. handler' = [line |-> line, vector |-> INT_EXT_INT0 + line, at |-> "end"]
    BY <1>2 DEF HandleInterrupt
<1>4. /\ full' = (full /\ handler.vector # INT_EXT_INT1)
      /\ UNCHANGED <<pic, allowed, stage, written, announces>>
    BY DEF HandleInterrupt, kmain
<1>5. handler' \in RunningHandlers /\ handler' # NoHandler
    BY <1>3 DEF RunningHandlers, NoHandler
<1>6. handler'.vector = handler.vector /\ handler'.line = handler.line /\ handler'.at = "end"
    BY <1>2, <1>3
<1>7. TypeOK'
    BY <1>4, <1>5 DEF Inv, TypeOK, PicTypeOK
<1>8. full' => full /\ handler.vector # INT_EXT_INT1
    BY <1>4
<1> QED
    BY <1>1, <1>4, <1>5, <1>6, <1>7, <1>8 DEF Inv, PicInitProgress, InterruptsOff, ServedByHandler,
                OnlyDriversEnabled, Announced

\* The end of interrupt goes to the chip that raised it.
LEMMA EndOfInterruptPreserves == Inv /\ EndOfInterrupt => Inv'
<1> SUFFICES ASSUME Inv, EndOfInterrupt PROVE Inv'
    OBVIOUS
<1>1. handler.at = "end" /\ handler # NoHandler
    BY DEF EndOfInterrupt, NoHandler
<1>2. PICK line \in {TIMER, KEYBOARD} :
         handler = [line |-> line, vector |-> INT_EXT_INT0 + line, at |-> "end"]
    BY <1>1 DEF Inv, TypeOK, RunningHandlers
<1>3. handler.vector - INT_EXT_INT0 = line /\ handler.line = line
    BY <1>2 DEF INT_EXT_INT0, TIMER, KEYBOARD
<1>4. /\ pic' = SendEoi(line) /\ handler' = NoHandler /\ allowed' = TRUE
      /\ UNCHANGED <<stage, written, full, announces>>
    BY <1>3 DEF EndOfInterrupt, kmain, keyboard
<1>5. pic[1].service = {line} /\ PicTypeOK /\ stage # "pic_init"
    BY <1>1, <1>3 DEF Inv, TypeOK, ServedByHandler, InterruptsOff
<1>6. /\ pic' \in [Chips -> Chip] /\ pic'[2] = pic[2]
      /\ pic'[1] = [pic[1] EXCEPT !.service = {}]
    BY <1>4, <1>5, EoiFacts
<1>7. /\ pic'[1].service = {} /\ pic'[1].mask = pic[1].mask /\ pic'[1].offset = pic[1].offset
      /\ pic'[1].auto = pic[1].auto /\ pic'[1].request = pic[1].request
    BY <1>5, <1>6 DEF PicTypeOK, Chip, Chips
<1>8. ~(handler.vector = INT_EXT_INT1 /\ handler.at = "body")
    BY <1>1
<1>9. handler'.vector # INT_EXT_INT1
    BY <1>4 DEF NoHandler, INT_EXT_INT1
<1>10. TypeOK'
    BY <1>4, <1>6 DEF Inv, TypeOK, PicTypeOK
<1> QED
    BY <1>4, <1>5, <1>6, <1>7, <1>8, <1>9, <1>10
       DEF Inv, PicInitProgress, InterruptsOff, ServedByHandler, OnlyDriversEnabled, Announced

LEMMA InvNext == Inv /\ [InterruptsNext]_interruptsVars => Inv'
<1> SUFFICES ASSUME Inv, [InterruptsNext]_interruptsVars PROVE Inv'
    OBVIOUS
<1>1. CASE Kernel
    BY <1>1, PicInitPreserves, StiPreserves, EnableTimerPreserves, PollPreserves,
       EnablePortsPreserves, EnableKeyboardPreserves DEF Kernel
<1>2. CASE \E line \in Lines : TakeInterrupt(line)
    BY <1>2, TakeInterruptPreserves
<1>3. CASE HandleInterrupt \/ EndOfInterrupt
    BY <1>3, HandleInterruptPreserves, EndOfInterruptPreserves
<1>4. CASE Tick \/ DeviceByte \/ \E line \in OtherLines : OtherDevice(line)
    BY <1>4, DevicesPreserve
<1>5. CASE UNCHANGED interruptsVars
    BY <1>5 DEF interruptsVars, kmain, keyboard, Inv, TypeOK, PicTypeOK, PicInitProgress, InterruptsOff,
                ServedByHandler, OnlyDriversEnabled, Announced
<1> QED
    BY <1>1, <1>2, <1>3, <1>4, <1>5 DEF InterruptsNext

-----------------------------------------------------------------------------
(* Theorems.                                                               *)

\* The chips are initialised as kmain means them to be, their masks let nothing
\* through that has no handler, and one handler runs at a time.
THEOREM InterruptInvariant == InterruptsSpec => []Inv
  BY InvInit, InvNext, PTL DEF InterruptsSpec

\* Every interrupt arrives at the vector of its own line: never at an exception's,
\* where interrupt_handler halts the system.
THEOREM RightHandlerAlways == InterruptsSpec => []RightHandler
  <1>1. Inv => RightHandler
    BY DEF Inv, TypeOK, RunningHandlers, RightHandler
  <1> QED  BY <1>1, InterruptInvariant, PTL

\* Every interrupt is acknowledged by the time its handler returns.
THEOREM EverythingAcknowledged == InterruptsSpec => []NothingLeftInService
  <1>1. Inv => NothingLeftInService
    BY DEF Inv, ServedByHandler, NothingLeftInService
  <1> QED  BY <1>1, InterruptInvariant, PTL

\* The keyboard's handler takes no answer that ps2_init_controller polls for.
THEOREM AnswersAlwaysReachInit == InterruptsSpec => []AnswersReachInit
  <1>1. Inv => AnswersReachInit
    BY DEF Inv, OnlyDriversEnabled, AnswersReachInit
  <1> QED  BY <1>1, InterruptInvariant, PTL

\* No byte of the keyboard waits without its interrupt being requested or handled.
THEOREM BytesAlwaysAnnounced == InterruptsSpec => []ByteAnnounced
  <1>1. Inv => ByteAnnounced
    BY DEF Inv, Announced, ByteAnnounced
  <1> QED  BY <1>1, InterruptInvariant, PTL
==============================================================================

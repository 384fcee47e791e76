----------------------------- MODULE ConsoleProofs -----------------------------
(***************************************************************************)
(* What the terminal promises, for every size of the screen up to 252       *)
(* columns and 255 rows and every text; that the serial port loses and      *)
(* reorders nothing, for every transmit FIFO of at least two bytes; and that *)
(* both hold of what kmain and its handlers write, for every number of keys  *)
(* and set of exceptions.                                                   *)
(***************************************************************************)
EXTENDS Console, TLAPS

-----------------------------------------------------------------------------
(* The terminal, for any caller.                                           *)

Position == [x : 0 .. 255, y : 0 .. 255]

\* A position whose cell lies on the screen.
OnScreen(p) == (p.x + 1) * char_w <= Width /\ (p.y + 1) * char_h <= Height

\* Everything on the screen was drawn in a cell of the screen before the cursor.
MarksBehind == \A m \in marks : /\ m.x \in 0 .. 255 /\ m.y \in 0 .. 255
                                /\ OnScreen(m)
                                /\ Before(m, cursor)

TerminalInv == CursorOnScreen /\ MarksBehind

Texts == Printable \union Blanks

\* A cell on the screen is far enough from 255 for the increments not to wrap.
LEMMA CursorSmall ==
    ASSUME CursorOnScreen
    PROVE  /\ cursor = [x |-> cursor.x, y |-> cursor.y]
           /\ cursor.x \in 0 .. 251 /\ cursor.y \in 0 .. 254
  BY SmallScreenAssumption, ScreenAssumption DEF CursorOnScreen, char_w, char_h

\* A character moves the cursor to the right or to the next row.
LEMMA MovedForward ==
    ASSUME CursorOnScreen, NEW c
    PROVE  /\ Moved(c) \in Position
           /\ \/ Moved(c).y = cursor.y /\ Moved(c).x > cursor.x
              \/ Moved(c).y = cursor.y + 1 /\ Moved(c).x = 0
  <1> DEFINE x == cursor.x
             y == cursor.y
  <1>1. cursor = [x |-> x, y |-> y] /\ x \in 0 .. 251 /\ y \in 0 .. 254
    BY CursorSmall
  <1>2. Incremented(x) = x + 1 /\ Incremented(y) = y + 1
    BY <1>1 DEF Incremented
  <1>3. CASE c = "\n"
    <2>1. Moved(c) = [x |-> 0, y |-> Incremented(y)]  BY <1>3 DEF Moved
    <2> QED  BY <1>1, <1>2, <2>1 DEF Position
  <1>4. CASE c = "\t"
    <2> DEFINE stop == ((x \div TAB_WIDTH) + 1) * TAB_WIDTH
    <2>1. stop \in x + 1 .. 252  BY <1>1 DEF TAB_WIDTH
    <2>2. stop % 256 = stop  BY <1>1, <2>1
    <2>3. Moved(c) = [cursor EXCEPT !.x = stop % 256]  BY <1>4 DEF Moved
    <2> HIDE DEF stop
    <2>4. Moved(c) = [x |-> stop, y |-> y]  BY <1>1, <2>2, <2>3
    <2> QED  BY <1>1, <2>1, <2>4 DEF Position
  <1>5. CASE c # "\n" /\ c # "\t"
    <2>1. Moved(c) = [cursor EXCEPT !.x = Incremented(x)]  BY <1>5 DEF Moved
    <2>2. Moved(c) = [x |-> x + 1, y |-> y]  BY <1>1, <1>2, <2>1
    <2> QED  BY <1>1, <2>2 DEF Position
  <1> QED  BY <1>3, <1>4, <1>5

\* Wrapping brings the cursor back between the edges without passing them by.
LEMMA WrappedForward ==
    ASSUME CursorOnScreen, NEW c
    PROVE  LET p == Wrapped(Moved(c))
           IN  /\ p \in Position
               /\ Before(cursor, p)
               /\ (p.x + 1) * char_w <= Width
  <1> DEFINE m == Moved(c)
             p == Wrapped(m)
  <1>1. /\ m \in Position
        /\ \/ m.y = cursor.y /\ m.x > cursor.x
           \/ m.y = cursor.y + 1 /\ m.x = 0
    BY MovedForward
  <1>2. /\ cursor.x \in 0 .. 251 /\ cursor.y \in 0 .. 254
    BY CursorSmall
  <1> HIDE DEF m
  <1>3. CASE (m.x + 1) * char_w > Width
    <2>1. m.y = cursor.y
      BY <1>1, <1>3, ScreenAssumption DEF char_w, char_h, Position
    <2>2. p = [x |-> 0, y |-> cursor.y + 1]
      BY <1>2, <1>3, <2>1 DEF Wrapped, Incremented
    <2> QED  BY <1>2, <2>2, ScreenAssumption DEF Before, Position, char_w, m
  <1>4. CASE ~((m.x + 1) * char_w > Width)
    <2>1. p = m  BY <1>4 DEF Wrapped
    <2> HIDE DEF p
    <2>2. (m.x + 1) * char_w <= Width
      BY <1>1, <1>4, ScreenAssumption DEF char_w, Position
    <2>3. Before(cursor, m)
      BY <1>1, <1>2 DEF Before, Position
    <2> QED  BY <1>1, <2>1, <2>2, <2>3 DEF m, p
  <1> QED  BY <1>3, <1>4

LEMMA BeforeTransitive ==
    ASSUME NEW a, NEW b, NEW c, {a.x, a.y, b.x, b.y, c.x, c.y} \subseteq Int,
           Before(a, b), Before(b, c)
    PROVE  Before(a, c)
  BY DEF Before

\* The cell a glyph is drawn in is the cursor's, so it is on the screen.
LEMMA DrawnBehind ==
    ASSUME TerminalInv, NEW c, NEW p \in Position, Before(cursor, p)
    PROVE  \A m \in Drawn(c) : /\ m.x \in 0 .. 255 /\ m.y \in 0 .. 255
                               /\ OnScreen(m)
                               /\ Before(m, p)
  <1> TAKE m \in Drawn(c)
  <1>1. cursor.x \in 0 .. 255 /\ cursor.y \in 0 .. 255 /\ OnScreen(cursor)
    BY DEF TerminalInv, CursorOnScreen, OnScreen
  <1>2. p.x \in 0 .. 255 /\ p.y \in 0 .. 255
    BY DEF Position
  <1>3. CASE m \in marks
    <2>1. m.x \in 0 .. 255 /\ m.y \in 0 .. 255 /\ OnScreen(m) /\ Before(m, cursor)
      BY <1>3 DEF TerminalInv, MarksBehind
    <2>2. {m.x, m.y, cursor.x, cursor.y, p.x, p.y} \subseteq Int
      BY <1>1, <1>2, <2>1
    <2>3. Before(m, p)
      BY <2>1, <2>2, BeforeTransitive
    <2> QED  BY <2>1, <2>3
  <1>4. CASE m = [x |-> cursor.x, y |-> cursor.y, c |-> c, color |-> fg_color]
    <2>1. m.x = cursor.x /\ m.y = cursor.y  BY <1>4
    <2> QED  BY <1>1, <2>1 DEF OnScreen, Before
  <1> QED  BY <1>3, <1>4 DEF Drawn

LEMMA TerminalInvInit == TerminalInit => TerminalInv
  BY ScreenAssumption
     DEF TerminalInit, TerminalInv, CursorOnScreen, MarksBehind, Home, char_w, char_h

LEMMA TerminalInvStep == TerminalInv /\ [TerminalNext]_termVars => TerminalInv'
  <1> SUFFICES ASSUME TerminalInv, [TerminalNext]_termVars PROVE TerminalInv'
    OBVIOUS
  <1>1. ASSUME NEW c, PutChar(c), c \in Texts PROVE TerminalInv'
    <2> DEFINE p == Wrapped(Moved(c))
    <2>1. p \in Position /\ Before(cursor, p) /\ (p.x + 1) * char_w <= Width
      BY WrappedForward DEF TerminalInv
    <2>2. /\ cursor' = IF OffBottom(p) THEN Home ELSE p
          /\ marks' = IF OffBottom(p) THEN {}
                      ELSE IF c \in Printable THEN Drawn(c) ELSE marks
      BY <1>1 DEF PutChar, Texts
    <2> HIDE DEF p
    <2>3. CASE OffBottom(p)
      <3>1. cursor' = Home /\ marks' = {}  BY <2>2, <2>3
      <3> QED  BY <3>1, ScreenAssumption
               DEF TerminalInv, CursorOnScreen, MarksBehind, Home, char_w, char_h
    <2>4. CASE ~OffBottom(p)
      <3>1. cursor' = p /\ marks' \subseteq Drawn(c)
        BY <2>2, <2>4 DEF Drawn
      <3>2. (p.y + 1) * char_h <= Height
        BY <2>1, <2>4, ScreenAssumption DEF OffBottom, Position, char_h
      <3>3. CursorOnScreen'
        BY <2>1, <3>1, <3>2 DEF CursorOnScreen, Position
      <3>4. \A m \in Drawn(c) : /\ m.x \in 0 .. 255 /\ m.y \in 0 .. 255
                                /\ OnScreen(m) /\ Before(m, p)
        BY <2>1, DrawnBehind
      <3>5. MarksBehind'
        BY <3>1, <3>4 DEF MarksBehind, OnScreen, Before
      <3> QED  BY <3>3, <3>5 DEF TerminalInv
    <2> QED  BY <2>3, <2>4
  <1>2. ASSUME UNCHANGED <<cursor, marks>> PROVE TerminalInv'
    BY <1>2 DEF TerminalInv, CursorOnScreen, MarksBehind, OnScreen, Before
  <1>4. CASE SetColor(fg_color')
    BY <1>2, <1>4 DEF SetColor
  <1>5. CASE UNCHANGED termVars
    BY <1>2, <1>5 DEF termVars
  <1> QED  BY <1>1, <1>4, <1>5 DEF TerminalNext, Texts

LEMMA TerminalInvAlways == TerminalSpec => []TerminalInv
  BY TerminalInvInit, TerminalInvStep, PTL DEF TerminalSpec

\* The next glyph always has a cell on the screen to go to.
THEOREM CursorStaysOnScreen == TerminalSpec => []CursorOnScreen
  <1>1. TerminalInv => CursorOnScreen  BY DEF TerminalInv
  <1> QED  BY <1>1, TerminalInvAlways, PTL

\* A glyph in a cell of the screen ends before the framebuffer does: the rows it
\* spares at the bottom make up for the columns by which it exceeds its cell.
LEMMA GlyphInside ==
    ASSUME NEW x \in Nat, NEW y \in Nat, (x + 1) * char_w <= Width, (y + 1) * char_h <= Height
    PROVE  (y * char_h + GlyphHeight - 1) * Stride + x * char_w + GlyphWidth - 1 < Stride * Height
  <1> DEFINE row == y * char_h + GlyphHeight - 1
             column == x * char_w + GlyphWidth - 1
  <1>1. row \in Nat /\ row <= Height - 3 /\ column \in Nat /\ column <= Stride /\ Stride \in Nat
        /\ Height \in Nat /\ Stride > 0
    BY ScreenAssumption DEF char_w, char_h, GlyphHeight, GlyphWidth
  <1>2. row * Stride + x * char_w + GlyphWidth - 1 = row * Stride + column
    BY <1>1 DEF char_w, GlyphWidth
  <1> HIDE DEF row, column
  <1>3. PICK k \in Nat : Height = row + 3 + k
    <2>1. Height - 3 - row \in Nat  BY <1>1
    <2> QED  BY <1>1, <2>1
  <1>4. Stride * Height = row * Stride + 3 * Stride + k * Stride
    BY <1>1, <1>3
  <1>5. k * Stride \in Nat /\ row * Stride \in Nat
    BY <1>1, <1>3
  <1>6. row * Stride + column < Stride * Height
    BY <1>1, <1>4, <1>5
  <1> QED  BY <1>2, <1>6 DEF row

\* No glyph reaches beyond the end of the framebuffer.
THEOREM GlyphsInside == TerminalSpec => []InsideFramebuffer
  <1>1. TerminalInv => InsideFramebuffer
    <2> SUFFICES ASSUME TerminalInv, NEW m \in marks
                 PROVE  (m.y * char_h + GlyphHeight - 1) * Stride + m.x * char_w + GlyphWidth - 1
                          < Stride * Height
      BY DEF InsideFramebuffer
    <2>1. /\ m.x \in Nat /\ m.y \in Nat
          /\ (m.x + 1) * char_w <= Width /\ (m.y + 1) * char_h <= Height
      BY DEF TerminalInv, MarksBehind, OnScreen
    <2> QED  BY <2>1, GlyphInside
  <1> QED  BY <1>1, TerminalInvAlways, PTL

\* Text is never written over text, nor before text that is already there.
THEOREM TextStaysInOrder == TerminalSpec => TextInOrder
  <1> DEFINE Ordered == \A new \in marks' \ marks : \A m \in marks' \cap marks : Before(m, new)
  <1>1. TerminalInv /\ [TerminalNext]_termVars => [Ordered]_termVars
    <2> SUFFICES ASSUME TerminalInv, TerminalNext, NEW new \in marks' \ marks,
                        NEW m \in marks' \cap marks
                 PROVE  Before(m, new)
      OBVIOUS
    <2>1. SetColor(fg_color') => marks' = marks
      BY DEF SetColor
    <2>2. \A c : PutChar(c) => marks' \subseteq marks \/ marks' \subseteq Drawn(c)
      BY DEF PutChar, termVars, Drawn
    <2>3. PICK c : new \in Drawn(c) /\ new \notin marks
      BY <2>1, <2>2 DEF TerminalNext
    <2>4. new.x = cursor.x /\ new.y = cursor.y
      BY <2>3 DEF Drawn
    <2> QED  BY <2>4 DEF TerminalInv, MarksBehind, Before
  <1> QED  BY <1>1, TerminalInvAlways, PTL DEF TerminalSpec, TextInOrder

-----------------------------------------------------------------------------
(* The serial port, for any order of kmain and handlers.                   *)

\* A port with room takes a byte at the end of its FIFO.
LEMMA RoomMeansReceived ==
    ASSUME NEW port, NEW byte, port.fifo \in Seq(Bytes), byte \in Bytes,
           port.fifos, Len(port.fifo) < FifoDepth
    PROVE  Received(port, byte) = [port EXCEPT !.fifo = Append(port.fifo, byte)]
  BY DEF Received

\* The initial states satisfy the invariant.
LEMMA PortInit == SerialInit => PortInv
  BY DEF SerialInit, PortInv, PortTypeOK, InUse, RoomToSend, WaitingSent, SerialKeepsText,
         Contexts, Handlers, Bytes

\* serial_init and serial_test find the port unused, and leave only the test byte in it.
LEMMA TestPreserves == PortInv /\ BeginTest => PortInv'
<1> SUFFICES ASSUME PortInv, BeginTest PROVE PortInv'
    OBVIOUS
<1> USE DEF PortInv
<1> DEFINE port == [fifo |-> <<>>, fifos |-> TRUE, loopback |-> TRUE, looped |-> FALSE]
<1>1. TestByte \in Bytes /\ <<TestByte>> \in Seq(Bytes)
    BY DEF TestByte, Bytes
<1>2. backend # "serial" /\ UNCHANGED <<sent, arrived, ready, handler, backend>>
    BY DEF BeginTest
<1>3. uart' = [fifo |-> <<TestByte>>, fifos |-> TRUE, loopback |-> TRUE, looped |-> FALSE]
  <2>1. port.fifo = <<>> /\ port.fifos /\ Len(port.fifo) < FifoDepth /\ port.fifo \in Seq(Bytes)
      BY FifoAssumption
  <2>2. Received(port, TestByte) = [port EXCEPT !.fifo = Append(port.fifo, TestByte)]
      BY <1>1, <2>1, RoomMeansReceived
  <2>3. Append(port.fifo, TestByte) = <<TestByte>>
      BY <2>1
  <2>4. uart' = Received(port, TestByte)
      BY DEF BeginTest, Configured
  <2> QED
      BY <2>2, <2>3, <2>4
<1>4. uart'.fifo = <<TestByte>> /\ Len(uart'.fifo) = 1
    BY <1>3
<1>5. \A i \in 1 .. Len(uart'.fifo) : uart'.fifo[i].from = "test"
    BY <1>4 DEF TestByte
<1>6. \A ctx \in Contexts : ctx # "test" /\ sent'[ctx] = 0 /\ arrived'[ctx] = 0 /\ ~ready'[ctx]
    BY <1>2 DEF Contexts, InUse
<1> HIDE DEF port
<1>7. PortTypeOK'
  <2>1. uart' \in [fifo : Seq(Bytes), fifos : BOOLEAN, loopback : BOOLEAN, looped : BOOLEAN]
      BY <1>1, <1>3
  <2> QED
      BY <1>2, <2>1 DEF PortTypeOK
<1>8. InUse'
    BY <1>2, <1>3, <1>4, <1>6 DEF InUse
<1>9. RoomToSend'
    BY <1>4, <1>6 DEF RoomToSend, Contexts
<1>10. WaitingSent'
    BY <1>5, <1>6 DEF WaitingSent
<1>11. SerialKeepsText'
  <2>1. \A ctx \in Contexts : arrived'[ctx] + 1 .. sent'[ctx] = {}
      BY <1>6
  <2> QED
      BY <2>1, <1>5, <1>6 DEF SerialKeepsText
<1> QED
    BY <1>7, <1>8, <1>9, <1>10, <1>11

\* The end of the test switches loopback off, whichever the backend is from then on.
LEMMA EndTestPreserves ==
    ASSUME NEW to \in {backend, "serial"}, PortInv, EndTest(to) PROVE PortInv'
<1> USE DEF PortInv
<1>1. uart' = [uart EXCEPT !.loopback = FALSE] /\ uart'.fifo = uart.fifo
      /\ uart'.fifos = uart.fifos /\ uart'.loopback = FALSE
    BY DEF EndTest, PortTypeOK
<1>2. UNCHANGED <<sent, arrived, ready, handler>> /\ backend' = to /\ backend # "serial"
      /\ uart.fifos
    BY DEF EndTest, InUse
<1>3. PortTypeOK'
    BY <1>1, <1>2 DEF PortTypeOK
<1>4. InUse'
    BY <1>1, <1>2 DEF InUse
<1>5. RoomToSend' /\ WaitingSent' /\ SerialKeepsText'
    BY <1>1, <1>2 DEF RoomToSend, WaitingSent, SerialKeepsText
<1> QED
    BY <1>3, <1>4, <1>5

\* Looking at the status changes nothing; from here on nobody fills the buffer before
\* a handler has sent its byte, and no more than that one before kmain sends its.
LEMMA AwaitPreserves ==
    ASSUME NEW ctx \in Contexts, PortInv, AwaitTransmitter(ctx) PROVE PortInv'
<1> USE DEF PortInv
<1>1. UNCHANGED <<portVars, handler, backend>> /\ backend = "serial"
      /\ ready' = [ready EXCEPT ![ctx] = TRUE] /\ Len(uart.fifo) = 0
    BY DEF AwaitTransmitter, TransmitterEmpty, PortTypeOK
<1>2. PortTypeOK'
    BY <1>1 DEF PortTypeOK, portVars
<1>3. InUse'
    BY <1>1 DEF InUse, portVars
<1>4. RoomToSend'
    BY <1>1 DEF RoomToSend, portVars, AwaitTransmitter, Runs, PortTypeOK, Contexts
<1>5. WaitingSent' /\ SerialKeepsText'
    BY <1>1 DEF WaitingSent, SerialKeepsText, portVars
<1> QED
    BY <1>2, <1>3, <1>4, <1>5

\* A byte that is sent finds room and waits behind those before it.
LEMMA SendPreserves ==
    ASSUME NEW ctx \in Contexts, PortInv, SendByte(ctx) PROVE PortInv'
<1> DEFINE byte == [from |-> ctx, nth |-> sent[ctx] + 1]
           n == Len(uart.fifo)
<1> USE DEF PortInv
<1>1. /\ ready[ctx] /\ Runs(ctx)
      /\ ready' = [ready EXCEPT ![ctx] = FALSE]
      /\ sent' = [sent EXCEPT ![ctx] = @ + 1]
      /\ UNCHANGED <<arrived, handler, backend>>
    BY DEF SendByte
<1>2. backend = "serial" /\ uart.fifos /\ ~uart.loopback
    BY <1>1 DEF InUse, PortTypeOK
<1>3. n \in Nat /\ n <= 1 /\ uart.fifo \in Seq(Bytes)
    BY <1>1 DEF RoomToSend, Contexts, PortTypeOK
<1>4. byte \in Bytes /\ sent'[ctx] = sent[ctx] + 1
    BY <1>1 DEF Bytes, PortTypeOK
<1>5. n < FifoDepth
    BY <1>3, FifoAssumption
<1>6. uart' = [uart EXCEPT !.fifo = Append(uart.fifo, byte)]
    BY <1>2, <1>3, <1>4, <1>5, RoomMeansReceived DEF SendByte
<1>7. /\ uart'.fifo = Append(uart.fifo, byte)
      /\ uart'.fifos = uart.fifos /\ uart'.loopback = uart.loopback
    BY <1>6 DEF PortTypeOK
<1>8. /\ Len(uart'.fifo) = n + 1
      /\ \A i \in 1 .. n : uart'.fifo[i] = uart.fifo[i]
      /\ uart'.fifo[n + 1] = byte
    BY <1>3, <1>4, <1>7
<1>9. PortTypeOK'
  <2>1. Append(uart.fifo, byte) \in Seq(Bytes)
      BY <1>3, <1>4
  <2>2. uart' \in [fifo : Seq(Bytes), fifos : BOOLEAN, loopback : BOOLEAN, looped : BOOLEAN]
      BY <1>6, <2>1 DEF PortTypeOK
  <2>3. sent' \in [Contexts -> Nat] /\ ready' \in [Contexts -> BOOLEAN]
      BY <1>1 DEF PortTypeOK
  <2> QED
      BY <1>1, <2>2, <2>3 DEF PortTypeOK
<1>10. InUse'
    BY <1>1, <1>2, <1>7 DEF InUse
<1>11. RoomToSend'
    BY <1>1, <1>3, <1>8 DEF RoomToSend, PortTypeOK, Contexts, Runs
<1>12. WaitingSent'
  <2>1. \A c \in Contexts : arrived'[c] <= sent'[c] /\ sent[c] <= sent'[c]
      BY <1>1 DEF WaitingSent, PortTypeOK
  <2>2. \A i \in 1 .. n : uart'.fifo[i].from \in Contexts =>
            /\ arrived'[uart'.fifo[i].from] < uart'.fifo[i].nth
            /\ uart'.fifo[i].nth <= sent'[uart'.fifo[i].from]
    <3> TAKE i \in 1 .. n
    <3> HAVE uart'.fifo[i].from \in Contexts
    <3>1. uart.fifo[i] \in Bytes /\ uart'.fifo[i] = uart.fifo[i]
        BY <1>3, <1>8
    <3>2. /\ arrived[uart.fifo[i].from] < uart.fifo[i].nth
          /\ uart.fifo[i].nth <= sent[uart.fifo[i].from]
        BY <3>1 DEF WaitingSent
    <3>3. sent[uart.fifo[i].from] \in Nat /\ sent'[uart.fifo[i].from] \in Nat
        BY <3>1, <1>9 DEF PortTypeOK
    <3>4. uart.fifo[i].nth \in Nat
        BY <3>1 DEF Bytes
    <3> QED
        BY <3>1, <3>2, <3>3, <3>4, <2>1, <1>1
  <2>3. /\ uart'.fifo[n + 1].from = ctx
        /\ arrived'[ctx] < uart'.fifo[n + 1].nth
        /\ uart'.fifo[n + 1].nth <= sent'[ctx]
      BY <1>1, <1>4, <1>8 DEF WaitingSent, PortTypeOK
  <2> QED
      BY <1>3, <1>8, <2>1, <2>2, <2>3 DEF WaitingSent
<1>13. SerialKeepsText'
  <2> SUFFICES ASSUME NEW c \in Contexts
               PROVE  /\ \A m \in arrived'[c] + 1 .. sent'[c] :
                            \E i \in 1 .. Len(uart'.fifo) : uart'.fifo[i] = [from |-> c, nth |-> m]
                      /\ \A i, j \in 1 .. Len(uart'.fifo) :
                            i < j /\ uart'.fifo[i].from = c /\ uart'.fifo[j].from = c
                              => uart'.fifo[i].nth < uart'.fifo[j].nth
      BY DEF SerialKeepsText
  <2>1. ASSUME NEW m \in arrived'[c] + 1 .. sent'[c]
        PROVE  \E i \in 1 .. n + 1 : uart'.fifo[i] = [from |-> c, nth |-> m]
    <3>1. CASE m \in arrived[c] + 1 .. sent[c]
      <4>1. PICK i \in 1 .. n : uart.fifo[i] = [from |-> c, nth |-> m]
          BY <3>1 DEF SerialKeepsText
      <4> QED
          BY <4>1, <1>3, <1>8
    <3>2. CASE m \notin arrived[c] + 1 .. sent[c]
      <4>1. arrived[c] \in Nat /\ sent[c] \in Nat /\ arrived'[c] = arrived[c]
          BY <1>1 DEF PortTypeOK
      <4>2. c = ctx /\ m = sent[ctx] + 1
          BY <3>2, <4>1, <1>1, <1>4 DEF PortTypeOK
      <4> QED
          BY <4>2, <1>3, <1>8
    <3> QED
        BY <3>1, <3>2
  <2>2. ASSUME NEW i \in 1 .. n + 1, NEW j \in 1 .. n + 1,
               i < j, uart'.fifo[i].from = c, uart'.fifo[j].from = c
        PROVE  uart'.fifo[i].nth < uart'.fifo[j].nth
    <3>1. i \in 1 .. n /\ uart'.fifo[i] = uart.fifo[i]
        BY <1>3, <1>8, <2>2
    <3>2. CASE j \in 1 .. n
        BY <3>1, <3>2, <1>8, <2>2 DEF SerialKeepsText
    <3>3. CASE j = n + 1
      <4>1. c = ctx /\ uart'.fifo[j].nth = sent[ctx] + 1
          BY <3>3, <1>8, <2>2
      <4>2. uart.fifo[i].nth <= sent[ctx]
          BY <3>1, <4>1, <2>2 DEF WaitingSent
      <4>3. uart.fifo[i] \in Bytes
          BY <1>3, <3>1
      <4>4. uart.fifo[i].nth \in Nat /\ sent[ctx] \in Nat
          BY <4>3 DEF PortTypeOK, Bytes
      <4> QED
          BY <3>1, <4>1, <4>2, <4>4
    <3> QED
        BY <1>3, <3>2, <3>3
  <2> QED
      BY <1>8, <2>1, <2>2
<1> QED
    BY <1>9, <1>10, <1>11, <1>12, <1>13

\* The byte that leaves was the first; those that stay have larger numbers or other
\* writers.
LEMMA TransmitPreserves == PortInv /\ Transmit => PortInv'
<1> SUFFICES ASSUME PortInv, Transmit PROVE PortInv'
    OBVIOUS
<1> DEFINE h == uart.fifo[1]
           n == Len(uart.fifo)
<1> USE DEF PortInv
<1>1. /\ uart.fifo \in Seq(Bytes) /\ uart.fifo # <<>> /\ n \in Nat \ {0}
      /\ uart'.fifo = Tail(uart.fifo)
      /\ uart'.fifos = uart.fifos /\ uart'.loopback = uart.loopback
      /\ UNCHANGED <<sent, ready, handler, backend>>
    BY DEF Transmit, PortTypeOK
<1>2. /\ Len(uart'.fifo) = n - 1
      /\ \A i \in 1 .. n - 1 : i + 1 \in 1 .. n /\ uart'.fifo[i] = uart.fifo[i + 1]
      /\ \A i \in 1 .. n : i # 1 => i - 1 \in 1 .. n - 1 /\ uart'.fifo[i - 1] = uart.fifo[i]
    BY <1>1
<1>3. h \in Bytes
    BY <1>1
<1>4. arrived' = IF uart.loopback THEN arrived ELSE [arrived EXCEPT ![h.from] = h.nth]
    BY <1>1 DEF Transmit
<1>5. PortTypeOK'
  <2>1. Tail(uart.fifo) \in Seq(Bytes)
      BY <1>1
  <2>2. uart' \in [fifo : Seq(Bytes), fifos : BOOLEAN, loopback : BOOLEAN, looped : BOOLEAN]
      BY <2>1 DEF Transmit, PortTypeOK
  <2> QED
      BY <1>1, <1>3, <1>4, <2>2 DEF PortTypeOK, Bytes
<1>6. \A i \in 1 .. n : uart.fifo[i] \in Bytes
    BY <1>1
<1>7. backend # "serial" => \A i \in 1 .. n : uart.fifo[i].from \notin Contexts
  <2> SUFFICES ASSUME backend # "serial", NEW i \in 1 .. n, uart.fifo[i].from \in Contexts
               PROVE  FALSE
      OBVIOUS
  <2> QED
      BY <1>6 DEF InUse, WaitingSent, Bytes
<1>8. uart.loopback => backend # "serial"
    BY DEF InUse
<1>9. InUse'
    BY <1>1, <1>2, <1>4, <1>7 DEF InUse, PortTypeOK
<1>10. RoomToSend'
    BY <1>1, <1>2 DEF RoomToSend
<1>11. WaitingSent'
  <2>1. \A c \in Contexts : arrived'[c] <= sent'[c]
      BY <1>1, <1>4 DEF WaitingSent, PortTypeOK
  <2>2. ASSUME NEW i \in 1 .. n - 1, uart'.fifo[i].from \in Contexts
        PROVE  /\ arrived'[uart'.fifo[i].from] < uart'.fifo[i].nth
               /\ uart'.fifo[i].nth <= sent'[uart'.fifo[i].from]
    <3> DEFINE b == uart.fifo[i + 1]
    <3>1. i + 1 \in 1 .. n /\ uart'.fifo[i] = b /\ b \in Bytes /\ b.from \in Contexts
        BY <1>2, <1>6, <2>2
    <3>2. arrived[b.from] < b.nth /\ b.nth <= sent[b.from]
        BY <3>1 DEF WaitingSent
    <3>3. h.from = b.from => h.nth < b.nth
      <4>1. 1 \in 1 .. n /\ 1 < i + 1
          BY <1>1
      <4> QED
          BY <3>1, <4>1 DEF SerialKeepsText
    <3>4. arrived'[b.from] = arrived[b.from] \/ (h.from = b.from /\ arrived'[b.from] = h.nth)
        BY <1>4, <3>1 DEF PortTypeOK
    <3> HIDE DEF b, h
    <3> QED
        BY <1>1, <3>1, <3>2, <3>3, <3>4
  <2> QED
      BY <1>2, <2>1, <2>2 DEF WaitingSent
<1>12. SerialKeepsText'
  <2> SUFFICES ASSUME NEW c \in Contexts
               PROVE  /\ \A m \in arrived'[c] + 1 .. sent'[c] :
                            \E i \in 1 .. Len(uart'.fifo) : uart'.fifo[i] = [from |-> c, nth |-> m]
                      /\ \A i, j \in 1 .. Len(uart'.fifo) :
                            i < j /\ uart'.fifo[i].from = c /\ uart'.fifo[j].from = c
                              => uart'.fifo[i].nth < uart'.fifo[j].nth
      BY DEF SerialKeepsText
  <2>1. ASSUME NEW m \in arrived'[c] + 1 .. sent'[c]
        PROVE  \E i \in 1 .. n - 1 : uart'.fifo[i] = [from |-> c, nth |-> m]
    <3>1. arrived[c] \in Nat /\ sent[c] \in Nat /\ sent'[c] = sent[c] /\ h.nth \in Nat
        BY <1>1, <1>3 DEF PortTypeOK, Bytes
    <3>2. arrived'[c] = arrived[c] \/ (h.from = c /\ arrived'[c] = h.nth)
        BY <1>4 DEF PortTypeOK
    <3>3. h.from = c => arrived[c] < h.nth
        BY <1>1 DEF WaitingSent
    <3>4. m \in arrived[c] + 1 .. sent[c]
        BY <3>1, <3>2, <3>3
    <3>5. PICK i \in 1 .. n : uart.fifo[i] = [from |-> c, nth |-> m]
        BY <3>4 DEF SerialKeepsText
    <3>6. i # 1
      <4> SUFFICES ASSUME i = 1 PROVE FALSE
          OBVIOUS
      <4>1. h.from = c /\ h.nth = m
          BY <3>5
      <4>2. uart.loopback
          BY <4>1, <1>4, <3>1 DEF PortTypeOK
      <4> QED
          BY <4>1, <4>2, <1>1, <1>7, <1>8
    <3> QED
        BY <3>5, <3>6, <1>2
  <2>2. ASSUME NEW i \in 1 .. n - 1, NEW j \in 1 .. n - 1,
               i < j, uart'.fifo[i].from = c, uart'.fifo[j].from = c
        PROVE  uart'.fifo[i].nth < uart'.fifo[j].nth
    <3>1. /\ i + 1 \in 1 .. n /\ uart'.fifo[i] = uart.fifo[i + 1]
          /\ j + 1 \in 1 .. n /\ uart'.fifo[j] = uart.fifo[j + 1]
        BY <1>2
    <3>2. i \in Int /\ j \in Int /\ i + 1 < j + 1
        BY <2>2
    <3> QED
        BY <2>2, <3>1, <3>2 DEF SerialKeepsText
  <2> QED
      BY <1>2, <2>1, <2>2
<1> QED
    BY <1>5, <1>9, <1>10, <1>11, <1>12

\* Interrupts, returns and a change of the backend before the port is used leave what
\* is said of the port alone.
LEMMA RestPreserves ==
    PortInv /\ ((\E kind \in Handlers : Interrupt(kind)) \/ Return \/ LogElsewhere) => PortInv'
<1> SUFFICES ASSUME PortInv, (\E kind \in Handlers : Interrupt(kind)) \/ Return \/ LogElsewhere
             PROVE  PortInv'
    OBVIOUS
<1>1. UNCHANGED <<uart, sent, arrived, ready>>
    BY DEF Interrupt, Return, LogElsewhere, portVars
<1>2. /\ handler' \in {"none"} \union Handlers
      /\ backend' \in {"none", "terminal", "serial"}
    BY DEF Interrupt, Return, LogElsewhere, PortInv, PortTypeOK
<1>3. backend' = "serial" <=> backend = "serial"
    BY DEF Interrupt, Return, LogElsewhere
<1>4. ready["handler"] => handler' # "none"
    BY DEF Interrupt, Return, LogElsewhere, PortInv, RoomToSend
<1>5. PortTypeOK'
    BY <1>1, <1>2 DEF PortInv, PortTypeOK
<1>6. InUse'
    BY <1>1, <1>3 DEF PortInv, InUse
<1>7. RoomToSend'
    BY <1>1, <1>4 DEF PortInv, RoomToSend
<1>8. WaitingSent' /\ SerialKeepsText'
    BY <1>1 DEF PortInv, WaitingSent, SerialKeepsText
<1> QED
    BY <1>5, <1>6, <1>7, <1>8 DEF PortInv

LEMMA PortInvInductive == SerialSpec => []PortInv
<1>1. PortInv /\ [SerialNext]_serialVars => PortInv'
  <2> SUFFICES ASSUME PortInv, [SerialNext]_serialVars PROVE PortInv'
      OBVIOUS
  <2>1. CASE BeginTest
      BY <2>1, TestPreserves
  <2>2. ASSUME NEW to \in {backend, "serial"}, EndTest(to) PROVE PortInv'
      BY <2>2, EndTestPreserves
  <2>3. ASSUME NEW ctx \in Contexts, AwaitTransmitter(ctx) PROVE PortInv'
      BY <2>3, AwaitPreserves
  <2>4. ASSUME NEW ctx \in Contexts, SendByte(ctx) PROVE PortInv'
      BY <2>4, SendPreserves
  <2>5. CASE Transmit
      BY <2>5, TransmitPreserves
  <2>6. CASE (\E kind \in Handlers : Interrupt(kind)) \/ Return \/ LogElsewhere
      BY <2>6, RestPreserves
  <2>7. CASE UNCHANGED serialVars
      BY <2>7 DEF serialVars, portVars, PortInv, PortTypeOK, InUse, RoomToSend, WaitingSent,
                  SerialKeepsText
  <2> QED
      BY <2>1, <2>2, <2>3, <2>4, <2>5, <2>6, <2>7 DEF SerialNext
<1> QED
    BY PortInit, <1>1, PTL DEF SerialSpec

\* However handlers interrupt kmain between its look at the status and its write, with
\* room for two bytes the port loses none and keeps each writer's order.
THEOREM SerialLosesNothing == SerialSpec => []SerialKeepsText
<1>1. PortInv => SerialKeepsText
    BY DEF PortInv
<1> QED
    BY PortInvInductive, <1>1, PTL

\* There are never more than two bytes in the FIFO, whatever its depth.
THEOREM TwoBytesSuffice == SerialSpec => [](Len(uart.fifo) <= 2)
<1>1. PortInv => Len(uart.fifo) <= 2
    BY DEF PortInv, RoomToSend
<1> QED
    BY PortInvInductive, <1>1, PTL

-----------------------------------------------------------------------------
(* The kernel, which keeps the rules of both.                              *)

\* A character that is none of the terminal's leaves it as it is.
LEMMA PutCharIsTerminalStep == \A c : PutChar(c) => [TerminalNext]_termVars
  BY DEF PutChar, TerminalNext

LEMMA SetColorIsTerminalStep == \A color : SetColor(color) => [TerminalNext]_termVars
  BY DEF SetColor, TerminalNext

LEMMA WritesTerminalStep ==
    ASSUME NEW ctx \in Contexts, Writes(ctx) PROVE [TerminalNext]_termVars
  <1>1. CASE WriteTerminal(ctx)
    BY <1>1, PutCharIsTerminalStep DEF WriteTerminal
  <1>2. CASE ChangeColor(ctx)
    BY <1>2, SetColorIsTerminalStep DEF ChangeColor
  <1>3. CASE LookAtPort(ctx)
    BY <1>3 DEF LookAtPort
  <1>4. CASE WritePort(ctx)
    BY <1>4 DEF WritePort
  <1> QED  BY <1>1, <1>2, <1>3, <1>4 DEF Writes

LEMMA KernelLeavesTerminal == Kernel => UNCHANGED termVars
  BY DEF Kernel, LogToTerminal, InstallIdt, InitSerial, TestPort, LoopbackOk, LoopbackFailed,
         RefusePort, LogToSerial, EnableInterrupts, Hcf, Step

LEMMA NextIsTerminalStep == [Next]_vars => [TerminalNext]_termVars
  <1>1. ASSUME NEW e, TimerInterrupt(e) PROVE UNCHANGED termVars
    BY <1>1 DEF TimerInterrupt, Enter
  <1>2. ASSUME NEW f, Exception(f) PROVE UNCHANGED termVars
    BY <1>2 DEF Exception, Enter
  <1>3. PortTransmits \/ ReturnFromInterrupt \/ UNCHANGED vars => UNCHANGED termVars
    BY DEF PortTransmits, ReturnFromInterrupt, vars
  <1> QED  BY <1>1, <1>2, <1>3, WritesTerminalStep, KernelLeavesTerminal DEF Next

LEMMA WritesPortStep ==
    ASSUME NEW ctx \in Contexts, Writes(ctx) PROVE [SerialNext]_serialVars
  <1>1. CASE WriteTerminal(ctx) \/ ChangeColor(ctx)
    BY <1>1 DEF WriteTerminal, ChangeColor
  <1>2. CASE LookAtPort(ctx)
    BY <1>2 DEF LookAtPort, SerialNext
  <1>3. CASE WritePort(ctx)
    BY <1>3 DEF WritePort, SerialNext
  <1> QED  BY <1>1, <1>2, <1>3 DEF Writes

\* kmain touches the port in its test only, and moves the log there after it.
LEMMA KernelPortStep == Kernel => [SerialNext]_serialVars
  <1>1. LogToTerminal => SerialNext
    BY DEF LogToTerminal, SerialNext
  <1>2. TestPort => SerialNext
    BY DEF TestPort, SerialNext
  <1>3. RefusePort \/ LogToSerial => SerialNext
    BY DEF RefusePort, LogToSerial, SerialNext
  <1>4. InstallIdt \/ InitSerial \/ LoopbackOk \/ LoopbackFailed \/ EnableInterrupts \/ Hcf
           => UNCHANGED serialVars
    BY DEF InstallIdt, InitSerial, LoopbackOk, LoopbackFailed, EnableInterrupts, Hcf
  <1> QED  BY <1>1, <1>2, <1>3, <1>4 DEF Kernel

LEMMA NextIsPortStep == [Next]_vars => [SerialNext]_serialVars
  <1>1. ASSUME NEW e, TimerInterrupt(e) PROVE SerialNext
    BY <1>1 DEF TimerInterrupt, Enter, SerialNext, Handlers
  <1>2. ASSUME NEW f, Exception(f) PROVE SerialNext
    BY <1>2 DEF Exception, Enter, SerialNext, Handlers
  <1>3. PortTransmits \/ ReturnFromInterrupt => SerialNext
    BY DEF PortTransmits, ReturnFromInterrupt, SerialNext
  <1>4. UNCHANGED vars => UNCHANGED serialVars
    BY DEF vars
  <1> QED  BY <1>1, <1>2, <1>3, <1>4, WritesPortStep, KernelPortStep DEF Next

\* kmain and the handlers together drive the terminal and the port as their modules
\* demand of a caller.
THEOREM KernelKeepsTheRules == Spec => UsesTerminalAndPort
  <1>1. Init => TerminalInit /\ SerialInit
    BY DEF Init
  <1> QED  BY <1>1, NextIsTerminalStep, NextIsPortStep, PTL
           DEF Spec, UsesTerminalAndPort, TerminalSpec, SerialSpec

\* No glyph of the kernel's text reaches beyond the end of the framebuffer.
THEOREM KernelDrawsInside == Spec => []InsideFramebuffer
  BY KernelKeepsTheRules, GlyphsInside, PTL DEF UsesTerminalAndPort

\* The kernel's text is drawn in reading order and never over other text.
THEOREM KernelTextInOrder == Spec => TextInOrder
  BY KernelKeepsTheRules, TextStaysInOrder DEF UsesTerminalAndPort

\* The kernel's log loses no byte on the serial port, and the bytes of kmain and those
\* of its handlers keep their order.
THEOREM KernelLogComplete == Spec => []SerialKeepsText
  BY KernelKeepsTheRules, SerialLosesNothing, PTL DEF UsesTerminalAndPort
==============================================================================

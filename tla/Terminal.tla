------------------------------- MODULE Terminal -------------------------------
(***************************************************************************)
(* The text terminal: kernel/src/terminal.c, and what it draws through     *)
(* kernel/src/framebuffer.c with the glyphs of kernel/src/charset.c.        *)
(*                                                                         *)
(* The picture is the set of marks, one for each glyph drawn since the      *)
(* screen was last cleared.  kmain writes to the terminal before interrupts *)
(* are on and the timer's handler afterwards, so calls never overlap and    *)
(* each is one step.                                                       *)
(***************************************************************************)
EXTENDS Integers

CONSTANTS Width,       \* of the framebuffer, in pixels
          Height,
          Stride,      \* pixels from one row to the next: pitch / (bpp / 8)
          Printable    \* characters 33 to 126

\* The size of a cell, from kmain's call of terminal_init.
char_w == 13
char_h == 22
TAB_WIDTH == 4

\* What framebuffer_draw_char covers of its doubled cell: no glyph of the charset
\* uses a column after the seventh, some use the last row.
GlyphWidth == 2 * 7
GlyphHeight == 2 * 10

\* A cell fits the screen.
ASSUME ScreenAssumption == /\ {Width, Height, Stride} \subseteq Nat
                           /\ char_w <= Width /\ Width <= Stride
                           /\ char_h <= Height

\* The cursor is two uint8_t: on a screen of more columns (or rows) it comes back
\* to the first without having reached the edge, the last tab stop being 252.
ASSUME SmallScreenAssumption == /\ Width < 253 * char_w
                                /\ Height < 256 * char_h

Blanks == {" ", "\n", "\t"}

ASSUME CharactersAssumption == Blanks \cap Printable = {}

VARIABLES cursor,    \* cursor_x and cursor_y
          fg_color,
          marks      \* what can be seen

termVars == <<cursor, fg_color, marks>>

Home == [x |-> 0, y |-> 0]

\* terminal_init.
TerminalInit == /\ cursor = Home
                /\ fg_color = "white"
                /\ marks = {}

\* terminal_set_color.
SetColor(color) == fg_color' = color /\ UNCHANGED <<cursor, marks>>

Incremented(n) == (n + 1) % 256

\* Plausible bug: a line break leaves the cursor's row as it is.
Moved_NoLineFeed(c) ==
    CASE c = "\n" -> [cursor EXCEPT !.x = 0]
      [] c = "\t" -> [cursor EXCEPT !.x = (((@ \div TAB_WIDTH) + 1) * TAB_WIDTH) % 256]
      [] OTHER -> [cursor EXCEPT !.x = Incremented(@)]

\* The cursor after a character: at the next line, the next tab stop or the next cell.
Moved(c) ==
    CASE c = "\n" -> [x |-> 0, y |-> Incremented(cursor.y)]
      [] c = "\t" -> [cursor EXCEPT !.x = (((@ \div TAB_WIDTH) + 1) * TAB_WIDTH) % 256]
      [] OTHER -> [cursor EXCEPT !.x = Incremented(@)]

\* To the next line when there is no room for another cell.
Wrapped(p) ==
    IF (p.x + 1) * char_w > Width THEN [x |-> 0, y |-> Incremented(p.y)] ELSE p

\* Plausible bug: the last row may hang over the edge.
OffBottom_OffByOne(p) == p.y * char_h > Height

OffBottom(p) == (p.y + 1) * char_h > Height

\* framebuffer_draw_char at the cursor's cell.
Drawn(c) == marks \union {[x |-> cursor.x, y |-> cursor.y, c |-> c, color |-> fg_color]}

\* terminal_put_char; the screen is cleared when its end is reached, and other
\* control characters are ignored.
PutChar(c) ==
    \/ /\ c \in Printable \union Blanks
       /\ LET p == Wrapped(Moved(c))
          IN  /\ cursor' = IF OffBottom(p) THEN Home ELSE p
              /\ marks' = IF OffBottom(p) THEN {}
                          ELSE IF c \in Printable THEN Drawn(c) ELSE marks
       /\ UNCHANGED fg_color
    \/ /\ c \notin Printable \union Blanks
       /\ UNCHANGED termVars

\* Characters, and colors of any kind.
TerminalNext == (\E c \in Printable \union Blanks : PutChar(c)) \/ SetColor(fg_color')

TerminalSpec == TerminalInit /\ [][TerminalNext]_termVars

-----------------------------------------------------------------------------
(* Properties.                                                             *)

\* In the order in which text is read.
Before(a, b) == a.y < b.y \/ (a.y = b.y /\ a.x < b.x)

\* The cell at the cursor, where the next glyph is drawn, lies on the screen.
CursorOnScreen ==
    /\ cursor \in [x : 0 .. 255, y : 0 .. 255]
    /\ (cursor.x + 1) * char_w <= Width
    /\ (cursor.y + 1) * char_h <= Height

\* Glyphs are wider than a cell, and the last one of a line reaches beyond the edge:
\* even so no pixel of any glyph lies behind the end of the framebuffer.
InsideFramebuffer ==
    \A m \in marks :
        (m.y * char_h + GlyphHeight - 1) * Stride + m.x * char_w + GlyphWidth - 1 < Stride * Height

\* Text comes out in reading order and never over other text, whatever mixture of
\* tabs, line breaks, wrapped lines and full screens leads there.
TextInOrder ==
    [][\A new \in marks' \ marks : \A m \in marks' \cap marks : Before(m, new)]_termVars
==============================================================================

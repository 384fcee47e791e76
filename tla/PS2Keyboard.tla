------------------------------ MODULE PS2Keyboard ------------------------------
(***************************************************************************)
(* The PS/2 keyboard driver after its initialisation,                      *)
(* kernel/src/drivers/ps2_keyboard.c, between a user typing on a keyboard   *)
(* that speaks scan code set 1 and the timer interrupt that reads the key  *)
(* event buffer.  Each byte from the keyboard raises IRQ 1.                *)
(*                                                                         *)
(* The user's part is the ground truth the driver is compared with: which  *)
(* keys are down, and for the bytes under way the events they stand for.   *)
(***************************************************************************)
EXTENDS KeyEventBuffer, Integers

CONSTANTS Keys,          \* keys the user types
          Repeating,     \* keys of them that repeat while they are held
          MaxLine        \* bytes the keyboard has not handed over yet

VARIABLES ps2_kbd_state,   \* which prefix has been received
          modifiers,       \* modifiers_old, num_shift_ and num_strg_keys_pressed
          line,            \* bytes on their way
          down,            \* keys that are down
          locks,           \* locks that are on
          expected         \* events the bytes on their way stand for

driverVars == <<ps2_kbd_state, modifiers>>
userVars == <<down, locks>>
vars == <<bufferVars, driverVars, line, userVars, expected>>

-----------------------------------------------------------------------------
(* Keys and bytes.                                                         *)

ShiftKeys == {"LSHIFT", "RSHIFT"}
StrgKeys == {"LSTRG", "RSTRG"}
LockKeys == {"CAPS_LOCK", "NUM_LOCK", "SCROLL_LOCK"}
PlainModifiers == {"ALT", "ALTGR", "LSUPER", "RSUPER"}

PRESSED == "pressed"
RELEASED == "released"

E0 == 224
E1 == 225

KnownKeys == ShiftKeys \union StrgKeys \union LockKeys \union PlainModifiers
             \union {"A", "PRINT_SCREEN"}

ASSUME KeyboardAssumption == /\ MaxLine \in Nat
                             /\ Keys \subseteq KnownKeys
                             /\ Repeating \subseteq Keys

\* The code of a key, and the keys whose code comes after E0.
Position(key) ==
    CASE key = "A" -> 30 [] key = "LSHIFT" -> 42 [] key = "RSHIFT" -> 54
      [] key \in StrgKeys -> 29 [] key \in {"ALT", "ALTGR"} -> 56
      [] key = "LSUPER" -> 91 [] key = "RSUPER" -> 92
      [] key = "CAPS_LOCK" -> 58 [] key = "NUM_LOCK" -> 69 [] key = "SCROLL_LOCK" -> 70
Prefixed == {"RSTRG", "ALTGR", "LSUPER", "RSUPER"}

\* What the keyboard sends when a key goes down or comes up.
ScanCode(key, pressed) ==
    LET byte == Position(key) + (IF pressed THEN 0 ELSE 128)
    IN  CASE key = "PRINT_SCREEN" -> IF pressed THEN <<E0, 42, E0, 55>> ELSE <<E0, 183, E0, 170>>
          [] key \in Prefixed -> <<E0, byte>>
          [] OTHER -> <<byte>>

\* ps2_kbd_mapping_scancode_set_1_to_keycode, of the keys above.
Keycode(code) ==
    CASE code = 30 -> "A" [] code = 42 -> "LSHIFT" [] code = 54 -> "RSHIFT" [] code = 29 -> "LSTRG"
      [] code = 56 -> "ALT" [] code = 58 -> "CAPS_LOCK" [] code = 69 -> "NUM_LOCK"
      [] code = 70 -> "SCROLL_LOCK" [] code = 157 -> "RSTRG" [] code = 184 -> "ALTGR"
      [] code = 219 -> "LSUPER" [] code = 220 -> "RSUPER" [] code \in {170, 183} -> "PRINT_SCREEN"
      [] OTHER -> "UNKNOWN"

\* ps2_kbd_scancode_to_keycode: bit 7 tells pressed from released on the line,
\* and prefixed codes from others in the table.
ScancodeToKeycode(byte, state) ==
    Keycode((byte % 128) + (IF state = "NORMAL" THEN 0 ELSE 128))

-----------------------------------------------------------------------------
(* The state machine of ps2_kbd_irq_callback.                              *)

\* Bytes that extend a prefix.
Extends == {<<"NORMAL", E0, "E0">>, <<"NORMAL", E1, "E1">>,
            <<"E0", 42, "E02A">>, <<"E0", 183, "E0B7">>,
            <<"E02A", E0, "E02AE0">>, <<"E0B7", E0, "E02AE0">>,
            <<"E1", 29, "E11D">>, <<"E11D", 69, "E11D45">>,
            <<"E11D45", E1, "E11D45E1">>, <<"E11D45E1", 157, "E11D45E19D">>}

\* States whose scan code can only end with one byte, and states that no byte ends.
LastByte == [E02AE0 |-> 55, E0B7E0 |-> 170, E11D45E19D |-> 197]
Inner == {"E02A", "E0B7", "E1", "E11D", "E11D45", "E11D45E1"}
Resynchronising == {55, 170, 197}

States == {"NORMAL", "E0", "INVALID"} \union Inner \union DOMAIN LastByte

Extending(state, byte) == {t \in Extends : t[1] = state /\ t[2] = byte}

\* A scan code is complete.
Completes(state, byte) ==
    /\ Extending(state, byte) = {}
    /\ state \in {"NORMAL", "E0"} \/ (state \in DOMAIN LastByte /\ LastByte[state] = byte)

\* The state after a byte that completes nothing.
StateAfter(state, byte) ==
    CASE Extending(state, byte) # {} -> (CHOOSE t \in Extending(state, byte) : TRUE)[3]
      [] Extending(state, byte) = {} /\ state \in Inner -> "INVALID"
      [] state \in DOMAIN LastByte -> "NORMAL"
      [] state = "INVALID" -> IF byte \in Resynchronising THEN "NORMAL" ELSE "INVALID"

-----------------------------------------------------------------------------
(* Modifiers.                                                              *)

SymmetricDifference(s, t) == (s \ t) \union (t \ s)

\* A uint8_t counts the Shift (or Strg) keys that are down.
Counted(count, pressed) == (count + (IF pressed THEN 1 ELSE 255)) % 256

\* Plausible bug: any Shift key that comes up clears the flag.
ModifiersAfter_NoCount(m, key, pressed) ==
    LET group == IF key \in ShiftKeys THEN {"SHIFT"} ELSE IF key \in StrgKeys THEN {"STRG"} ELSE {}
        plain == {key} \cap PlainModifiers
    IN  [m EXCEPT !.flags =
           IF key \in LockKeys THEN IF pressed THEN SymmetricDifference(@, {key}) ELSE @
           ELSE IF pressed THEN @ \union group \union plain ELSE @ \ (group \union plain)]

\* ps2_kbd_set_modifiers: locks toggle when they are pressed, the other flags
\* are on while a key of theirs is down.
ModifiersAfter(m, key, pressed) ==
    LET shift == IF key \in ShiftKeys THEN Counted(m.shift, pressed) ELSE m.shift
        strg == IF key \in StrgKeys THEN Counted(m.strg, pressed) ELSE m.strg
        mask == ({key} \cap (LockKeys \union PlainModifiers))
                \union {f \in {"SHIFT"} : key \in ShiftKeys /\ (pressed \/ shift = 0)}
                \union {f \in {"STRG"} : key \in StrgKeys /\ (pressed \/ strg = 0)}
    IN  [shift |-> shift, strg |-> strg,
         flags |-> CASE key \in LockKeys /\ pressed -> SymmetricDifference(m.flags, mask)
                     [] key \in LockKeys /\ ~pressed -> m.flags
                     [] key \notin LockKeys /\ pressed -> m.flags \union mask
                     [] OTHER -> m.flags \ mask]

-----------------------------------------------------------------------------
(* Actions.                                                                *)

Init == /\ BufferInit
        /\ ps2_kbd_state = "NORMAL"
        /\ modifiers = [flags |-> {}, shift |-> 0, strg |-> 0]
        /\ line = <<>>
        /\ down = {}
        /\ locks = {}
        /\ expected = <<>>

EventOf(key, pressed, flags) ==
    [keycode |-> key, pressed |-> IF pressed THEN PRESSED ELSE RELEASED, modifiers |-> flags]

\* The modifiers a user means who holds these keys while these locks are on.
Meant(keys, on) == on \union (keys \cap PlainModifiers)
                   \union {f \in {"SHIFT"} : keys \cap ShiftKeys # {}}
                   \union {f \in {"STRG"} : keys \cap StrgKeys # {}}

\* Events are what the driver may have to report.
ASSUME EventsAssumption ==
    \A key \in Keys, pressed \in BOOLEAN, keys \in SUBSET Keys, on \in SUBSET (Keys \cap LockKeys) :
      EventOf(key, pressed, Meant(keys, on)) \in Events

Send(key, pressed) ==
    /\ Len(line) + Len(ScanCode(key, pressed)) <= MaxLine
    /\ line' = line \o ScanCode(key, pressed)
    /\ expected' = Append(expected, EventOf(key, pressed, Meant(down', locks')))
    /\ UNCHANGED <<bufferVars, driverVars>>

\* A lock toggles with every press that is sent: no more is said of it
\* (ps2_keyboard.c:320).
LocksAfter(key) == IF key \in LockKeys THEN SymmetricDifference(locks, {key}) ELSE locks

PressKey == \E key \in Keys \ down :
    /\ down' = down \union {key}
    /\ locks' = LocksAfter(key)
    /\ Send(key, TRUE)

ReleaseKey == \E key \in down :
    /\ down' = down \ {key}
    /\ UNCHANGED locks
    /\ Send(key, FALSE)

\* A key is held so long that it repeats: the keyboard sends its press again.
RepeatKey == \E key \in down \cap Repeating :
    /\ UNCHANGED down
    /\ locks' = LocksAfter(key)
    /\ Send(key, TRUE)

\* ps2_kbd_irq_callback for a byte that completes no scan code.
ReceiveByte ==
    /\ line # <<>>
    /\ ~Completes(ps2_kbd_state, Head(line))
    /\ ps2_kbd_state' = StateAfter(ps2_kbd_state, Head(line))
    /\ line' = Tail(line)
    /\ UNCHANGED <<bufferVars, modifiers, userVars, expected>>

\* Plausible bug: the driver stays in the state of the prefix.
ReceiveScancode_KeepsPrefix ==
    LET byte == Head(line)
        pressed == byte < 128
        key == ScancodeToKeycode(byte, ps2_kbd_state)
    IN  /\ line # <<>>
        /\ Completes(ps2_kbd_state, byte)
        /\ modifiers' = ModifiersAfter(modifiers, key, pressed)
        /\ AppendEvent(EventOf(key, pressed, modifiers'.flags))
        /\ line' = Tail(line)
        /\ expected' = IF expected = <<>> THEN <<>> ELSE Tail(expected)
        /\ UNCHANGED <<ps2_kbd_state, userVars>>

\* ps2_kbd_irq_callback for the last byte of a scan code.
ReceiveScancode ==
    LET byte == Head(line)
        pressed == byte < 128
        key == ScancodeToKeycode(byte, ps2_kbd_state)
    IN  /\ line # <<>>
        /\ Completes(ps2_kbd_state, byte)
        /\ modifiers' = ModifiersAfter(modifiers, key, pressed)
        /\ AppendEvent(EventOf(key, pressed, modifiers'.flags))
        /\ ps2_kbd_state' = "NORMAL"
        /\ line' = Tail(line)
        /\ expected' = IF expected = <<>> THEN <<>> ELSE Tail(expected)
        /\ UNCHANGED userVars

\* The timer's interrupt handler reads events until the buffer is empty.
TimerInterrupt ==
    /\ GetAllEvents
    /\ UNCHANGED <<driverVars, line, userVars, expected>>

Next == PressKey \/ ReleaseKey \/ RepeatKey \/ ReceiveByte \/ ReceiveScancode \/ TimerInterrupt

Spec == Init /\ [][Next]_vars

-----------------------------------------------------------------------------
(* Properties.                                                             *)

\* Every event the driver appends is the next thing the user did: the right
\* key, pressed or released, with the modifiers that were held at that moment,
\* however many keys of a kind are down, whichever keys repeat and however late the
\* byte is read.  Once every byte is read nothing the user did is missing, and no
\* prefix is left over that would garble the next key.  It holds unless Shift or Strg
\* repeats or Print Screen is typed; two runs show that it fails then.
DecodesFaithfully ==
    /\ [][ReceiveScancode => /\ expected # <<>>
                             /\ Content'[size'] = Head(expected)]_vars
    /\ [](line = <<>> => expected = <<>> /\ ps2_kbd_state = "NORMAL")
==============================================================================

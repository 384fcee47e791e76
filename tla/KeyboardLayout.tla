---------------------------- MODULE KeyboardLayout ----------------------------
(***************************************************************************)
(* What a key event types: kbd_key_event_to_ascii (drivers/keyboard.c) and   *)
(* the tables of drivers/keyboard_layouts.h, with one key for each way in    *)
(* which the three tables differ.                                           *)
(***************************************************************************)
EXTENDS Naturals, Sequences

Keys == {"KEY_A",           \* the letters
         "KEY_UE",          \* the umlauts, two characters each
         "KEY_SS",
         "KEY_7",           \* keys with a third character
         "KEY_1",
         "KEY_3",           \* KEY_3, KEY_CIRCUMFLEX: nothing in the shift table
         "KEY_ENTER",
         "KEY_TAB",
         "KEY_BACKSPACE",
         "KEY_SPACE",       \* the space bar and the keypad
         "KEY_LEFT_SHIFT"}  \* keys that type nothing

normal == [KEY_A |-> <<"a">>, KEY_UE |-> <<"u", "e">>, KEY_SS |-> <<"s", "s">>, KEY_7 |-> <<"7">>,
           KEY_1 |-> <<"1">>, KEY_3 |-> <<"3">>, KEY_ENTER |-> <<"\n">>, KEY_TAB |-> <<"\t">>,
           KEY_BACKSPACE |-> <<"BACKSPACE">>, KEY_SPACE |-> <<" ">>, KEY_LEFT_SHIFT |-> <<>>]

shift == [KEY_A |-> <<"A">>, KEY_UE |-> <<"U", "E">>, KEY_SS |-> <<"?">>, KEY_7 |-> <<"/">>,
          KEY_1 |-> <<"!">>, KEY_3 |-> <<>>, KEY_ENTER |-> <<>>, KEY_TAB |-> <<>>,
          KEY_BACKSPACE |-> <<>>, KEY_SPACE |-> <<" ">>, KEY_LEFT_SHIFT |-> <<>>]

altgr == [k \in Keys |-> IF k = "KEY_7" THEN <<"{">> ELSE IF k = "KEY_SS" THEN <<"BACKSLASH">> ELSE <<>>]

KeyEvents == [key : Keys, pressed : BOOLEAN, modifiers : SUBSET {"shift", "caps_lock", "altgr"}]

\* Caps Lock swaps the tables as a whole: Enter, Tab and Backspace type nothing then.
kbd_key_event_to_ascii(e) ==
    CASE ~e.pressed -> <<>>
      [] e.pressed /\ "altgr" \in e.modifiers -> altgr[e.key]
      [] e.pressed /\ "altgr" \notin e.modifiers ->
            IF ("caps_lock" \in e.modifiers) = ("shift" \in e.modifiers) THEN normal[e.key] ELSE shift[e.key]
==============================================================================

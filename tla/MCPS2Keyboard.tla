----------------------------- MODULE MCPS2Keyboard -----------------------------
(* A user who types on a few keys.                                           *)
EXTENDS PS2Keyboard

\* Two Shift keys, a key with a prefix, a lock and a letter.
MCKeys == {"A", "LSHIFT", "RSHIFT", "RSTRG", "CAPS_LOCK"}

MCEvents == [keycode : Keys, pressed : {PRESSED, RELEASED},
             modifiers : SUBSET {"SHIFT", "STRG", "CAPS_LOCK"}]

MCNoEvent == EventOf("UNKNOWN", FALSE, {})
==============================================================================

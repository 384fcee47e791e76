------------------------------ MODULE MCOutput ------------------------------
(* What the kernel writes, in one run.  The console: a screen of six by three *)
(* characters with two pixels behind each row, a port that works or does not, *)
(* up to three keys, exceptions with and without numbers in their reports.    *)
(* The formatting functions it calls: called one at a time, with four-bit     *)
(* ints and six-bit longs, while the kernel has not written anything yet.     *)
(* They share no state: every behaviour is one of Spec and one of             *)
(* FormattingSpec.                                                            *)
EXTENDS Console, Formatting

-----------------------------------------------------------------------------
(* The console.                                                            *)

MCPrintable == {"J", "o", "e", "I", "E", "g", "i", "s", "k", "l", "f", ":", ",", "p", "b", "a", "u",
                "UD", "PF", "A", "-"} \union {Digit(d) : d \in 0 .. 15}

\* Control characters that are written although the terminal ignores them.
MCUnprintable == {NUL, "BACKSPACE"}

Press(key, modifiers) == [key |-> key, pressed |-> TRUE, modifiers |-> modifiers]

MCTyped == {Press("KEY_A", {"caps_lock", "shift"}), Press("KEY_UE", {}), Press("KEY_ENTER", {}),
            Press("KEY_TAB", {}), Press("KEY_BACKSPACE", {}),
            [key |-> "KEY_A", pressed |-> FALSE, modifiers |-> {}]}

MCFaults == {[vector |-> 6, error_code |-> 0, cr2 |-> 0, missing |-> 0],
             [vector |-> 14, error_code |-> 5, cr2 |-> 13, missing |-> 0]}

\* Every text of this instance is made of known characters.
ASSUME \A f \in MCFaults :
          Range(Report(f.vector, f.error_code, f.cr2, f.missing))
             \subseteq MCPrintable \union MCUnprintable \union Blanks

-----------------------------------------------------------------------------
(* The formatting functions.                                               *)

MCBases == {8, 10, 16}

Part(format, values) == [format |-> format, values |-> values]

\* All specifiers and flags, with values of either sign, flags in front of specifiers
\* that ignore them, and an argument too wide for its specifier.
MCParts ==
    {Part(<<"%", "d">>, <<n>>) : n \in {-8, -1, 0, 7, 25}}
        \union {Part(<<"%", f, "i">>, <<n>>) : f \in Flags, n \in {-3, 3}}
        \union {Part(<<"%", f, s>>, <<n>>) : f \in {"+"}, s \in {"u", "o", "x"}, n \in {-1, 10}}
        \union {Part(<<"%", "p">>, <<n>>) : n \in {0, 63}}
        \union {Part(<<"%", "u">>, <<9>>),
                Part(<<"%", " ", "c">>, <<"k">>),
                Part(<<"%", "+", "s">>, <<<<"+", "%">>>>),
                Part(<<"%", "s">>, <<<<>>>>),
                Part(<<"%", "+", "%">>, <<>>),
                Part(<<"d", "n">>, <<>>),
                Part(<<>>, <<>>)}

MCVectors == 0 .. 21

MCErrorCodes == {0, 5, 7}
MCAddresses == {0, 9, 32, 63}

-----------------------------------------------------------------------------
(* Both.                                                                   *)

OutputInit == Init /\ FormattingInit

OutputNext == \/ Init /\ FormattingNext /\ UNCHANGED vars
              \/ call = NoCall /\ Next /\ UNCHANGED call

OutputSpec == /\ OutputInit
              /\ [][OutputNext]_<<vars, call>>
              /\ Fairness
==============================================================================

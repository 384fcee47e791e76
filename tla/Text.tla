--------------------------------- MODULE Text ---------------------------------
(***************************************************************************)
(* How numbers and messages become text: itoa, utoa and strrev             *)
(* (libc/string), printf (libc/stdio/printf.c), the format strings and      *)
(* messages of kernel/src/logging.c, and the reports interrupt_handler      *)
(* makes of exceptions.  All of it is a function of the arguments.          *)
(*                                                                         *)
(* A text is a sequence of characters, without the '\0' that ends it in C.  *)
(***************************************************************************)
EXTENDS Integers, Sequences, SequencesExt

CONSTANTS IntHalf,     \* how many ints are negative: 2^31
          LongHalf     \* the same of longs, as wide as pointers: 2^63

ASSUME HalvesAssumption ==
    IntHalf \in Nat \ {0} /\ LongHalf \in Nat \ {0} /\ IntHalf <= LongHalf

NUL == "NUL"

-----------------------------------------------------------------------------
(* libc/string.                                                            *)

\* Values at equal distances from the front and the back are swapped.
Swapped(str, i) == [str EXCEPT ![i] = str[Len(str) + 1 - i], ![Len(str) + 1 - i] = str[i]]

\* Plausible bug: the indices stop one pair short of the middle.
strrev_StopsShort(str) ==
    LET after[i \in 0 .. (Len(str) - 1) \div 2] == IF i = 0 THEN str ELSE Swapped(after[i - 1], i)
    IN  after[(Len(str) - 1) \div 2]

\* The indices meet in the middle.  The text is not empty: strlen(str) - 1 would be
\* the largest size_t.
strrev(str) ==
    LET after[i \in 0 .. Len(str) \div 2] == IF i = 0 THEN str ELSE Swapped(after[i - 1], i)
    IN  after[Len(str) \div 2]

Digits == <<"0", "1", "2", "3", "4", "5", "6", "7", "8", "9", "a", "b", "c", "d", "e", "f">>

Digit(n) == Digits[n + 1]

\* Division in C rounds towards zero.
Quotient(n, base) == IF n < 0 THEN -((-n) \div base) ELSE n \div base
Remainder(n, base) == n - base * Quotient(n, base)

Magnitude(n) == IF n < 0 THEN -n ELSE n

\* Plausible bug: a remainder of ten is still written as a decimal digit.
DigitsReversed_TenIsDecimal(number, base) ==
    LET Rest[n \in -Magnitude(number) .. Magnitude(number)] ==
          IF n = 0 THEN <<>>
          ELSE LET temp == IF n < 0 THEN -Remainder(n, base) ELSE Remainder(n, base)
               IN  <<Digit(IF temp > 10 THEN temp ELSE temp % 10)>> \o Rest[Quotient(n, base)]
    IN  Rest[number]

\* The digits by continuous division, the last one first; a remainder of a negative
\* number is negated, never the number itself.
DigitsReversed(number, base) ==
    LET Rest[n \in -Magnitude(number) .. Magnitude(number)] ==
          IF n = 0 THEN <<>>
          ELSE LET temp == IF n < 0 THEN -Remainder(n, base) ELSE Remainder(n, base)
               IN  <<Digit(temp)>> \o Rest[Quotient(n, base)]
    IN  Rest[number]

itoa(number, base) ==
    IF number = 0 THEN <<"0">>
    ELSE strrev(DigitsReversed(number, base) \o IF number < 0 THEN <<"-">> ELSE <<>>)

utoa(number, base) == IF number = 0 THEN <<"0">> ELSE strrev(DigitsReversed(number, base))

-----------------------------------------------------------------------------
(* Format strings.                                                         *)

\* An argument taken for an unsigned number of fewer bits, or for an int.
Unsigned(n, half) == n % (2 * half)
Signed(n) == LET u == Unsigned(n, IntHalf) IN IF u < IntHalf THEN u ELSE u - 2 * IntHalf

Conversions == {"c", "s", "d", "i", "u", "o", "x", "p"}
Flags == {"+", " "}

\* What one conversion writes; of a %u the prefix is written even if it is '\0'.
Converted(specifier, arg, prefix) ==
    CASE specifier = "c" -> <<arg>>
      [] specifier = "s" -> arg
      [] specifier \in {"d", "i"} ->
            (IF prefix # NUL /\ Signed(arg) >= 0 THEN <<prefix>> ELSE <<>>) \o itoa(Signed(arg), 10)
      [] specifier = "u" -> <<prefix>> \o utoa(Unsigned(arg, IntHalf), 10)
      [] specifier = "o" -> utoa(Unsigned(arg, IntHalf), 8)
      [] specifier = "x" -> utoa(Unsigned(arg, IntHalf), 16)
      [] specifier = "p" -> <<"0", "x">> \o utoa(Unsigned(arg, LongHalf), 16)

\* What the error message for an unknown specifier says.
UnknownSpecifier(c) == <<"E", " ", "f", ":", " ", "U", c, "\n">>

Begin(args) == [state |-> "normal", prefix |-> NUL, args |-> args, out |-> <<>>]

\* Plausible bug: the flag of one specifier is still set at the next.
FormatStep_KeepsFlag(s, c) ==
    CASE s.state = "normal" /\ c = "%" -> [s EXCEPT !.state = "format"]
      [] s.state = "normal" /\ c # "%" -> [s EXCEPT !.out = Append(@, c)]
      [] s.state = "format" /\ c = "%" -> [s EXCEPT !.state = "normal", !.out = Append(@, "%")]
      [] s.state = "format" /\ c \in Flags -> [s EXCEPT !.prefix = c]
      [] s.state = "format" /\ c \in Conversions ->
            [s EXCEPT !.state = "normal", !.args = Tail(@),
                      !.out = @ \o Converted(c, Head(s.args), s.prefix)]
      [] s.state = "format" /\ c \notin Conversions \union Flags \union {"%"} ->
            [s EXCEPT !.state = "abandoned", !.out = @ \o UnknownSpecifier(c)]
      [] s.state = "abandoned" -> s

\* One character of log_formated_str's loop.  An unknown specifier is reported and
\* ends the message.
FormatStep(s, c) ==
    CASE s.state = "normal" /\ c = "%" -> [s EXCEPT !.state = "format", !.prefix = NUL]
      [] s.state = "normal" /\ c # "%" -> [s EXCEPT !.out = Append(@, c)]
      [] s.state = "format" /\ c = "%" -> [s EXCEPT !.state = "normal", !.out = Append(@, "%")]
      [] s.state = "format" /\ c \in Flags -> [s EXCEPT !.prefix = c]
      [] s.state = "format" /\ c \in Conversions ->
            [s EXCEPT !.state = "normal", !.args = Tail(@),
                      !.out = @ \o Converted(c, Head(s.args), s.prefix)]
      [] s.state = "format" /\ c \notin Conversions \union Flags \union {"%"} ->
            [s EXCEPT !.state = "abandoned", !.out = @ \o UnknownSpecifier(c)]
      [] s.state = "abandoned" -> s

\* What the loop has done after each character.
FormatLoop(str, args) ==
    LET after[n \in 0 .. Len(str)] ==
            IF n = 0 THEN Begin(args) ELSE FormatStep(after[n - 1], str[n])
    IN  after

log_formated_str(str, args) == FormatLoop(str, args)[Len(str)]

\* printf takes the same specifiers, gives up without a report, and counts what it
\* writes, but not the "0x" of a pointer.  The variables %n stores to are stored.
PrintfStep(s, c) ==
    IF s.state = "format" /\ c = "n"
    THEN [s EXCEPT !.state = "normal", !.args = Tail(@), !.stored = Append(@, s.written)]
    ELSE LET t == FormatStep(s, c)
             counted == Len(t.out) - Len(s.out) - IF s.state = "format" /\ c = "p" THEN 2 ELSE 0
         IN  IF s.state # "abandoned" /\ t.state = "abandoned"
             THEN [s EXCEPT !.state = "abandoned", !.written = -1]
             ELSE [t EXCEPT !.written = @ + counted]

BeginPrintf(args) ==
    [state |-> "normal", prefix |-> NUL, args |-> args, out |-> <<>>, written |-> 0, stored |-> <<>>]

printf(str, args) ==
    LET after[n \in 0 .. Len(str)] ==
            IF n = 0 THEN BeginPrintf(args) ELSE PrintfStep(after[n - 1], str[n])
    IN  after[Len(str)]

-----------------------------------------------------------------------------
(* Log messages.  The names of levels and files are one character each.     *)

LOGGING_LEVEL_DEBUG == 0
LOGGING_LEVEL_INFO == 1
LOGGING_LEVEL_WARNING == 2
LOGGING_LEVEL_ERROR == 3

\* "[INFO] " is written with the '\0' at its end.
LevelName(level) ==
    CASE level = LOGGING_LEVEL_DEBUG -> <<"D", " ">>
      [] level = LOGGING_LEVEL_INFO -> <<"I", " ", NUL>>
      [] level = LOGGING_LEVEL_WARNING -> <<"W", " ">>
      [] level = LOGGING_LEVEL_ERROR -> <<"E", " ">>

FileName(level) == IF level = LOGGING_LEVEL_INFO THEN <<>> ELSE <<"f", ":", " ">>

\* logging_log_msg, for a backend with this level.
logging_log_msg(minimum, level, msg, args) ==
    IF level < minimum THEN <<>>
    ELSE LevelName(level) \o FileName(level) \o log_formated_str(msg, args).out \o <<"\n">>

-----------------------------------------------------------------------------
(* Reports of exceptions.                                                  *)

INT_PAGE_FAULT == 14
INT_VIRTUALIZATION_EXCEPTION == 20
INT_CONTROL_PROTECTION_EXCEPTION == 21

\* Exceptions whose reports have a number in them.
WithErrorCode == {8, 10, 11, 12, 13, INT_PAGE_FAULT, 17, INT_CONTROL_PROTECTION_EXCEPTION}

\* The name of an exception counts as one character.
ExceptionNames == <<"DE", "DB", "NMI", "BP", "OF", "BR", "UD", "NM", "DF", "CSO", "TS", "NP", "SS",
                    "GP", "PF", "R15", "MF", "AC", "MC", "XM", "VE", "CP">>

ExceptionName(v) == ExceptionNames[v + 1]

\* A description: the name of the exception, and what is said of it.
Described(v) ==
    <<ExceptionName(v)>> \o (IF v \in WithErrorCode THEN <<":", "%", "d">> ELSE <<>>)
                    \o (IF v = INT_PAGE_FAULT THEN <<",", "%", "x">> ELSE <<>>) \o <<"\n">>

\* interrupt_descriptions up to the last vector the processor uses.  There is no
\* comma between the last two descriptions, so they are one, and those of
\* interrupts that should not come up follow one element too early.
interrupt_descriptions(v) ==
    CASE v < INT_VIRTUALIZATION_EXCEPTION -> Described(v)
      [] v = INT_VIRTUALIZATION_EXCEPTION -> Described(v) \o Described(v + 1)
      [] v = INT_CONTROL_PROTECTION_EXCEPTION -> <<"reserved", "\n">>

\* Plausible bug: the address comes before the error code.
Report_Swapped(vector, error_code, cr2, missing) ==
    logging_log_msg(LOGGING_LEVEL_DEBUG, LOGGING_LEVEL_ERROR, interrupt_descriptions(vector),
        CASE vector = INT_PAGE_FAULT -> <<cr2, error_code>>
          [] vector \in WithErrorCode \ {INT_PAGE_FAULT} -> <<error_code>>
          [] vector \notin WithErrorCode -> <<missing>>)

\* What interrupt_handler logs of an exception.  Without an error code it passes no
\* argument: a specifier, as in the description of 20, is given what is there.
Report(vector, error_code, cr2, missing) ==
    logging_log_msg(LOGGING_LEVEL_DEBUG, LOGGING_LEVEL_ERROR, interrupt_descriptions(vector),
        CASE vector = INT_PAGE_FAULT -> <<error_code, cr2>>
          [] vector \in WithErrorCode \ {INT_PAGE_FAULT} -> <<error_code>>
          [] vector \notin WithErrorCode -> <<missing>>)

==============================================================================

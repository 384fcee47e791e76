------------------------------ MODULE Formatting ------------------------------
(***************************************************************************)
(* Callers of the functions of Text: numbers are converted, messages of two *)
(* parts are logged and printed, exceptions are reported.                   *)
(***************************************************************************)
EXTENDS Text

CONSTANTS Bases,        \* the kernel converts to 8, 10 and 16
          Parts,        \* parts of messages, each with the values it needs
          Vectors,      \* exceptions that are reported
          ErrorCodes,
          Addresses     \* where a page fault happens

ASSUME BasesAssumption == Bases \subseteq 2 .. 16

IsSequence(s) == s \in Seq(Range(s))

\* What callers see to: a message has a value of the right kind for each of its
\* specifiers, and ends outside of one.
Fits(specifier, arg) == /\ specifier = "s" => IsSequence(arg)
                        /\ specifier \in Conversions \ {"c", "s"} => arg \in Int

Served(s, c) == \/ s.state = "normal"
                \/ c \in Flags \union {"%"}
                \/ c \in Conversions /\ s.args # <<>> /\ Fits(c, Head(s.args))

Complete(p) ==
    LET after == FormatLoop(p.format, p.values)
    IN  /\ IsSequence(p.format) /\ IsSequence(p.values)
        /\ \A n \in 1 .. Len(p.format) : Served(after[n - 1], p.format[n])
        /\ after[Len(p.format)].state = "normal" /\ after[Len(p.format)].args = <<>>

ASSUME PartsAssumption == \A p \in Parts : Complete(p)

\* The vectors the processor uses; error codes are selectors and sets of a few bits.
ASSUME FaultsAssumption ==
    Vectors \subseteq 0 .. 21 /\ ErrorCodes \subseteq 0 .. IntHalf - 1 /\ Addresses \subseteq Nat

VARIABLE call    \* the last call and what it wrote

NoCall == [function |-> "none"]

Longs == -LongHalf .. LongHalf - 1

ConvertLong(n, base) ==
    call' = [function |-> "itoa", number |-> n, base |-> base, text |-> itoa(n, base)]

ConvertUnsigned(n, base) ==
    call' = [function |-> "utoa", number |-> n, base |-> base, text |-> utoa(n, base)]

LogParts(p, q) ==
    call' = [function |-> "log", first |-> p, second |-> q,
             text |-> log_formated_str(p.format \o q.format, p.values \o q.values).out]

PrintParts(p, q) ==
    LET result == printf(p.format \o q.format, p.values \o q.values)
    IN  call' = [function |-> "printf", first |-> p, second |-> q, text |-> result.out,
                 written |-> result.written, stored |-> result.stored]

ReportException(vector, error_code, cr2, missing) ==
    call' = [function |-> "report", vector |-> vector, error_code |-> error_code, cr2 |-> cr2,
             text |-> Report(vector, error_code, cr2, missing)]

Convert == \E base \in Bases :
            \/ \E n \in Longs : ConvertLong(n, base)
            \/ \E n \in 0 .. 2 * LongHalf - 1 : ConvertUnsigned(n, base)

LogMessage == \E p, q \in Parts : LogParts(p, q)

\* printf only: "%n" stores the number of characters written so far.
CountPart == [format |-> <<"%", "n">>, values |-> <<0>>]

PrintMessage == \E p, q \in Parts \union {CountPart} : PrintParts(p, q)

Fault == \E vector \in Vectors, error_code \in ErrorCodes, cr2 \in Addresses, missing \in Longs :
            ReportException(vector, error_code, cr2, missing)

Returned == call' = NoCall

FormattingInit == call = NoCall

FormattingNext == \/ call = NoCall /\ (Convert \/ LogMessage \/ PrintMessage \/ Fault)
                  \/ call # NoCall /\ Returned

FormattingSpec == FormattingInit /\ [][FormattingNext]_call

-----------------------------------------------------------------------------
(* Properties.                                                             *)

\* What a reader takes a text for.
Natural(text, base) ==
    LET value[n \in 0 .. Len(text)] ==
            IF n = 0 THEN 0
            ELSE base * value[n - 1] + (CHOOSE d \in 0 .. base - 1 : Digit(d) = text[n])
    IN  value[Len(text)]

Numeral(text, base) == /\ text # <<>>
                       /\ Range(text) \subseteq {Digit(d) : d \in 0 .. base - 1}
                       /\ Len(text) > 1 => Head(text) # "0"

Reads(text, base, number) ==
    IF number < 0 THEN /\ text # <<>> /\ Head(text) = "-"
                       /\ Numeral(Tail(text), base) /\ Natural(Tail(text), base) = -number
    ELSE Numeral(text, base) /\ Natural(text, base) = number

\* Every number is written as its numeral in the given base, shortest form, sign
\* included: zero, the most negative long (which has no positive counterpart) and
\* the largest unsigned long among them.
NumbersReadBack ==
    call.function \in {"itoa", "utoa"} => Reads(call.text, call.base, call.number)

\* What is written for a part of a message does not depend on the part before it: no
\* flag and no state outlives its specifier.  printf's result and what %n stores add up
\* over the parts, whatever they are for one part.
FormatsCompose ==
    /\ call.function = "log" =>
        call.text = log_formated_str(call.first.format, call.first.values).out
                 \o log_formated_str(call.second.format, call.second.values).out
    /\ call.function = "printf" =>
        LET first == printf(call.first.format, call.first.values)
            second == printf(call.second.format, call.second.values)
        IN  /\ call.text = first.out \o second.out
            /\ call.written = first.written + second.written
            /\ call.stored = first.stored \o [i \in DOMAIN second.stored |->
                                                first.written + second.stored[i]]

\* The report of an exception begins with its own name and, where there is an error
\* code, goes on with a numeral of that; a page fault's ends with the lower half of
\* the address (%x).
NamesTheFault(text, vector, error_code, cr2) ==
    LET begin == LevelName(LOGGING_LEVEL_ERROR) \o FileName(LOGGING_LEVEL_ERROR)
                    \o <<ExceptionName(vector)>>
        rest == SubSeq(text, Len(begin) + 1, Len(text))
        End(i) == IF vector # INT_PAGE_FAULT THEN SubSeq(rest, i, Len(rest)) = <<"\n", "\n">>
                  ELSE /\ rest[i] = ","
                       /\ SubSeq(rest, Len(rest) - 1, Len(rest)) = <<"\n", "\n">>
                       /\ Reads(SubSeq(rest, i + 1, Len(rest) - 2), 16, Unsigned(cr2, IntHalf))
    IN  /\ IsPrefix(begin, text)
        /\ vector \notin WithErrorCode => rest = <<"\n", "\n">>
        /\ vector \in WithErrorCode =>
             /\ rest[1] = ":"
             /\ \E i \in 2 .. Len(rest) : /\ Reads(SubSeq(rest, 2, i - 1), 10, error_code)
                                          /\ End(i)

\* The order of the table, of the formats and of the arguments agree, except for the
\* two exceptions whose descriptions the missing comma of interrupt_handler.h:310
\* makes one: 20 is reported as both of them, with a number nobody passed, and 21 as
\* an interrupt that should not come up.  No other report is affected.
ReportsNameTheFault ==
    call.function = "report" =>
        (NamesTheFault(call.text, call.vector, call.error_code, call.cr2)
            <=> call.vector \notin {INT_VIRTUALIZATION_EXCEPTION, INT_CONTROL_PROTECTION_EXCEPTION})
==============================================================================

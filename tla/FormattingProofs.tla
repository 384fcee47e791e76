--------------------------- MODULE FormattingProofs ---------------------------
(***************************************************************************)
(* How numbers, messages and reports are written: for ints and longs of    *)
(* any width, every base, every message and every exception that has a      *)
(* report of its own.                                                      *)
(***************************************************************************)
EXTENDS Formatting, WellFoundedInduction, TLAPS

-----------------------------------------------------------------------------
(* Induction and sequences.                                                *)

\* What holds of 0 and is passed on by each number holds up to n.
LEMMA UpTo ==
    ASSUME NEW n \in Nat, NEW T, 0 \in T, \A k \in 0 .. n - 1 : k \in T => k + 1 \in T
    PROVE  \A k \in 0 .. n : k \in T
  <1> SUFFICES ASSUME NEW k0 \in 0 .. n, k0 \notin T PROVE FALSE
    OBVIOUS
  <1> DEFINE Smaller == {ss \in Nat \X Nat : ss[1] < ss[2]}
             Others == {k \in 0 .. n : k \notin T}
  <1>1. IsWellFoundedOn(Smaller, Nat)  BY NatLessThanWellFounded DEF OpToRel
  <1>2. \A a, b \in Nat : <<a, b>> \in Smaller <=> a < b  OBVIOUS
  <1>3. Others \subseteq Nat /\ Others # {}  OBVIOUS
  <1> HIDE DEF Smaller, Others
  <1>4. PICK k \in Others : \A j \in Others : ~(<<j, k>> \in Smaller)  BY <1>1, <1>3, WFMin
  <1>5. k \in 0 .. n /\ k \notin T  BY DEF Others
  <1>6. k - 1 \in 0 .. n - 1 /\ k - 1 \in Nat /\ k \in Nat  BY <1>5
  <1>7. k - 1 \notin Others
    <2>1. PICK j : j = k - 1  OBVIOUS
    <2>2. j \in Nat /\ j < k  BY <1>6, <2>1
    <2>3. <<j, k>> \in Smaller  BY <1>2, <1>6, <2>2
    <2> QED  BY <1>4, <2>1, <2>3
  <1>8. k - 1 \in T  BY <1>6, <1>7 DEF Others
  <1>9. (k - 1) + 1 = k  BY <1>6
  <1> QED  BY <1>5, <1>6, <1>8, <1>9

\* A sequence is a function on its positions.
LEMMA FunctionIsSeq ==
    ASSUME NEW S, NEW n \in Nat, NEW f \in [1 .. n -> S]
    PROVE  f \in Seq(S) /\ Len(f) = n
  OBVIOUS

LEMMA SeqIsFunction ==
    ASSUME NEW S, NEW s \in Seq(S)
    PROVE  Len(s) \in Nat /\ s \in [1 .. Len(s) -> S]
  OBVIOUS

LEMMA SameSequence ==
    ASSUME NEW S, NEW s \in Seq(S), NEW t \in Seq(S), Len(s) = Len(t),
           \A i \in 1 .. Len(s) : s[i] = t[i]
    PROVE  s = t
  <1>1. s \in [1 .. Len(s) -> S] /\ t \in [1 .. Len(s) -> S]  BY SeqIsFunction
  <1> QED  BY <1>1

\* Where the elements of a concatenation come from.
LEMMA CatFacts ==
    ASSUME NEW S, NEW s \in Seq(S), NEW t \in Seq(S)
    PROVE  /\ s \o t \in Seq(S)
           /\ Len(s \o t) = Len(s) + Len(t)
           /\ \A i \in 1 .. Len(s) : (s \o t)[i] = s[i]
           /\ \A i \in Len(s) + 1 .. Len(s) + Len(t) : (s \o t)[i] = t[i - Len(s)]
  OBVIOUS

-----------------------------------------------------------------------------
(* strrev.                                                                 *)

AreSwaps(after, str, n) == after = [i \in 0 .. n |-> IF i = 0 THEN str ELSE Swapped(after[i - 1], i)]

\* The loop of strrev can be run for any number of iterations.
LEMMA SwapsExist ==
    ASSUME NEW str, NEW N \in Nat
    PROVE  \E after : AreSwaps(after, str, N)
  <1>t. PICK T : T = {n \in Nat : \E p : AreSwaps(p, str, n)}  OBVIOUS
  <1>1. 0 \in T
    <2>1. AreSwaps([k \in 0 .. 0 |-> str], str, 0)  BY DEF AreSwaps
    <2> QED  BY <1>t, <2>1
  <1>2. ASSUME NEW n \in 0 .. N - 1, n \in T PROVE n + 1 \in T
    <2>1. PICK p : AreSwaps(p, str, n)  BY <1>2, <1>t
    <2>2. PICK q : q = [k \in 0 .. n + 1 |-> IF k = n + 1 THEN Swapped(p[n], n + 1) ELSE p[k]]  OBVIOUS
    <2>3. ASSUME NEW k \in 0 .. n + 1
          PROVE  q[k] = IF k = 0 THEN str ELSE Swapped(q[k - 1], k)
      <3>1. CASE k = n + 1
        <4>1. k # 0 /\ k - 1 = n /\ n \in 0 .. n + 1 /\ n # n + 1  BY <3>1
        <4>2. q[k] = Swapped(p[n], n + 1) /\ q[k - 1] = p[n]  BY <2>2, <3>1, <4>1
        <4> QED  BY <3>1, <4>1, <4>2
      <3>2. CASE k # n + 1
        <4>1. k \in 0 .. n  BY <3>2
        <4>2. p[k] = IF k = 0 THEN str ELSE Swapped(p[k - 1], k)  BY <2>1, <4>1 DEF AreSwaps
        <4>3. q[k] = p[k]  BY <2>2, <3>2
        <4>4. k # 0 => q[k - 1] = p[k - 1]  BY <2>2, <4>1
        <4> QED  BY <4>2, <4>3, <4>4
      <3> QED  BY <3>1, <3>2
    <2>4. AreSwaps(q, str, n + 1)  BY <2>2, <2>3 DEF AreSwaps
    <2> QED  BY <1>t, <2>4
  <1>3. N \in T  BY <1>1, <1>2, UpTo
  <1> QED  BY <1>3, <1>t

StrrevSwaps(after, str, N) ==
    /\ after[0] = str
    /\ \A n \in 0 .. N - 1 : after[n + 1] = Swapped(after[n], n + 1)
    /\ strrev(str) = after[N]

\* strrev swaps one pair after the other.
LEMMA StrrevIs ==
    ASSUME NEW str, NEW N \in Nat, N = Len(str) \div 2
    PROVE  \E after : StrrevSwaps(after, str, N)
  <1>1. PICK p : AreSwaps(p, str, N)  BY SwapsExist
  <1>2. PICK after : AreSwaps(after, str, N) /\ strrev(str) = after[N]
    BY <1>1, Zenon DEF strrev, AreSwaps
  <1>3. 0 \in 0 .. N  OBVIOUS
  <1>4. after[0] = str  BY <1>2, <1>3 DEF AreSwaps
  <1>5. ASSUME NEW n \in 0 .. N - 1 PROVE after[n + 1] = Swapped(after[n], n + 1)
    <2>1. n + 1 \in 0 .. N /\ n + 1 # 0 /\ (n + 1) - 1 = n  OBVIOUS
    <2>2. after[n + 1] = Swapped(after[(n + 1) - 1], n + 1)  BY <1>2, <2>1 DEF AreSwaps
    <2> QED  BY <2>1, <2>2
  <1>6. StrrevSwaps(after, str, N)  BY <1>2, <1>4, <1>5 DEF StrrevSwaps
  <1> QED  BY <1>6

\* A sequence from its end to its beginning.
Reversed(str) == [i \in 1 .. Len(str) |-> str[Len(str) + 1 - i]]

\* strrev reverses: the middle is reached, and not passed.
LEMMA StrrevReverses ==
    ASSUME NEW S, NEW str \in Seq(S)
    PROVE  strrev(str) = Reversed(str)
  <1>1. PICK L \in Nat : L = Len(str)  BY SeqIsFunction
  <1>2. PICK N \in Nat : N = Len(str) \div 2 /\ 2 * N <= L /\ L <= 2 * N + 1  BY <1>1
  <1>3. str \in [1 .. L -> S]  BY <1>1, SeqIsFunction
  <1>4. PICK after : /\ after[0] = str
                     /\ \A n \in 0 .. N - 1 : after[n + 1] = Swapped(after[n], n + 1)
                     /\ strrev(str) = after[N]
    <2>1. PICK f : StrrevSwaps(f, str, N)  BY <1>2, StrrevIs
    <2> QED  BY <2>1 DEF StrrevSwaps
  <1>t. PICK T : T = {n \in Nat : /\ after[n] \in [1 .. L -> S]
                                  /\ \A i \in 1 .. L : after[n][i] = IF i <= n \/ i > L - n THEN str[L + 1 - i]
                                                                     ELSE str[i]}
    OBVIOUS
  <1>5. 0 \in T
    <2>1. \A i \in 1 .. L : ~(i <= 0 \/ i > L - 0)  OBVIOUS
    <2> QED  BY <1>t, <1>3, <1>4, <2>1
  <1>6. ASSUME NEW n \in 0 .. N - 1, n \in T PROVE n + 1 \in T
    <2>1. PICK s : s = after[n]  OBVIOUS
    <2>2. /\ s \in [1 .. L -> S]
          /\ \A i \in 1 .. L : s[i] = IF i <= n \/ i > L - n THEN str[L + 1 - i] ELSE str[i]
      BY <1>6, <1>t, <2>1
    <2>3. Len(s) = L  BY <2>2, FunctionIsSeq
    <2>4. PICK j : j = n + 1  OBVIOUS
    <2>5. /\ j \in 1 .. L /\ L + 1 - j \in 1 .. L /\ j # L + 1 - j
          /\ ~(j <= n \/ j > L - n) /\ ~(L + 1 - j <= n \/ L + 1 - j > L - n)
      BY <1>2, <2>4
    <2>6. after[n + 1] = [s EXCEPT ![j] = s[L + 1 - j], ![L + 1 - j] = s[j]]
      BY <1>4, <2>1, <2>3, <2>4 DEF Swapped
    <2>7. s[j] = str[j] /\ s[L + 1 - j] = str[L + 1 - j]  BY <2>2, <2>5
    <2>8. after[n + 1] \in [1 .. L -> S]  BY <2>2, <2>5, <2>6
    <2>9. ASSUME NEW i \in 1 .. L
          PROVE  after[n + 1][i] = IF i <= n + 1 \/ i > L - (n + 1) THEN str[L + 1 - i] ELSE str[i]
      <3>1. CASE i = j
        <4>1. after[n + 1][i] = s[L + 1 - j]  BY <2>2, <2>5, <2>6, <3>1
        <4> QED  BY <2>4, <2>7, <3>1, <4>1
      <3>2. CASE i = L + 1 - j
        <4>1. after[n + 1][i] = s[j]  BY <2>2, <2>5, <2>6, <3>2
        <4>2. L + 1 - i = j /\ i > L - (n + 1)  BY <2>4, <3>2
        <4> QED  BY <2>7, <4>1, <4>2
      <3>3. CASE i # j /\ i # L + 1 - j
        <4>1. after[n + 1][i] = s[i]  BY <2>2, <2>6, <3>3
        <4>2. (i <= n + 1 \/ i > L - (n + 1)) <=> (i <= n \/ i > L - n)  BY <2>4, <3>3
        <4> QED  BY <2>2, <4>1, <4>2
      <3> QED  BY <3>1, <3>2, <3>3
    <2> QED  BY <1>t, <2>8, <2>9
  <1>7. N \in T
    <2>1. \A k \in 0 .. N : k \in T  BY <1>5, <1>6, UpTo
    <2> QED  BY <2>1
  <1>8. \A i \in 1 .. L : after[N][i] = str[L + 1 - i]
    <2> TAKE i \in 1 .. L
    <2>1. after[N][i] = IF i <= N \/ i > L - N THEN str[L + 1 - i] ELSE str[i]  BY <1>7, <1>t
    <2>2. i <= N \/ i > L - N \/ i = L + 1 - i  BY <1>2
    <2> QED  BY <2>1, <2>2
  <1>9. after[N] = [i \in 1 .. L |-> str[L + 1 - i]]  BY <1>7, <1>8, <1>t
  <1> QED  BY <1>1, <1>4, <1>9 DEF Reversed

-----------------------------------------------------------------------------
(* Numbers.                                                                *)

\* Sixteen different digits, none of which is the sign.
LEMMA DigitFacts ==
    /\ \A d \in 0 .. 15 : Digit(d) # "-"
    /\ \A d, e \in 0 .. 15 : Digit(d) = Digit(e) => d = e
    /\ Digit(0) = "0"
  <1>1. /\ Digit(0) = "0" /\ Digit(1) = "1" /\ Digit(2) = "2" /\ Digit(3) = "3"
        /\ Digit(4) = "4" /\ Digit(5) = "5" /\ Digit(6) = "6" /\ Digit(7) = "7"
        /\ Digit(8) = "8" /\ Digit(9) = "9" /\ Digit(10) = "a" /\ Digit(11) = "b"
        /\ Digit(12) = "c" /\ Digit(13) = "d" /\ Digit(14) = "e" /\ Digit(15) = "f"
    BY DEF Digit, Digits
  <1>2. \A d \in 0 .. 15 : \/ d = 0 \/ d = 1 \/ d = 2 \/ d = 3 \/ d = 4 \/ d = 5 \/ d = 6 \/ d = 7
                           \/ d = 8 \/ d = 9 \/ d = 10 \/ d = 11 \/ d = 12 \/ d = 13 \/ d = 14 \/ d = 15
    OBVIOUS
  <1> QED  BY <1>1, <1>2

\* The digit the loop writes first.
LastDigit(n, base) == Digit(IF n < 0 THEN -Remainder(n, base) ELSE Remainder(n, base))

\* Division leaves a digit and a number of less magnitude and the same sign.
Divided(n, b, d, q) ==
    /\ Quotient(n, b) = q /\ LastDigit(n, b) = Digit(d)
    /\ Magnitude(n) \in Nat /\ Magnitude(q) \in Nat
    /\ Magnitude(q) < Magnitude(n) /\ Magnitude(n) = b * Magnitude(q) + d

LEMMA DivisionFacts ==
    ASSUME NEW b \in 2 .. 16, NEW n \in Int, n # 0
    PROVE  \E d \in 0 .. b - 1, q \in Int : Divided(n, b, d, q)
  <1>1. ASSUME NEW m \in Nat \ {0}
        PROVE  /\ m \div b \in Nat /\ m \div b < m
               /\ m - b * (m \div b) \in 0 .. b - 1
    OBVIOUS
  <1>m. PICK m \in Nat \ {0} : m = Magnitude(n)  BY DEF Magnitude
  <1>q. PICK c \in Nat : c = m \div b /\ c < m /\ m - b * c \in 0 .. b - 1  BY <1>1
  <1>d. PICK d \in 0 .. b - 1 : d = m - b * c /\ m = b * c + d  BY <1>q
  <1>2. CASE n > 0
    <2>1. m = n  BY <1>m, <1>2 DEF Magnitude
    <2>2. Quotient(n, b) = c /\ Remainder(n, b) = d  BY <1>2, <1>q, <1>d, <2>1 DEF Quotient, Remainder
    <2>3. LastDigit(n, b) = Digit(d)  BY <1>2, <2>2 DEF LastDigit
    <2>4. Magnitude(c) = c  BY DEF Magnitude
    <2>5. c < Magnitude(n) /\ Magnitude(n) = b * c + d /\ Magnitude(n) \in Nat  BY <1>m, <1>q, <1>d
    <2>6. Divided(n, b, d, c)  BY <2>2, <2>3, <2>4, <2>5, Zenon DEF Divided
    <2> QED  BY <2>6
  <1>3. CASE n < 0
    <2>1. m = -n  BY <1>m, <1>3 DEF Magnitude
    <2>2. Quotient(n, b) = -c  BY <1>3, <1>q, <2>1 DEF Quotient
    <2>3. Remainder(n, b) = -d  BY <1>d, <2>1, <2>2 DEF Remainder
    <2>4. -(-d) = d  OBVIOUS
    <2>5. LastDigit(n, b) = Digit(d)  BY <1>3, <2>3, <2>4 DEF LastDigit
    <2>6. Magnitude(-c) = c  BY DEF Magnitude
    <2>7. c < Magnitude(n) /\ Magnitude(n) = b * c + d /\ Magnitude(n) \in Nat  BY <1>m, <1>q, <1>d
    <2>8. Divided(n, b, d, -c)
      <3>1. Magnitude(-c) < Magnitude(n) /\ Magnitude(n) = b * Magnitude(-c) + d /\ Magnitude(-c) \in Nat
        BY <2>6, <2>7, Zenon
      <3> QED  BY <2>2, <2>5, <2>7, <3>1 DEF Divided
    <2> QED  BY <2>8
  <1> QED  BY <1>2, <1>3
\* The digits of the numbers up to a magnitude.
AreDigits(f, b, m) ==
    f = [n \in -m .. m |-> IF n = 0 THEN <<>> ELSE <<LastDigit(n, b)>> \o f[Quotient(n, b)]]

\* Continuous division comes to an end.
LEMMA DigitsExist ==
    ASSUME NEW b \in 2 .. 16, NEW M \in Nat
    PROVE  \E f : AreDigits(f, b, M)
  <1>t. PICK T : T = {m \in Nat : \E f : AreDigits(f, b, m)}  OBVIOUS
  <1>1. 0 \in T
    <2>1. PICK f : f = [n \in -0 .. 0 |-> <<>>]  OBVIOUS
    <2>2. AreDigits(f, b, 0)
      <3>1. \A n \in -0 .. 0 : n = 0  OBVIOUS
      <3> QED  BY <2>1, <3>1 DEF AreDigits
    <2> QED  BY <1>t, <2>2
  <1>2. ASSUME NEW m \in 0 .. M - 1, m \in T PROVE m + 1 \in T
    <2>1. PICK f : AreDigits(f, b, m)  BY <1>2, <1>t
    <2>2. PICK g : g = [n \in -(m + 1) .. m + 1 |->
                          IF n \in -m .. m THEN f[n] ELSE <<LastDigit(n, b)>> \o f[Quotient(n, b)]]
      OBVIOUS
    <2>3. ASSUME NEW n \in -(m + 1) .. m + 1, n # 0
          PROVE  Quotient(n, b) \in -m .. m /\ g[Quotient(n, b)] = f[Quotient(n, b)]
      <3>0. n \in Int  OBVIOUS
      <3>1. PICK d \in 0 .. b - 1, q \in Int : Divided(n, b, d, q)  BY <2>3, <3>0, DivisionFacts
      <3>2. q \in -m .. m /\ Quotient(n, b) = q  BY <3>1 DEF Divided, Magnitude
      <3>3. q \in -(m + 1) .. m + 1  BY <3>2
      <3> QED  BY <2>2, <3>2, <3>3
    <2>4. ASSUME NEW n \in -(m + 1) .. m + 1
          PROVE  g[n] = IF n = 0 THEN <<>> ELSE <<LastDigit(n, b)>> \o g[Quotient(n, b)]
      <3>1. CASE n = 0
        <4>1. n \in -m .. m /\ g[n] = f[n]  BY <2>2, <3>1
        <4> QED  BY <2>1, <3>1, <4>1 DEF AreDigits
      <3>2. CASE n # 0 /\ n \in -m .. m
        <4>1. f[n] = <<LastDigit(n, b)>> \o f[Quotient(n, b)]  BY <2>1, <3>2 DEF AreDigits
        <4>2. g[n] = f[n]  BY <2>2, <3>2
        <4>3. g[Quotient(n, b)] = f[Quotient(n, b)]  BY <2>3, <3>2
        <4> QED  BY <3>2, <4>1, <4>2, <4>3
      <3>3. CASE n # 0 /\ n \notin -m .. m
        <4>1. g[n] = <<LastDigit(n, b)>> \o f[Quotient(n, b)]  BY <2>2, <3>3
        <4>2. g[Quotient(n, b)] = f[Quotient(n, b)]  BY <2>3, <3>3
        <4> QED  BY <3>3, <4>1, <4>2
      <3> QED  BY <3>1, <3>2, <3>3
    <2>5. AreDigits(g, b, m + 1)  BY <2>2, <2>4 DEF AreDigits
    <2> QED  BY <1>t, <2>5
  <1>3. M \in T
    <2>1. \A k \in 0 .. M : k \in T  BY <1>1, <1>2, UpTo
    <2> QED  BY <2>1
  <1> QED  BY <1>3, <1>t

\* A digit before the digits of the quotient.
LEMMA DigitsReversedIs ==
    ASSUME NEW b \in 2 .. 16, NEW number \in Int
    PROVE  \E f : /\ AreDigits(f, b, Magnitude(number))
                  /\ DigitsReversed(number, b) = f[number]
  <1>1. Magnitude(number) \in Nat  BY DEF Magnitude
  <1>2. PICK f : AreDigits(f, b, Magnitude(number))  BY <1>1, DigitsExist
  <1> QED  BY <1>2, Zenon DEF DigitsReversed, AreDigits, LastDigit

\* What a character counts for.
DigitValue(c, b) == CHOOSE d \in 0 .. b - 1 : Digit(d) = c

LEMMA DigitValueIs ==
    ASSUME NEW b \in 2 .. 16, NEW d \in 0 .. b - 1
    PROVE  DigitValue(Digit(d), b) = d
  <1>1. \A e \in 0 .. b - 1 : Digit(e) = Digit(d) => e = d  BY DigitFacts
  <1> QED  BY <1>1 DEF DigitValue

\* What the beginnings of a text read as.
AreValues(v, text, b, L) ==
    v = [n \in 0 .. L |-> IF n = 0 THEN 0 ELSE b * v[n - 1] + DigitValue(text[n], b)]

LEMMA ValuesExist ==
    ASSUME NEW text, NEW b, NEW N \in Nat
    PROVE  \E v : AreValues(v, text, b, N)
  <1>t. PICK T : T = {n \in Nat : \E p : AreValues(p, text, b, n)}  OBVIOUS
  <1>1. 0 \in T
    <2>1. AreValues([k \in 0 .. 0 |-> 0], text, b, 0)  BY DEF AreValues
    <2> QED  BY <1>t, <2>1
  <1>2. ASSUME NEW n \in 0 .. N - 1, n \in T PROVE n + 1 \in T
    <2>1. PICK p : AreValues(p, text, b, n)  BY <1>2, <1>t
    <2>2. PICK next : next = b * p[n] + DigitValue(text[n + 1], b)  OBVIOUS
    <2>3. PICK q : q = [k \in 0 .. n + 1 |-> IF k = n + 1 THEN next ELSE p[k]]  OBVIOUS
    <2>4. ASSUME NEW k \in 0 .. n + 1
          PROVE  q[k] = IF k = 0 THEN 0 ELSE b * q[k - 1] + DigitValue(text[k], b)
      <3>1. CASE k = n + 1
        <4>1. k # 0 /\ k - 1 = n /\ n \in 0 .. n + 1 /\ n # n + 1  BY <3>1
        <4>2. q[k] = next /\ q[k - 1] = p[n]  BY <2>3, <3>1, <4>1
        <4> QED  BY <2>2, <3>1, <4>1, <4>2
      <3>2. CASE k # n + 1
        <4>1. k \in 0 .. n  BY <3>2
        <4>2. p[k] = IF k = 0 THEN 0 ELSE b * p[k - 1] + DigitValue(text[k], b)
          BY <2>1, <4>1 DEF AreValues
        <4>3. q[k] = p[k]  BY <2>3, <3>2
        <4>4. k # 0 => q[k - 1] = p[k - 1]  BY <2>3, <4>1
        <4> QED  BY <4>2, <4>3, <4>4
      <3> QED  BY <3>1, <3>2
    <2>5. AreValues(q, text, b, n + 1)  BY <2>3, <2>4 DEF AreValues
    <2> QED  BY <1>t, <2>5
  <1>3. N \in T
    <2>1. \A k \in 0 .. N : k \in T  BY <1>1, <1>2, UpTo
    <2> QED  BY <2>1
  <1> QED  BY <1>3, <1>t

LEMMA NaturalIs ==
    ASSUME NEW text, NEW b, NEW L \in Nat, L = Len(text)
    PROVE  \E v : AreValues(v, text, b, L) /\ Natural(text, b) = v[L]
  <1>1. PICK v : AreValues(v, text, b, L)  BY ValuesExist
  <1> QED  BY <1>1, Zenon DEF Natural, AreValues, DigitValue

\* A character more counts once, what was there before base times as much.
LEMMA NaturalGrows ==
    ASSUME NEW S, NEW text \in Seq(S), NEW c \in S, NEW b
    PROVE  Natural(Append(text, c), b) = b * Natural(text, b) + DigitValue(c, b)
  <1>1. PICK L \in Nat : L = Len(text)  BY SeqIsFunction
  <1>2. /\ Len(Append(text, c)) = L + 1
        /\ \A i \in 1 .. L : Append(text, c)[i] = text[i]
        /\ Append(text, c)[L + 1] = c
    BY <1>1
  <1>3. PICK v : AreValues(v, text, b, L) /\ Natural(text, b) = v[L]  BY <1>1, NaturalIs
  <1>4. PICK w : AreValues(w, Append(text, c), b, L + 1) /\ Natural(Append(text, c), b) = w[L + 1]
    <2>1. PICK longer : longer = Append(text, c)  OBVIOUS
    <2>2. L + 1 \in Nat /\ L + 1 = Len(longer)  BY <1>2, <2>1
    <2> QED  BY <2>1, <2>2, NaturalIs
  <1>t. PICK T : T = {n \in Nat : v[n] = w[n]}  OBVIOUS
  <1>5. 0 \in T
    <2>1. 0 \in 0 .. L /\ 0 \in 0 .. L + 1  OBVIOUS
    <2> QED  BY <1>3, <1>4, <1>t, <2>1 DEF AreValues
  <1>6. ASSUME NEW n \in 0 .. L - 1, n \in T PROVE n + 1 \in T
    <2>1. PICK k : k = n + 1  OBVIOUS
    <2>2. k \in 0 .. L /\ k \in 0 .. L + 1 /\ k # 0 /\ k - 1 = n /\ k \in 1 .. L  BY <2>1
    <2>3. v[k] = b * v[n] + DigitValue(text[k], b)  BY <1>3, <2>2 DEF AreValues
    <2>4. w[k] = b * w[n] + DigitValue(Append(text, c)[k], b)  BY <1>4, <2>2 DEF AreValues
    <2>5. v[n] = w[n]  BY <1>6, <1>t
    <2>6. v[k] = w[k]  BY <1>2, <2>2, <2>3, <2>4, <2>5
    <2> QED  BY <1>t, <2>1, <2>6
  <1>7. v[L] = w[L]
    <2>1. \A k \in 0 .. L : k \in T  BY <1>5, <1>6, UpTo
    <2> QED  BY <1>t, <2>1
  <1>8. w[L + 1] = b * w[L] + DigitValue(Append(text, c)[L + 1], b)
    <2>1. L + 1 \in 0 .. L + 1 /\ L + 1 # 0 /\ (L + 1) - 1 = L  OBVIOUS
    <2> QED  BY <1>4, <2>1 DEF AreValues
  <1> QED  BY <1>2, <1>3, <1>4, <1>7, <1>8
DigitChars(b) == {Digit(d) : d \in 0 .. b - 1}

\* The sequence has the digits of m, the last one first, and no zeros in front.
DigitsOf(s, b, m) ==
    /\ s \in Seq(DigitChars(b))
    /\ s # <<>> => s[Len(s)] # "0"
    /\ s = <<>> <=> m = 0
    /\ Natural(Reversed(s), b) = m

LEMMA ReversedFacts ==
    ASSUME NEW S, NEW s \in Seq(S)
    PROVE  /\ Reversed(s) \in Seq(S) /\ Len(Reversed(s)) = Len(s)
           /\ \A i \in 1 .. Len(s) : Reversed(s)[i] = s[Len(s) + 1 - i]
  <1>1. PICK L \in Nat : L = Len(s) /\ s \in [1 .. L -> S]  BY SeqIsFunction
  <1>2. \A i \in 1 .. L : L + 1 - i \in 1 .. L  OBVIOUS
  <1>3. Reversed(s) \in [1 .. L -> S]  BY <1>1, <1>2 DEF Reversed
  <1> QED  BY <1>1, <1>3, FunctionIsSeq DEF Reversed

\* What is in front comes last.
LEMMA ReversedCons ==
    ASSUME NEW S, NEW s \in Seq(S), NEW c \in S
    PROVE  /\ <<c>> \o s \in Seq(S) /\ Len(<<c>> \o s) = Len(s) + 1
           /\ Reversed(<<c>> \o s) = Append(Reversed(s), c)
  <1>1. PICK L \in Nat : L = Len(s)  BY SeqIsFunction
  <1>2. PICK t : t = <<c>> \o s  OBVIOUS
  <1>3. /\ t \in Seq(S) /\ Len(t) = L + 1 /\ t[1] = c
        /\ \A i \in 2 .. L + 1 : t[i] = s[i - 1]
    <2>1. <<c>> \in Seq(S) /\ Len(<<c>>) = 1 /\ <<c>>[1] = c  OBVIOUS
    <2>2. \A i \in 1 .. 1 : t[i] = <<c>>[i]  BY <1>2, <2>1, CatFacts
    <2>3. \A i \in 1 + 1 .. 1 + L : t[i] = s[i - 1]  BY <1>1, <1>2, <2>1, CatFacts
    <2>4. t \in Seq(S) /\ Len(t) = 1 + L  BY <1>1, <1>2, <2>1, CatFacts
    <2> QED  BY <2>1, <2>2, <2>3, <2>4
  <1>4. /\ Reversed(t) \in Seq(S) /\ Len(Reversed(t)) = L + 1
        /\ \A i \in 1 .. L + 1 : Reversed(t)[i] = t[L + 2 - i]
    <2>1. \A i \in 1 .. L + 1 : (L + 1) + 1 - i = L + 2 - i  OBVIOUS
    <2>2. /\ Reversed(t) \in Seq(S) /\ Len(Reversed(t)) = Len(t)
          /\ \A i \in 1 .. Len(t) : Reversed(t)[i] = t[Len(t) + 1 - i]
      BY <1>3, ReversedFacts
    <2>3. Len(t) = L + 1  BY <1>3
    <2> QED  BY <2>1, <2>2, <2>3
  <1>5. /\ Reversed(s) \in Seq(S) /\ Len(Reversed(s)) = L
        /\ \A i \in 1 .. L : Reversed(s)[i] = s[L + 1 - i]
    BY <1>1, ReversedFacts
  <1>6. PICK u : u = Append(Reversed(s), c)  OBVIOUS
  <1>7. /\ u \in Seq(S) /\ Len(u) = L + 1 /\ u[L + 1] = c
        /\ \A i \in 1 .. L : u[i] = Reversed(s)[i]
    BY <1>5, <1>6
  <1>8. ASSUME NEW i \in 1 .. L + 1 PROVE Reversed(t)[i] = u[i]
    <2>1. CASE i = L + 1
      <3>1. L + 2 - i = 1  BY <2>1
      <3> QED  BY <1>3, <1>4, <1>7, <2>1, <3>1
    <2>2. CASE i # L + 1
      <3>1. PICK k \in 2 .. L + 1 : k = L + 2 - i /\ k - 1 = L + 1 - i  BY <2>2
      <3>2. i \in 1 .. L  BY <2>2
      <3>3. Reversed(t)[i] = t[k] /\ t[k] = s[k - 1]  BY <1>3, <1>4, <3>1
      <3>4. u[i] = s[k - 1]  BY <1>5, <1>7, <3>1, <3>2
      <3> QED  BY <3>3, <3>4
    <2> QED  BY <2>1, <2>2
  <1>9. Reversed(t) = u  BY <1>4, <1>7, <1>8, SameSequence
  <1> QED  BY <1>1, <1>2, <1>3, <1>6, <1>9

LEMMA NothingIsZero == ASSUME NEW b PROVE Natural(<<>>, b) = 0 /\ Reversed(<<>>) = <<>>
  <1>1. Len(<<>>) = 0 /\ 0 \in Nat  OBVIOUS
  <1>2. PICK v : AreValues(v, <<>>, b, 0) /\ Natural(<<>>, b) = v[0]  BY <1>1, NaturalIs
  <1>3. v[0] = 0
    <2>1. 0 \in 0 .. 0  OBVIOUS
    <2> QED  BY <1>2, <2>1 DEF AreValues
  <1>4. Reversed(<<>>) = <<>>  BY DEF Reversed
  <1> QED  BY <1>2, <1>3, <1>4

\* One more digit.
LEMMA DigitInFront ==
    ASSUME NEW b \in 2 .. 16, NEW s, NEW c \in Nat, DigitsOf(s, b, c),
           NEW d \in 0 .. b - 1, NEW m \in Nat \ {0}, m = b * c + d
    PROVE  DigitsOf(<<Digit(d)>> \o s, b, m)
  <1>1. s \in Seq(DigitChars(b)) /\ Digit(d) \in DigitChars(b)  BY DEF DigitsOf, DigitChars
  <1>2. PICK L \in Nat : L = Len(s)  BY <1>1, SeqIsFunction
  <1>3. PICK t : t = <<Digit(d)>> \o s  OBVIOUS
  <1>4. t \in Seq(DigitChars(b)) /\ Len(t) = L + 1 /\ Reversed(t) = Append(Reversed(s), Digit(d))
    BY <1>1, <1>2, <1>3, ReversedCons
  <1>5. Reversed(s) \in Seq(DigitChars(b))  BY <1>1, ReversedFacts
  <1>6. Natural(Reversed(t), b) = b * Natural(Reversed(s), b) + DigitValue(Digit(d), b)
    BY <1>1, <1>4, <1>5, NaturalGrows
  <1>7. Natural(Reversed(t), b) = m
    <2>1. Natural(Reversed(s), b) = c  BY DEF DigitsOf
    <2> QED  BY <1>6, <2>1, DigitValueIs
  <1>8. t # <<>>  BY <1>2, <1>4
  <1>9. t[Len(t)] # "0"
    <2>0. <<Digit(d)>> \in Seq(DigitChars(b)) /\ Len(<<Digit(d)>>) = 1  BY <1>1
    <2>1. CASE s = <<>>
      <3>1. c = 0  BY <2>1 DEF DigitsOf
      <3>2. d # 0  BY <3>1
      <3>3. Digit(d) # "0"  BY <3>2, DigitFacts
      <3>4. t = <<Digit(d)>>  BY <1>1, <1>3, <2>1
      <3> QED  BY <3>3, <3>4
    <2>2. CASE s # <<>>
      <3>1. L \in Nat \ {0}  BY <1>1, <1>2, <2>2
      <3>2. L + 1 \in 1 + 1 .. 1 + L /\ (L + 1) - 1 = L  BY <3>1
      <3>3. t[L + 1] = s[(L + 1) - 1]  BY <1>1, <1>2, <1>3, <2>0, <3>2, CatFacts
      <3>4. s[L] # "0"  BY <1>2, <2>2 DEF DigitsOf
      <3> QED  BY <1>4, <3>2, <3>3, <3>4
    <2> QED  BY <2>1, <2>2
  <1> QED  BY <1>3, <1>4, <1>7, <1>8, <1>9 DEF DigitsOf

\* The loop of itoa and utoa finds the digits of any number, of the most negative too.
LEMMA DigitsFound ==
    ASSUME NEW b \in 2 .. 16, NEW number \in Int
    PROVE  DigitsOf(DigitsReversed(number, b), b, Magnitude(number))
  <1>1. PICK M \in Nat : M = Magnitude(number) /\ number \in -M .. M  BY DEF Magnitude
  <1>2. PICK f : AreDigits(f, b, M) /\ DigitsReversed(number, b) = f[number]  BY <1>1, DigitsReversedIs
  <1>t. PICK T : T = {m \in Nat : \A n \in -M .. M : Magnitude(n) <= m => DigitsOf(f[n], b, Magnitude(n))}
    OBVIOUS
  <1>3. ASSUME NEW n \in -M .. M, n = 0 PROVE DigitsOf(f[n], b, Magnitude(n))
    <2>1. f[n] = <<>>  BY <1>2, <1>3 DEF AreDigits
    <2>2. Magnitude(n) = 0  BY <1>3 DEF Magnitude
    <2>3. <<>> \in Seq(DigitChars(b))  OBVIOUS
    <2>4. DigitsOf(<<>>, b, 0)  BY <2>3, NothingIsZero DEF DigitsOf
    <2> QED  BY <2>1, <2>2, <2>4
  <1>4. 0 \in T
    <2>1. \A n \in -M .. M : Magnitude(n) <= 0 => n = 0  BY DEF Magnitude
    <2> QED  BY <1>3, <1>t, <2>1
  <1>5. ASSUME NEW m \in 0 .. M - 1, m \in T PROVE m + 1 \in T
    <2>1. ASSUME NEW n \in -M .. M, Magnitude(n) <= m + 1, n # 0
          PROVE  DigitsOf(f[n], b, Magnitude(n))
      <3>0. n \in Int  OBVIOUS
      <3>1. PICK d \in 0 .. b - 1, q \in Int : Divided(n, b, d, q)  BY <2>1, <3>0, DivisionFacts
      <3>2. PICK c \in Nat : c = Magnitude(q)  BY <3>1 DEF Divided
      <3>3. PICK k \in Nat \ {0} : k = Magnitude(n) /\ k = b * c + d /\ c < k
        <4>1. Magnitude(n) # 0  BY <2>1 DEF Magnitude
        <4> QED  BY <3>1, <3>2, <4>1 DEF Divided
      <3>4. k <= M  BY <3>3 DEF Magnitude
      <3>5. q \in -M .. M /\ c <= m
        <4>1. c <= M /\ c <= m  BY <2>1, <3>3, <3>4
        <4> QED  BY <3>2, <4>1 DEF Magnitude
      <3>6. DigitsOf(f[q], b, c)  BY <1>5, <1>t, <3>2, <3>5
      <3>7. f[n] = <<Digit(d)>> \o f[q]  BY <1>2, <2>1, <3>1 DEF AreDigits, Divided
      <3> QED  BY <3>3, <3>6, <3>7, DigitInFront
    <2> QED  BY <1>3, <1>t, <2>1
  <1>6. M \in T
    <2>1. \A k \in 0 .. M : k \in T  BY <1>4, <1>5, UpTo
    <2> QED  BY <2>1
  <1>7. DigitsOf(f[number], b, Magnitude(number))  BY <1>1, <1>6, <1>t
  <1> QED  BY <1>2, <1>7
\* The digits in reading order are the numeral.
LEMMA NumeralReads ==
    ASSUME NEW b \in 2 .. 16, NEW s, NEW m \in Nat \ {0}, DigitsOf(s, b, m)
    PROVE  /\ Numeral(Reversed(s), b) /\ Natural(Reversed(s), b) = m
           /\ Reversed(s) \in Seq(DigitChars(b)) /\ s # <<>>
  <1>1. s \in Seq(DigitChars(b)) /\ s # <<>> /\ s[Len(s)] # "0" /\ Natural(Reversed(s), b) = m
    BY DEF DigitsOf
  <1>2. PICK L \in Nat \ {0} : L = Len(s)  BY <1>1, SeqIsFunction
  <1>3. PICK t : t = Reversed(s)  OBVIOUS
  <1>4. t \in Seq(DigitChars(b)) /\ Len(t) = L /\ t[1] = s[L]
    <2>1. 1 \in 1 .. L /\ L + 1 - 1 = L  OBVIOUS
    <2> QED  BY <1>1, <1>2, <1>3, <2>1, ReversedFacts
  <1>5. t # <<>> /\ Head(t) = t[1]  BY <1>4
  <1>6. Range(t) \subseteq DigitChars(b)  BY <1>4 DEF Range
  <1>7. Numeral(t, b)  BY <1>1, <1>2, <1>4, <1>5, <1>6 DEF Numeral, DigitChars
  <1> QED  BY <1>1, <1>3, <1>4, <1>7

LEMMA ZeroReads ==
    ASSUME NEW b \in 2 .. 16
    PROVE  Reads(<<"0">>, b, 0) /\ <<"0">> \in Seq(DigitChars(b) \union {"-"})
  <1>1. "0" = Digit(0) /\ 0 \in 0 .. b - 1 /\ "0" \in DigitChars(b)  BY DigitFacts DEF DigitChars
  <1>2. DigitValue("0", b) = 0  BY <1>1, DigitValueIs
  <1>3. <<>> \in Seq(DigitChars(b)) /\ Append(<<>>, "0") = <<"0">>  OBVIOUS
  <1>4. Natural(<<"0">>, b) = b * Natural(<<>>, b) + DigitValue("0", b)
    <2>1. PICK none, S : none = <<>> /\ S = DigitChars(b) /\ none \in Seq(S) /\ "0" \in S
      BY <1>1, <1>3
    <2>2. Natural(Append(none, "0"), b) = b * Natural(none, b) + DigitValue("0", b)
      BY <2>1, NaturalGrows
    <2> QED  BY <1>3, <2>1, <2>2
  <1>5. Natural(<<"0">>, b) = 0  BY <1>2, <1>4, NothingIsZero
  <1>6. Numeral(<<"0">>, b)
    <2>1. Len(<<"0">>) = 1 /\ <<"0">> # <<>> /\ Range(<<"0">>) = {"0"}  BY DEF Range
    <2> QED  BY <1>1, <2>1 DEF Numeral, DigitChars
  <1>7. <<"0">> \in Seq(DigitChars(b) \union {"-"})  BY <1>1
  <1> QED  BY <1>5, <1>6, <1>7 DEF Reads

\* utoa writes the numeral of any number that is not negative.
LEMMA utoaReads ==
    ASSUME NEW b \in 2 .. 16, NEW n \in Nat
    PROVE  Reads(utoa(n, b), b, n) /\ utoa(n, b) \in Seq(DigitChars(b) \union {"-"})
  <1>1. CASE n = 0  BY <1>1, ZeroReads DEF utoa
  <1>2. CASE n # 0
    <2>1. n \in Int /\ n \in Nat \ {0} /\ Magnitude(n) = n  BY <1>2 DEF Magnitude
    <2>2. PICK s : s = DigitsReversed(n, b)  OBVIOUS
    <2>3. DigitsOf(s, b, n)  BY <2>1, <2>2, DigitsFound
    <2>4. s \in Seq(DigitChars(b))  BY <2>3 DEF DigitsOf
    <2>5. utoa(n, b) = Reversed(s)  BY <1>2, <2>2, <2>4, StrrevReverses DEF utoa
    <2>6. /\ Numeral(Reversed(s), b) /\ Natural(Reversed(s), b) = n
          /\ Reversed(s) \in Seq(DigitChars(b))
      BY <2>1, <2>3, NumeralReads
    <2>7. Reversed(s) \in Seq(DigitChars(b) \union {"-"})  BY <2>6
    <2>8. ~(n < 0)  OBVIOUS
    <2> QED  BY <2>5, <2>6, <2>7, <2>8 DEF Reads
  <1> QED  BY <1>1, <1>2

\* itoa writes the numeral of any number, with the sign of a negative one in front.
LEMMA itoaReads ==
    ASSUME NEW b \in 2 .. 16, NEW n \in Int
    PROVE  Reads(itoa(n, b), b, n) /\ itoa(n, b) \in Seq(DigitChars(b) \union {"-"})
  <1>1. CASE n = 0  BY <1>1, ZeroReads DEF itoa
  <1>2. CASE n > 0
    <2>1. n \in Nat  BY <1>2
    <2>2. itoa(n, b) = utoa(n, b)
      <3>1. n # 0 /\ ~(n < 0)  BY <1>2
      <3>2. DigitsReversed(n, b) \in Seq(DigitChars(b))  BY DigitsFound DEF DigitsOf
      <3>3. DigitsReversed(n, b) \o <<>> = DigitsReversed(n, b)  BY <3>2
      <3> QED  BY <3>1, <3>3 DEF itoa, utoa
    <2> QED  BY <2>1, <2>2, utoaReads
  <1>3. CASE n < 0
    <2>1. PICK m \in Nat \ {0} : m = -n /\ Magnitude(n) = m  BY <1>3 DEF Magnitude
    <2>2. PICK s : s = DigitsReversed(n, b)  OBVIOUS
    <2>3. DigitsOf(s, b, m)  BY <2>1, <2>2, DigitsFound
    <2>4. PICK S : S = DigitChars(b) \union {"-"}  OBVIOUS
    <2>5. s \in Seq(DigitChars(b)) /\ s \in Seq(S) /\ <<"-">> \in Seq(S)
      <3>1. s \in Seq(DigitChars(b))  BY <2>3 DEF DigitsOf
      <3> QED  BY <2>4, <3>1
    <2>6. PICK t : t = s \o <<"-">>  OBVIOUS
    <2>7. PICK L \in Nat : L = Len(s)  BY <2>5, SeqIsFunction
    <2>8. /\ t \in Seq(S) /\ Len(t) = L + 1 /\ t[L + 1] = "-"
          /\ \A i \in 1 .. L : t[i] = s[i]
      BY <2>5, <2>6, <2>7
    <2>9. itoa(n, b) = Reversed(t)
      <3>1. n # 0  BY <1>3
      <3>2. itoa(n, b) = strrev(t)  BY <1>3, <2>2, <2>6, <3>1 DEF itoa
      <3> QED  BY <2>8, <3>2, StrrevReverses
    <2>10. PICK u : u = Reversed(t)  OBVIOUS
    <2>11. /\ u \in Seq(S) /\ Len(u) = L + 1
           /\ \A i \in 1 .. L + 1 : u[i] = t[(L + 1) + 1 - i]
      BY <2>8, <2>10, ReversedFacts
    <2>12. u # <<>> /\ Head(u) = "-"
      <3>1. 1 \in 1 .. L + 1 /\ (L + 1) + 1 - 1 = L + 1  OBVIOUS
      <3>2. u[1] = "-"  BY <2>8, <2>11, <3>1
      <3> QED  BY <2>11, <3>2
    <2>13. Tail(u) = Reversed(s)
      <3>1. Tail(u) \in Seq(S) /\ Len(Tail(u)) = L /\ \A i \in 1 .. L : Tail(u)[i] = u[i + 1]
        BY <2>11
      <3>2. /\ Reversed(s) \in Seq(S) /\ Len(Reversed(s)) = L
            /\ \A i \in 1 .. L : Reversed(s)[i] = s[L + 1 - i]
        BY <2>5, <2>7, ReversedFacts
      <3>3. ASSUME NEW i \in 1 .. L PROVE Tail(u)[i] = Reversed(s)[i]
        <4>1. i + 1 \in 1 .. L + 1 /\ (L + 1) + 1 - (i + 1) = L + 1 - i /\ L + 1 - i \in 1 .. L  OBVIOUS
        <4>2. u[i + 1] = t[L + 1 - i]  BY <2>11, <4>1
        <4> QED  BY <2>8, <3>1, <3>2, <4>1, <4>2
      <3> QED  BY <3>1, <3>2, <3>3, SameSequence
    <2>14. Numeral(Tail(u), b) /\ Natural(Tail(u), b) = -n
      BY <2>1, <2>3, <2>13, NumeralReads
    <2>15. Reads(u, b, n)  BY <1>3, <2>12, <2>14 DEF Reads
    <2> QED  BY <2>4, <2>9, <2>10, <2>11, <2>15
  <1> QED  BY <1>1, <1>2, <1>3

-----------------------------------------------------------------------------
(* Texts of any characters.                                                *)

IsText(s) == \E S : s \in Seq(S)

LEMMA TextFacts ==
    ASSUME NEW s, IsText(s)
    PROVE  /\ Len(s) \in Nat
           /\ s \o <<>> = s /\ <<>> \o s = s
           /\ \A x : Append(s, x) = s \o <<x>> /\ IsText(Append(s, x))
           /\ s # <<>> => IsText(Tail(s))
  <1>1. PICK S : s \in Seq(S)  BY DEF IsText
  <1>2. s \o <<>> = s /\ <<>> \o s = s /\ Len(s) \in Nat  BY <1>1
  <1>3. ASSUME NEW x PROVE Append(s, x) = s \o <<x>> /\ IsText(Append(s, x))
    <2>1. PICK U : U = S \union {x}  OBVIOUS
    <2>2. s \in Seq(U) /\ x \in U  BY <1>1, <2>1
    <2>3. Append(s, x) \in Seq(U) /\ Append(s, x) = s \o <<x>>  BY <2>2
    <2> QED  BY <2>3 DEF IsText
  <1>4. s # <<>> => Tail(s) \in Seq(S)  BY <1>1
  <1> QED  BY <1>2, <1>3, <1>4 DEF IsText

LEMMA ShortText == IsText(<<>>) /\ \A x : IsText(<<x>>)
  <1>1. <<>> \in Seq({})  OBVIOUS
  <1>2. \A x : <<x>> \in Seq({x})  OBVIOUS
  <1> QED  BY <1>1, <1>2 DEF IsText

LEMMA CatText ==
    ASSUME NEW s, NEW t, IsText(s), IsText(t)
    PROVE  /\ IsText(s \o t) /\ Len(s \o t) = Len(s) + Len(t)
           /\ \A i \in 1 .. Len(s) : (s \o t)[i] = s[i]
           /\ \A i \in 1 .. Len(t) : (s \o t)[Len(s) + i] = t[i]
           /\ s # <<>> => /\ s \o t # <<>> /\ Head(s \o t) = Head(s)
                          /\ Tail(s \o t) = Tail(s) \o t
  <1>1. PICK S1 : s \in Seq(S1)  BY DEF IsText
  <1>2. PICK S2 : t \in Seq(S2)  BY DEF IsText
  <1>3. PICK U : U = S1 \union S2  OBVIOUS
  <1>4. s \in Seq(U) /\ t \in Seq(U)  BY <1>1, <1>2, <1>3
  <1>5. PICK L \in Nat, K \in Nat : L = Len(s) /\ K = Len(t)  BY <1>4, SeqIsFunction
  <1>6. PICK r : r = s \o t  OBVIOUS
  <1>7. /\ r \in Seq(U) /\ Len(r) = L + K
        /\ \A i \in 1 .. L : r[i] = s[i]
        /\ \A i \in L + 1 .. L + K : r[i] = t[i - L]
    BY <1>4, <1>5, <1>6, CatFacts
  <1>8. \A i \in 1 .. K : r[L + i] = t[i]
    <2> TAKE i \in 1 .. K
    <2>1. L + i \in L + 1 .. L + K /\ (L + i) - L = i  OBVIOUS
    <2> QED  BY <1>7, <2>1
  <1>9. ASSUME s # <<>>
        PROVE  r # <<>> /\ Head(r) = Head(s) /\ Tail(r) = Tail(s) \o t
    <2>1. L \in Nat \ {0} /\ 1 \in 1 .. L  BY <1>4, <1>5, <1>9
    <2>2. r # <<>>  BY <1>7, <2>1
    <2>3. Head(r) = r[1] /\ Head(s) = s[1]  BY <1>4, <1>7, <1>9, <2>2
    <2>4. PICK u : u = Tail(s)  OBVIOUS
    <2>5. u \in Seq(U) /\ Len(u) = L - 1 /\ \A i \in 1 .. L - 1 : u[i] = s[i + 1]
      BY <1>4, <1>5, <1>9, <2>4
    <2>6. Tail(r) \in Seq(U) /\ Len(Tail(r)) = L + K - 1 /\ \A i \in 1 .. L + K - 1 : Tail(r)[i] = r[i + 1]
      BY <1>7, <2>2
    <2>j. PICK J \in Nat : J = L - 1  BY <2>1
    <2>7. /\ u \o t \in Seq(U) /\ Len(u \o t) = J + K
          /\ \A i \in 1 .. J : (u \o t)[i] = u[i]
          /\ \A i \in J + 1 .. J + K : (u \o t)[i] = t[i - J]
      <3>1. Len(u) = J /\ u \in Seq(U) /\ Len(t) = K  BY <1>5, <2>5, <2>j
      <3> QED  BY <1>4, <3>1, CatFacts
    <2>8. ASSUME NEW i \in 1 .. L + K - 1 PROVE Tail(r)[i] = (u \o t)[i]
      <3>1. CASE i \in 1 .. J
        <4>1. i + 1 \in 1 .. L  BY <2>j, <3>1
        <4> QED  BY <1>7, <2>5, <2>6, <2>7, <2>j, <3>1, <4>1
      <3>2. CASE i \notin 1 .. J
        <4>1. /\ i + 1 \in L + 1 .. L + K /\ (i + 1) - L = i - J
              /\ i \in J + 1 .. J + K
          BY <2>1, <2>j, <3>2
        <4> QED  BY <1>7, <2>6, <2>7, <4>1
      <3> QED  BY <3>1, <3>2
    <2>9. Len(Tail(r)) = Len(u \o t)  BY <2>1, <2>6, <2>7, <2>j
    <2>10. Tail(r) = u \o t  BY <2>6, <2>7, <2>8, <2>9, SameSequence
    <2> QED  BY <1>7, <2>1, <2>2, <2>3, <2>4, <2>10
  <1> QED  BY <1>5, <1>6, <1>7, <1>8, <1>9 DEF IsText

Associative(s, t, u) == (s \o t) \o u = s \o (t \o u)

LEMMA CatAssociative ==
    ASSUME NEW s, NEW t, NEW u, IsText(s), IsText(t), IsText(u)
    PROVE  Associative(s, t, u)
  <1>1. PICK S1, S2, S3 : s \in Seq(S1) /\ t \in Seq(S2) /\ u \in Seq(S3)  BY DEF IsText
  <1>2. PICK U : U = S1 \union S2 \union S3  OBVIOUS
  <1>3. s \in Seq(U) /\ t \in Seq(U) /\ u \in Seq(U)  BY <1>1, <1>2
  <1> QED  BY <1>3 DEF Associative

\* A conversion writes a text.
LEMMA ConvertedText ==
    ASSUME NEW c \in Conversions, NEW arg, Fits(c, arg), NEW prefix
    PROVE  IsText(Converted(c, arg, prefix))
  <1>1. ASSUME NEW n \in Int, NEW b \in 2 .. 16 PROVE IsText(itoa(n, b))
    BY itoaReads DEF IsText
  <1>2. ASSUME NEW n \in Nat, NEW b \in 2 .. 16 PROVE IsText(utoa(n, b))
    BY utoaReads DEF IsText
  <1>3. ASSUME NEW n \in Int
        PROVE  Unsigned(n, IntHalf) \in Nat /\ Unsigned(n, LongHalf) \in Nat /\ Signed(n) \in Int
    BY HalvesAssumption DEF Unsigned, Signed
  <1>4. CASE c = "c"  BY <1>4, ShortText DEF Converted
  <1>5. CASE c = "s"
    <2>1. IsText(arg)  BY <1>5 DEF Fits, IsSequence, IsText
    <2> QED  BY <1>5, <2>1 DEF Converted
  <1>6. CASE c \in Conversions \ {"c", "s"}
    <2>0. arg \in Int  BY <1>6 DEF Fits
    <2>1. 8 \in 2 .. 16 /\ 10 \in 2 .. 16 /\ 16 \in 2 .. 16  OBVIOUS
    <2>2. /\ IsText(itoa(Signed(arg), 10)) /\ IsText(utoa(Unsigned(arg, IntHalf), 10))
          /\ IsText(utoa(Unsigned(arg, IntHalf), 8)) /\ IsText(utoa(Unsigned(arg, IntHalf), 16))
          /\ IsText(utoa(Unsigned(arg, LongHalf), 16))
      BY <1>1, <1>2, <1>3, <2>0, <2>1
    <2>3. IsText(<<prefix>>) /\ IsText(<<"0", "x">>) /\ IsText(<<>>)
      <3>1. <<"0", "x">> \in Seq({"0", "x"})  OBVIOUS
      <3> QED  BY <3>1, ShortText DEF IsText
    <2>4. CASE c \in {"d", "i"}
      <3>1. PICK front : /\ front = (IF prefix # NUL /\ Signed(arg) >= 0 THEN <<prefix>> ELSE <<>>)
                         /\ IsText(front)
        BY <2>3
      <3>2. Converted(c, arg, prefix) = front \o itoa(Signed(arg), 10)  BY <2>4, <3>1 DEF Converted
      <3> QED  BY <2>2, <3>1, <3>2, CatText
    <2>5. CASE c = "u"
      <3>1. Converted(c, arg, prefix) = <<prefix>> \o utoa(Unsigned(arg, IntHalf), 10)
        BY <2>5 DEF Converted
      <3> QED  BY <2>2, <2>3, <3>1, CatText
    <2>6. CASE c = "o"  BY <2>2, <2>6 DEF Converted
    <2>7. CASE c = "x"  BY <2>2, <2>7 DEF Converted
    <2>8. CASE c = "p"
      <3>1. Converted(c, arg, prefix) = <<"0", "x">> \o utoa(Unsigned(arg, LongHalf), 16)
        BY <2>8 DEF Converted
      <3> QED  BY <2>2, <2>3, <3>1, CatText
    <2> QED  BY <1>6, <2>4, <2>5, <2>6, <2>7, <2>8 DEF Conversions
  <1> QED  BY <1>4, <1>5, <1>6 DEF Conversions

-----------------------------------------------------------------------------
(* One character of a format string.                                       *)

\* What the loops of log_formated_str and printf keep, and printf a little more.
IsFormat(s) == /\ {"state", "prefix", "args", "out"} \subseteq DOMAIN s
               /\ s = [f \in DOMAIN s |-> s[f]]

\* The cases of the loop's switch.
LEMMA FormatStepIs ==
    ASSUME NEW s, NEW c
    PROVE  /\ s.state = "normal" /\ c = "%" =>
                FormatStep(s, c) = [s EXCEPT !.state = "format", !.prefix = NUL]
           /\ s.state = "normal" /\ c # "%" => FormatStep(s, c) = [s EXCEPT !.out = Append(s.out, c)]
           /\ s.state = "format" /\ c = "%" =>
                FormatStep(s, c) = [s EXCEPT !.state = "normal", !.out = Append(s.out, "%")]
           /\ s.state = "format" /\ c \in Flags => FormatStep(s, c) = [s EXCEPT !.prefix = c]
           /\ s.state = "format" /\ c \in Conversions =>
                FormatStep(s, c) = [s EXCEPT !.state = "normal", !.args = Tail(s.args),
                                             !.out = s.out \o Converted(c, Head(s.args), s.prefix)]
  <1>1. "%" \notin Flags \union Conversions /\ Flags \cap Conversions = {}
    BY DEF Flags, Conversions
  <1>2. s.state = "normal" /\ c = "%" =>
          FormatStep(s, c) = [s EXCEPT !.state = "format", !.prefix = NUL]
    BY <1>1 DEF FormatStep
  <1>3. s.state = "normal" /\ c # "%" => FormatStep(s, c) = [s EXCEPT !.out = Append(s.out, c)]
    BY <1>1 DEF FormatStep
  <1>4. s.state = "format" /\ c = "%" =>
          FormatStep(s, c) = [s EXCEPT !.state = "normal", !.out = Append(s.out, "%")]
    BY <1>1 DEF FormatStep
  <1>5. s.state = "format" /\ c \in Flags => FormatStep(s, c) = [s EXCEPT !.prefix = c]
    BY <1>1 DEF FormatStep
  <1>6. s.state = "format" /\ c \in Conversions =>
          FormatStep(s, c) = [s EXCEPT !.state = "normal", !.args = Tail(s.args),
                                       !.out = s.out \o Converted(c, Head(s.args), s.prefix)]
    BY <1>1 DEF FormatStep
  <1> QED  BY <1>2, <1>3, <1>4, <1>5, <1>6

\* t is s with these four fields.
Becomes(t, s, state, prefix, args, out) ==
    /\ IsFormat(t) /\ DOMAIN t = DOMAIN s
    /\ t.state = state /\ t.prefix = prefix /\ t.args = args /\ t.out = out
    /\ \A f \in DOMAIN s \ {"state", "prefix", "args", "out"} : t[f] = s[f]

\* What one character does to a message that is served.
LEMMA FormatStepDoes ==
    ASSUME NEW s, IsFormat(s), NEW c
    PROVE  /\ s.state = "normal" /\ c = "%" =>
                Becomes(FormatStep(s, c), s, "format", NUL, s.args, s.out)
           /\ s.state = "normal" /\ c # "%" =>
                Becomes(FormatStep(s, c), s, "normal", s.prefix, s.args, Append(s.out, c))
           /\ s.state = "format" /\ c = "%" =>
                Becomes(FormatStep(s, c), s, "normal", s.prefix, s.args, Append(s.out, "%"))
           /\ s.state = "format" /\ c \in Flags =>
                Becomes(FormatStep(s, c), s, "format", c, s.args, s.out)
           /\ s.state = "format" /\ c \in Conversions =>
                Becomes(FormatStep(s, c), s, "normal", s.prefix, Tail(s.args),
                        s.out \o Converted(c, Head(s.args), s.prefix))
  <1>3. ASSUME s.state = "normal", c = "%"
        PROVE  Becomes(FormatStep(s, c), s, "format", NUL, s.args, s.out)
    <2>1. FormatStep(s, c) = [s EXCEPT !.state = "format", !.prefix = NUL]  BY <1>3, FormatStepIs
    <2> QED  BY <2>1 DEF IsFormat, Becomes
  <1>4. ASSUME s.state = "normal", c # "%"
        PROVE  Becomes(FormatStep(s, c), s, "normal", s.prefix, s.args, Append(s.out, c))
    <2>1. FormatStep(s, c) = [s EXCEPT !.out = Append(s.out, c)]  BY <1>4, FormatStepIs
    <2>2. PICK out : out = Append(s.out, c)  OBVIOUS
    <2> QED  BY <1>4, <2>1, <2>2 DEF IsFormat, Becomes
  <1>5. ASSUME s.state = "format", c = "%"
        PROVE  Becomes(FormatStep(s, c), s, "normal", s.prefix, s.args, Append(s.out, "%"))
    <2>1. PICK out : out = Append(s.out, "%")  OBVIOUS
    <2>2. FormatStep(s, c) = [s EXCEPT !.state = "normal", !.out = out]  BY <1>5, <2>1, FormatStepIs
    <2> QED  BY <2>1, <2>2 DEF IsFormat, Becomes
  <1>6. ASSUME s.state = "format", c \in Flags
        PROVE  Becomes(FormatStep(s, c), s, "format", c, s.args, s.out)
    <2>1. FormatStep(s, c) = [s EXCEPT !.prefix = c]  BY <1>6, FormatStepIs
    <2> QED  BY <1>6, <2>1 DEF IsFormat, Becomes
  <1>7. ASSUME s.state = "format", c \in Conversions
        PROVE  Becomes(FormatStep(s, c), s, "normal", s.prefix, Tail(s.args),
                       s.out \o Converted(c, Head(s.args), s.prefix))
    <2>1. PICK out, args : out = s.out \o Converted(c, Head(s.args), s.prefix) /\ args = Tail(s.args)
      OBVIOUS
    <2>2. FormatStep(s, c) = [s EXCEPT !.state = "normal", !.args = args, !.out = out]
      BY <1>7, <2>1, FormatStepIs
    <2> QED  BY <2>1, <2>2 DEF IsFormat, Becomes
  <1> QED  BY <1>3, <1>4, <1>5, <1>6, <1>7

\* What is written for a message stands in another one: behind before, with the arguments
\* for what comes after it behind its own. A flag is of interest inside of a
\* specifier only.
Within(big, s, before, after) ==
    /\ IsFormat(big) /\ IsFormat(s) /\ IsText(s.args) /\ IsText(s.out)
    /\ s.state \in {"normal", "format"}
    /\ big.state = s.state
    /\ s.state = "format" => big.prefix = s.prefix
    /\ big.args = s.args \o after
    /\ big.out = before \o s.out

\* big became r and s became t: one text was added to both, and what log_formated_str
\* does not have is as it was.
BothStep(big, s, r, t, before, after) ==
    /\ Within(r, t, before, after)
    /\ \E x : IsText(x) /\ t.out = s.out \o x /\ r.out = big.out \o x
    /\ \A f \in DOMAIN s \ {"state", "prefix", "args", "out"} : t[f] = s[f]
    /\ \A f \in DOMAIN big \ {"state", "prefix", "args", "out"} : r[f] = big[f]
    /\ DOMAIN t = DOMAIN s /\ DOMAIN r = DOMAIN big

\* A character does the same to both.
LEMMA StepWithin ==
    ASSUME NEW big, NEW s, NEW before, NEW after, IsText(before), IsText(after),
           Within(big, s, before, after), NEW c, Served(s, c)
    PROVE  BothStep(big, s, FormatStep(big, c), FormatStep(s, c), before, after)
  <1>1. /\ IsFormat(big) /\ IsFormat(s) /\ IsText(s.args) /\ IsText(s.out)
        /\ s.state \in {"normal", "format"} /\ big.state = s.state
        /\ s.state = "format" => big.prefix = s.prefix
        /\ big.args = s.args \o after /\ big.out = before \o s.out
    BY DEF Within
  <1>2. PICK t : t = FormatStep(s, c)  OBVIOUS
  <1>3. PICK r : r = FormatStep(big, c)  OBVIOUS
  <1>4. IsText(big.out)  BY <1>1, CatText
  <1>5. ASSUME NEW x, IsText(x), NEW state \in {"normal", "format"}, NEW prefix, NEW prefix2, NEW args,
               IsText(args), state = "format" => prefix2 = prefix,
               Becomes(t, s, state, prefix, args, s.out \o x),
               Becomes(r, big, state, prefix2, args \o after, big.out \o x)
        PROVE  BothStep(big, s, r, t, before, after)
    <2>1. /\ IsFormat(t) /\ DOMAIN t = DOMAIN s /\ t.state = state /\ t.prefix = prefix /\ t.args = args
          /\ t.out = s.out \o x
          /\ \A f \in DOMAIN s \ {"state", "prefix", "args", "out"} : t[f] = s[f]
      BY <1>5 DEF Becomes
    <2>2. /\ IsFormat(r) /\ DOMAIN r = DOMAIN big /\ r.state = state /\ r.prefix = prefix2
          /\ r.args = args \o after /\ r.out = big.out \o x
          /\ \A f \in DOMAIN big \ {"state", "prefix", "args", "out"} : r[f] = big[f]
      BY <1>5 DEF Becomes
    <2>3. IsText(t.out)  BY <1>1, <1>5, <2>1, CatText
    <2>4. r.out = before \o t.out
      <3>1. IsText(s.out) /\ IsText(x)  BY <1>1, <1>5
      <3>2. Associative(before, s.out, x)  BY <3>1, CatAssociative
      <3>3. r.out = (before \o s.out) \o x  BY <1>1, <2>2
      <3>4. t.out = s.out \o x  BY <2>1
      <3> QED  BY <3>2, <3>3, <3>4 DEF Associative
    <2>5. Within(r, t, before, after)  BY <1>5, <2>1, <2>2, <2>3, <2>4 DEF Within
    <2>6. \E y : IsText(y) /\ t.out = s.out \o y /\ r.out = big.out \o y  BY <1>5, <2>1, <2>2
    <2> QED  BY <2>1, <2>2, <2>5, <2>6 DEF BothStep
  <1>6. IsText(<<>>) /\ s.out = s.out \o <<>> /\ big.out = big.out \o <<>>
    BY <1>1, <1>4, ShortText, TextFacts
  <1>7. \A x : /\ IsText(<<x>>) /\ Append(s.out, x) = s.out \o <<x>>
               /\ Append(big.out, x) = big.out \o <<x>>
    BY <1>1, <1>4, ShortText, TextFacts
  <1>8. CASE s.state = "normal" /\ c = "%"
    <2>1. Becomes(t, s, "format", NUL, s.args, s.out \o <<>>)  BY <1>1, <1>2, <1>6, <1>8, FormatStepDoes
    <2>2. Becomes(r, big, "format", NUL, s.args \o after, big.out \o <<>>)
      BY <1>1, <1>3, <1>6, <1>8, FormatStepDoes
    <2> QED  BY <1>1, <1>2, <1>3, <1>5, <1>6, <2>1, <2>2
  <1>9. CASE s.state = "normal" /\ c # "%"
    <2>1. Becomes(t, s, "normal", s.prefix, s.args, s.out \o <<c>>)
      BY <1>1, <1>2, <1>7, <1>9, FormatStepDoes
    <2>2. Becomes(r, big, "normal", big.prefix, s.args \o after, big.out \o <<c>>)
      BY <1>1, <1>3, <1>7, <1>9, FormatStepDoes
    <2>3. "normal" # "format"  OBVIOUS
    <2> QED  BY <1>1, <1>2, <1>3, <1>5, <1>7, <2>1, <2>2, <2>3
  <1>10. CASE s.state = "format" /\ c = "%"
    <2>1. Becomes(t, s, "normal", s.prefix, s.args, s.out \o <<"%">>)
      BY <1>1, <1>2, <1>7, <1>10, FormatStepDoes
    <2>2. Becomes(r, big, "normal", big.prefix, s.args \o after, big.out \o <<"%">>)
      BY <1>1, <1>3, <1>7, <1>10, FormatStepDoes
    <2> QED  BY <1>1, <1>2, <1>3, <1>5, <1>7, <1>10, <2>1, <2>2
  <1>11. CASE s.state = "format" /\ c \in Flags
    <2>1. Becomes(t, s, "format", c, s.args, s.out \o <<>>)
      BY <1>1, <1>2, <1>6, <1>11, FormatStepDoes
    <2>2. Becomes(r, big, "format", c, s.args \o after, big.out \o <<>>)
      BY <1>1, <1>3, <1>6, <1>11, FormatStepDoes
    <2> QED  BY <1>1, <1>2, <1>3, <1>5, <1>6, <2>1, <2>2
  <1>12. CASE s.state = "format" /\ c \in Conversions /\ s.args # <<>> /\ Fits(c, Head(s.args))
    <2>1. /\ Head(big.args) = Head(s.args) /\ Tail(big.args) = Tail(s.args) \o after
          /\ IsText(Tail(s.args))
      <3>1. PICK a : a = s.args  OBVIOUS
      <3>2. IsText(a) /\ a # <<>>  BY <1>1, <1>12, <3>1
      <3>3. Head(a \o after) = Head(a) /\ Tail(a \o after) = Tail(a) \o after  BY <3>2, CatText
      <3>4. IsText(Tail(a))  BY <3>2, TextFacts
      <3> QED  BY <1>1, <3>1, <3>3, <3>4
    <2>2. PICK x : x = Converted(c, Head(s.args), s.prefix)  OBVIOUS
    <2>3. IsText(x)  BY <1>12, <2>2, ConvertedText
    <2>4. Becomes(t, s, "normal", s.prefix, Tail(s.args), s.out \o x)
      BY <1>1, <1>2, <1>12, <2>2, FormatStepDoes
    <2>5. Becomes(r, big, "normal", big.prefix, Tail(big.args), big.out \o x)
      <3>1. big.state = "format" /\ Converted(c, Head(big.args), big.prefix) = x
        BY <1>1, <1>12, <2>1, <2>2
      <3> QED  BY <1>1, <1>3, <1>12, <3>1, FormatStepDoes
    <2>6. Becomes(r, big, "normal", big.prefix, Tail(s.args) \o after, big.out \o x)  BY <2>1, <2>5
    <2> QED  BY <1>2, <1>3, <1>5, <1>12, <2>1, <2>3, <2>4, <2>6
  <1>13. \/ s.state = "normal"
         \/ s.state = "format" /\ (c = "%" \/ c \in Flags)
         \/ s.state = "format" /\ c \in Conversions /\ s.args # <<>> /\ Fits(c, Head(s.args))
    BY <1>1 DEF Served
  <1> QED  BY <1>8, <1>9, <1>10, <1>11, <1>12, <1>13

-----------------------------------------------------------------------------
(* The loops over a format string.                                         *)

AreFormats(after, str, args, n) ==
    after = [i \in 0 .. n |-> IF i = 0 THEN Begin(args) ELSE FormatStep(after[i - 1], str[i])]

\* The loop of log_formated_str can be run for any number of characters.
LEMMA FormatsExist ==
    ASSUME NEW str, NEW args, NEW N \in Nat
    PROVE  \E after : AreFormats(after, str, args, N)
  <1>t. PICK T : T = {n \in Nat : \E p : AreFormats(p, str, args, n)}  OBVIOUS
  <1>1. 0 \in T
    <2>1. AreFormats([k \in 0 .. 0 |-> Begin(args)], str, args, 0)  BY DEF AreFormats
    <2> QED  BY <1>t, <2>1
  <1>2. ASSUME NEW n \in 0 .. N - 1, n \in T PROVE n + 1 \in T
    <2>1. PICK p : AreFormats(p, str, args, n)  BY <1>2, <1>t
    <2>2. PICK q : q = [k \in 0 .. n + 1 |-> IF k = n + 1 THEN FormatStep(p[n], str[n + 1]) ELSE p[k]]
      OBVIOUS
    <2>3. ASSUME NEW k \in 0 .. n + 1
          PROVE  q[k] = IF k = 0 THEN Begin(args) ELSE FormatStep(q[k - 1], str[k])
      <3>1. CASE k = n + 1
        <4>1. k # 0 /\ k - 1 = n /\ n \in 0 .. n + 1 /\ n # n + 1  BY <3>1
        <4>2. q[k] = FormatStep(p[n], str[n + 1]) /\ q[k - 1] = p[n]  BY <2>2, <3>1, <4>1
        <4> QED  BY <3>1, <4>1, <4>2
      <3>2. CASE k # n + 1
        <4>1. k \in 0 .. n  BY <3>2
        <4>2. p[k] = IF k = 0 THEN Begin(args) ELSE FormatStep(p[k - 1], str[k])
          BY <2>1, <4>1 DEF AreFormats
        <4>3. q[k] = p[k]  BY <2>2, <3>2
        <4>4. k # 0 => q[k - 1] = p[k - 1]  BY <2>2, <4>1
        <4> QED  BY <4>2, <4>3, <4>4
      <3> QED  BY <3>1, <3>2
    <2>4. AreFormats(q, str, args, n + 1)  BY <2>2, <2>3 DEF AreFormats
    <2> QED  BY <1>t, <2>4
  <1>3. N \in T  BY <1>1, <1>2, UpTo
  <1> QED  BY <1>3, <1>t

\* log_formated_str takes one character after the other.
LEMMA FormatLoopIs ==
    ASSUME NEW str, NEW args, NEW N \in Nat, N = Len(str)
    PROVE  /\ FormatLoop(str, args)[0] = Begin(args)
           /\ \A n \in 0 .. N - 1 : FormatLoop(str, args)[n + 1]
                                        = FormatStep(FormatLoop(str, args)[n], str[n + 1])
  <1>1. PICK p : AreFormats(p, str, args, N)  BY FormatsExist
  <1>2. PICK after : AreFormats(after, str, args, N) /\ FormatLoop(str, args) = after
    BY <1>1, Zenon DEF FormatLoop, AreFormats
  <1>3. 0 \in 0 .. N  OBVIOUS
  <1>4. after[0] = Begin(args)  BY <1>2, <1>3 DEF AreFormats
  <1>5. ASSUME NEW n \in 0 .. N - 1 PROVE after[n + 1] = FormatStep(after[n], str[n + 1])
    <2>1. n + 1 \in 0 .. N /\ n + 1 # 0 /\ (n + 1) - 1 = n  OBVIOUS
    <2>2. after[n + 1] = FormatStep(after[(n + 1) - 1], str[n + 1])  BY <1>2, <2>1 DEF AreFormats
    <2> QED  BY <2>1, <2>2
  <1> QED  BY <1>2, <1>4, <1>5

ArePrints(after, str, args, n) ==
    after = [i \in 0 .. n |-> IF i = 0 THEN BeginPrintf(args) ELSE PrintfStep(after[i - 1], str[i])]

\* The same of printf's loop.
LEMMA PrintsExist ==
    ASSUME NEW str, NEW args, NEW N \in Nat
    PROVE  \E after : ArePrints(after, str, args, N)
  <1>t. PICK T : T = {n \in Nat : \E p : ArePrints(p, str, args, n)}  OBVIOUS
  <1>1. 0 \in T
    <2>1. ArePrints([k \in 0 .. 0 |-> BeginPrintf(args)], str, args, 0)  BY DEF ArePrints
    <2> QED  BY <1>t, <2>1
  <1>2. ASSUME NEW n \in 0 .. N - 1, n \in T PROVE n + 1 \in T
    <2>1. PICK p : ArePrints(p, str, args, n)  BY <1>2, <1>t
    <2>2. PICK q : q = [k \in 0 .. n + 1 |-> IF k = n + 1 THEN PrintfStep(p[n], str[n + 1]) ELSE p[k]]
      OBVIOUS
    <2>3. ASSUME NEW k \in 0 .. n + 1
          PROVE  q[k] = IF k = 0 THEN BeginPrintf(args) ELSE PrintfStep(q[k - 1], str[k])
      <3>1. CASE k = n + 1
        <4>1. k # 0 /\ k - 1 = n /\ n \in 0 .. n + 1 /\ n # n + 1  BY <3>1
        <4>2. q[k] = PrintfStep(p[n], str[n + 1]) /\ q[k - 1] = p[n]  BY <2>2, <3>1, <4>1
        <4> QED  BY <3>1, <4>1, <4>2
      <3>2. CASE k # n + 1
        <4>1. k \in 0 .. n  BY <3>2
        <4>2. p[k] = IF k = 0 THEN BeginPrintf(args) ELSE PrintfStep(p[k - 1], str[k])
          BY <2>1, <4>1 DEF ArePrints
        <4>3. q[k] = p[k]  BY <2>2, <3>2
        <4>4. k # 0 => q[k - 1] = p[k - 1]  BY <2>2, <4>1
        <4> QED  BY <4>2, <4>3, <4>4
      <3> QED  BY <3>1, <3>2
    <2>4. ArePrints(q, str, args, n + 1)  BY <2>2, <2>3 DEF ArePrints
    <2> QED  BY <1>t, <2>4
  <1>3. N \in T  BY <1>1, <1>2, UpTo
  <1> QED  BY <1>3, <1>t

PrintfLoop(after, str, args, N) ==
    /\ after[0] = BeginPrintf(args)
    /\ \A n \in 0 .. N - 1 : after[n + 1] = PrintfStep(after[n], str[n + 1])
    /\ printf(str, args) = after[N]

LEMMA PrintfIs ==
    ASSUME NEW str, NEW args, NEW N \in Nat, N = Len(str)
    PROVE  \E after : PrintfLoop(after, str, args, N)
  <1>1. PICK p : ArePrints(p, str, args, N)  BY PrintsExist
  <1>2. PICK after : ArePrints(after, str, args, N) /\ printf(str, args) = after[N]
    BY <1>1, Zenon DEF printf, ArePrints
  <1>3. 0 \in 0 .. N  OBVIOUS
  <1>4. after[0] = BeginPrintf(args)  BY <1>2, <1>3 DEF ArePrints
  <1>5. ASSUME NEW n \in 0 .. N - 1 PROVE after[n + 1] = PrintfStep(after[n], str[n + 1])
    <2>1. n + 1 \in 0 .. N /\ n + 1 # 0 /\ (n + 1) - 1 = n  OBVIOUS
    <2>2. after[n + 1] = PrintfStep(after[(n + 1) - 1], str[n + 1])  BY <1>2, <2>1 DEF ArePrints
    <2> QED  BY <2>1, <2>2
  <1> QED  BY <1>2, <1>4, <1>5 DEF PrintfLoop

\* A complete part of a message.
LEMMA CompletePart ==
    ASSUME NEW p, Complete(p)
    PROVE  /\ IsText(p.format) /\ IsText(p.values)
           /\ \A n \in 0 .. Len(p.format) - 1 :
                Served(FormatLoop(p.format, p.values)[n], p.format[n + 1])
           /\ log_formated_str(p.format, p.values).state = "normal"
           /\ log_formated_str(p.format, p.values).args = <<>>
  <1>1. /\ IsSequence(p.format) /\ IsSequence(p.values)
        /\ \A n \in 1 .. Len(p.format) : Served(FormatLoop(p.format, p.values)[n - 1], p.format[n])
        /\ FormatLoop(p.format, p.values)[Len(p.format)].state = "normal"
        /\ FormatLoop(p.format, p.values)[Len(p.format)].args = <<>>
    BY DEF Complete
  <1>2. IsText(p.format) /\ IsText(p.values)  BY <1>1 DEF IsSequence, IsText
  <1>3. PICK L \in Nat : L = Len(p.format)  BY <1>2, TextFacts
  <1>4. ASSUME NEW n \in 0 .. L - 1
        PROVE  Served(FormatLoop(p.format, p.values)[n], p.format[n + 1])
    <2>1. n + 1 \in 1 .. L /\ (n + 1) - 1 = n  OBVIOUS
    <2> QED  BY <1>1, <1>3, <2>1
  <1> QED  BY <1>1, <1>2, <1>3, <1>4 DEF log_formated_str

\* A part is written the same way wherever it stands: big are the states of a loop that
\* comes to the part after k characters.
LEMMA PartWithin ==
    ASSUME NEW p, Complete(p), NEW L \in Nat, L = Len(p.format),
           NEW big, NEW k \in Nat, NEW before, NEW after, IsText(before), IsText(after),
           \A n \in 0 .. L - 1 : big[k + n + 1] = FormatStep(big[k + n], p.format[n + 1]),
           Within(big[k], Begin(p.values), before, after)
    PROVE  Within(big[k + L], log_formated_str(p.format, p.values), before, after)
  <1>1. PICK a : a = FormatLoop(p.format, p.values)  OBVIOUS
  <1>2. a[0] = Begin(p.values) /\ \A n \in 0 .. L - 1 : a[n + 1] = FormatStep(a[n], p.format[n + 1])
    BY <1>1, FormatLoopIs
  <1>3. \A n \in 0 .. L - 1 : Served(a[n], p.format[n + 1])  BY <1>1, CompletePart
  <1>t. PICK T : T = {n \in Nat : Within(big[k + n], a[n], before, after)}  OBVIOUS
  <1>4. 0 \in T  BY <1>t, <1>2
  <1>5. ASSUME NEW n \in 0 .. L - 1, n \in T PROVE n + 1 \in T
    <2>1. Within(big[k + n], a[n], before, after)  BY <1>5, <1>t
    <2>2. Within(FormatStep(big[k + n], p.format[n + 1]), FormatStep(a[n], p.format[n + 1]), before, after)
      BY <1>3, <2>1, StepWithin DEF BothStep
    <2>3. k + (n + 1) = k + n + 1 /\ n + 1 \in Nat  OBVIOUS
    <2> QED  BY <1>2, <1>t, <2>2, <2>3
  <1>6. L \in T
    <2>1. \A n \in 0 .. L : n \in T  BY <1>4, <1>5, UpTo
    <2> QED  BY <2>1
  <1> QED  BY <1>1, <1>6, <1>t DEF log_formated_str

LEMMA BeginIs ==
    ASSUME NEW args, IsText(args)
    PROVE  /\ IsFormat(Begin(args)) /\ Begin(args).state = "normal"
           /\ Begin(args).args = args /\ Begin(args).out = <<>>
  BY DEF Begin, IsFormat

LoggedOneAfterTheOther(p, q) ==
    log_formated_str(p.format \o q.format, p.values \o q.values).out
      = log_formated_str(p.format, p.values).out \o log_formated_str(q.format, q.values).out

\* What is logged for two parts is what is logged for each.
LEMMA LogComposes ==
    ASSUME NEW p, NEW q, Complete(p), Complete(q)
    PROVE  LoggedOneAfterTheOther(p, q)
  <1>1. IsText(p.format) /\ IsText(p.values) /\ IsText(q.format) /\ IsText(q.values)
    BY CompletePart
  <1>2. PICK P \in Nat, Q \in Nat : P = Len(p.format) /\ Q = Len(q.format)  BY <1>1, TextFacts
  <1>3. PICK str, args : str = p.format \o q.format /\ args = p.values \o q.values  OBVIOUS
  <1>4. /\ IsText(str) /\ IsText(args) /\ Len(str) = P + Q
        /\ \A i \in 1 .. P : str[i] = p.format[i]
        /\ \A i \in 1 .. Q : str[P + i] = q.format[i]
    <2>1. PICK u, v : u = p.format /\ v = q.format  OBVIOUS
    <2>2. IsText(u) /\ IsText(v) /\ P = Len(u) /\ Q = Len(v)  BY <1>1, <1>2, <2>1
    <2>3. /\ IsText(u \o v) /\ Len(u \o v) = P + Q
          /\ \A i \in 1 .. P : (u \o v)[i] = u[i]
          /\ \A i \in 1 .. Q : (u \o v)[P + i] = v[i]
      BY <2>2, CatText
    <2>4. IsText(args)  BY <1>1, <1>3, CatText
    <2> QED  BY <1>3, <2>1, <2>3, <2>4
  <1>5. PICK big : big = FormatLoop(str, args)  OBVIOUS
  <1>6. big[0] = Begin(args) /\ \A n \in 0 .. P + Q - 1 : big[n + 1] = FormatStep(big[n], str[n + 1])
    <2>1. PICK N \in Nat : N = P + Q  OBVIOUS
    <2>2. N = Len(str)  BY <1>4, <2>1
    <2>3. big[0] = Begin(args) /\ \A n \in 0 .. N - 1 : big[n + 1] = FormatStep(big[n], str[n + 1])
      BY <1>5, <2>2, FormatLoopIs
    <2> QED  BY <2>1, <2>3
  <1>7. PICK a, b : /\ a = log_formated_str(p.format, p.values)
                    /\ b = log_formated_str(q.format, q.values)
    OBVIOUS
  <1>8. Within(big[P], a, <<>>, q.values)
    <2>1. \A n \in 0 .. P - 1 : big[0 + n + 1] = FormatStep(big[0 + n], p.format[n + 1])
      <3> TAKE n \in 0 .. P - 1
      <3>1. 0 + n + 1 = n + 1 /\ 0 + n = n /\ n \in 0 .. P + Q - 1 /\ n + 1 \in 1 .. P  OBVIOUS
      <3> QED  BY <1>4, <1>6, <3>1
    <2>2. Within(big[0], Begin(p.values), <<>>, q.values)
      <3>1. /\ IsFormat(big[0]) /\ big[0].state = "normal" /\ big[0].args = p.values \o q.values
            /\ big[0].out = <<>>
        <4>1. PICK b0 : b0 = Begin(args) /\ b0 = big[0]  BY <1>6
        <4>2. IsFormat(b0) /\ b0.state = "normal" /\ b0.args = args /\ b0.out = <<>>
          BY <1>4, <4>1, BeginIs
        <4> QED  BY <1>3, <4>1, <4>2
      <3>2. <<>> = <<>> \o <<>> /\ IsText(<<>>)  BY ShortText, TextFacts
      <3>3. "normal" # "format"  OBVIOUS
      <3> QED  BY <1>1, <3>1, <3>2, <3>3, BeginIs DEF Within
    <2>3. 0 + P = P  OBVIOUS
    <2>4. Within(big[0 + P], log_formated_str(p.format, p.values), <<>>, q.values)
      BY <1>1, <1>2, <2>1, <2>2, ShortText, PartWithin
    <2> QED  BY <1>7, <2>3, <2>4
  <1>9. Within(big[P + Q], b, a.out, <<>>)
    <2>1. \A n \in 0 .. Q - 1 : big[P + n + 1] = FormatStep(big[P + n], q.format[n + 1])
      <3> TAKE n \in 0 .. Q - 1
      <3>1. P + n \in 0 .. P + Q - 1 /\ n + 1 \in 1 .. Q /\ P + (n + 1) = P + n + 1  OBVIOUS
      <3> QED  BY <1>4, <1>6, <3>1
    <2>2. IsText(a.out) /\ IsText(<<>>)  BY <1>8, ShortText DEF Within
    <2>3. Within(big[P], Begin(q.values), a.out, <<>>)
      <3>1. a.state = "normal" /\ a.args = <<>>  BY <1>7, CompletePart
      <3>2. /\ IsFormat(big[P]) /\ big[P].state = "normal" /\ big[P].args = <<>> \o q.values
            /\ big[P].out = <<>> \o a.out
        BY <1>8, <3>1 DEF Within
      <3>3. <<>> \o q.values = q.values /\ q.values \o <<>> = q.values
            /\ <<>> \o a.out = a.out /\ a.out \o <<>> = a.out
        BY <1>1, <2>2, TextFacts
      <3>4. "normal" # "format"  OBVIOUS
      <3> QED  BY <1>1, <2>2, <3>2, <3>3, <3>4, BeginIs DEF Within
    <2>4. Within(big[P + Q], log_formated_str(q.format, q.values), a.out, <<>>)
      BY <1>2, <2>1, <2>2, <2>3, PartWithin
    <2> QED  BY <1>7, <2>4
  <1>10. log_formated_str(str, args) = big[P + Q]  BY <1>4, <1>5 DEF log_formated_str
  <1> QED  BY <1>3, <1>7, <1>9, <1>10 DEF Within, LoggedOneAfterTheOther

-----------------------------------------------------------------------------
(* printf.                                                                 *)

Shifted(stored, w) == [i \in DOMAIN stored |-> w + stored[i]]

LEMMA ShiftedAppend ==
    ASSUME NEW s \in Seq(Int), NEW w \in Int, NEW n \in Int
    PROVE  /\ Shifted(s, w) \in Seq(Int) /\ Shifted(<<>>, w) = <<>> /\ Shifted(s, 0) = s
           /\ Shifted(Append(s, n), w) = Append(Shifted(s, w), w + n)
  <1>1. PICK L \in Nat : L = Len(s) /\ s \in [1 .. L -> Int]  BY SeqIsFunction
  <1>2. PICK u : u = Shifted(s, w)  OBVIOUS
  <1>3. u \in [1 .. L -> Int] /\ \A i \in 1 .. L : u[i] = w + s[i]  BY <1>1, <1>2 DEF Shifted
  <1>4. u \in Seq(Int) /\ Len(u) = L  BY <1>3, FunctionIsSeq
  <1>5. Shifted(<<>>, w) = <<>>  BY DEF Shifted
  <1>6. Shifted(s, 0) = s  BY <1>1 DEF Shifted
  <1>7. PICK a : a = Append(s, n)  OBVIOUS
  <1>8. a \in Seq(Int) /\ Len(a) = L + 1 /\ a[L + 1] = n /\ \A i \in 1 .. L : a[i] = s[i]
    BY <1>1, <1>7
  <1>9. PICK r : r = Append(u, w + n)  OBVIOUS
  <1>10. r \in Seq(Int) /\ Len(r) = L + 1 /\ r[L + 1] = w + n /\ \A i \in 1 .. L : r[i] = u[i]
    <2>1. w + n \in Int  OBVIOUS
    <2> QED  BY <1>4, <1>9, <2>1
  <1>11. PICK K \in Nat : K = L + 1  OBVIOUS
  <1>12. a \in [1 .. K -> Int] /\ r \in [1 .. K -> Int]  BY <1>8, <1>10, <1>11, SeqIsFunction
  <1>13. ASSUME NEW i \in 1 .. K PROVE w + a[i] = r[i]
    <2>1. CASE i = K  BY <1>8, <1>10, <1>11, <2>1
    <2>2. CASE i # K
      <3>1. i \in 1 .. L  BY <1>11, <2>2
      <3> QED  BY <1>3, <1>8, <1>10, <3>1
    <2> QED  BY <2>1, <2>2
  <1>14. Shifted(a, w) = r  BY <1>12, <1>13 DEF Shifted
  <1> QED  BY <1>2, <1>4, <1>5, <1>6, <1>7, <1>9, <1>14

\* Within, and printf's counts: those of the message start at w, and stored are those
\* stored before it.
PrintWithin(big, s, before, after, w, stored) ==
    /\ Within(big, s, before, after)
    /\ {"written", "stored"} \subseteq DOMAIN s /\ {"written", "stored"} \subseteq DOMAIN big
    /\ s.written \in Int /\ s.stored \in Seq(Int)
    /\ big.written = w + s.written
    /\ big.stored = stored \o Shifted(s.stored, w)

\* printf serves what log_formated_str does, and %n.
PrintServed(s, c) == Served(s, c) \/ (s.state = "format" /\ c = "n" /\ s.args # <<>>)

CountedAs(s, t, n) == s = [t EXCEPT !.written = n]

\* What printf does with a character that is served, once log_formated_str is
\* understood: only the count is its own.
LEMMA PrintfStepServed ==
    ASSUME NEW s, IsFormat(s), {"written", "stored"} \subseteq DOMAIN s, s.written \in Int,
           NEW c, Served(s, c), s.state \in {"normal", "format"}, IsText(s.out),
           NEW t, t = FormatStep(s, c), t.state \in {"normal", "format"},
           DOMAIN t = DOMAIN s, t.written = s.written, NEW x, IsText(x), t.out = s.out \o x,
           NEW two, two = IF s.state = "format" /\ c = "p" THEN 2 ELSE 0,
           NEW k \in Int, k = Len(x) - two
    PROVE  CountedAs(PrintfStep(s, c), t, s.written + k)
  <1>1. ~(s.state = "format" /\ c = "n")
    <2>1. "n" \notin Flags \union {"%"} /\ "n" \notin Conversions  BY DEF Flags, Conversions
    <2>2. "normal" # "format"  OBVIOUS
    <2> QED  BY <2>1, <2>2 DEF Served
  <1>2. PICK K \in Nat, L \in Nat : K = Len(x) /\ L = Len(s.out)  BY TextFacts
  <1>3. Len(t.out) = L + K
    <2>1. PICK o : o = s.out  OBVIOUS
    <2>2. IsText(o)  BY <2>1
    <2>3. Len(o \o x) = Len(o) + Len(x)  BY <2>2, CatText
    <2> QED  BY <1>2, <2>1, <2>3
  <1>4. Len(t.out) - Len(s.out) - two = K - two
    <2>1. two \in Int  OBVIOUS
    <2> QED  BY <1>2, <1>3, <2>1
  <1>5. t.state # "abandoned" /\ s.state # "abandoned"  OBVIOUS
  <1>6. PrintfStep(s, c) = [t EXCEPT !.written = t.written + (Len(t.out) - Len(s.out) - two)]
    BY <1>1, <1>5 DEF PrintfStep
  <1>7. Len(t.out) - Len(s.out) - two = k  BY <1>2, <1>4
  <1> QED  BY <1>6, <1>7 DEF CountedAs

\* A character does the same to both, also to what printf counts.
LEMMA PrintStepWithin ==
    ASSUME NEW big, NEW s, NEW before, NEW after, IsText(before), IsText(after),
           NEW w \in Int, NEW stored \in Seq(Int),
           PrintWithin(big, s, before, after, w, stored), NEW c, PrintServed(s, c)
    PROVE  PrintWithin(PrintfStep(big, c), PrintfStep(s, c), before, after, w, stored)
  <1>1. /\ Within(big, s, before, after)
        /\ {"written", "stored"} \subseteq DOMAIN s /\ {"written", "stored"} \subseteq DOMAIN big
        /\ s.written \in Int /\ s.stored \in Seq(Int)
        /\ big.written = w + s.written
        /\ big.stored = stored \o Shifted(s.stored, w)
    BY DEF PrintWithin
  <1>2. /\ IsFormat(big) /\ IsFormat(s) /\ IsText(s.args) /\ IsText(s.out)
        /\ s.state \in {"normal", "format"} /\ big.state = s.state
        /\ s.state = "format" => big.prefix = s.prefix
        /\ big.args = s.args \o after /\ big.out = before \o s.out
    BY <1>1 DEF Within
  <1>3. big.written \in Int  BY <1>1
  <1>4. CASE Served(s, c)
    <2>1. PICK t, r : t = FormatStep(s, c) /\ r = FormatStep(big, c)  OBVIOUS
    <2>2. /\ Within(r, t, before, after)
          /\ \E x : IsText(x) /\ t.out = s.out \o x /\ r.out = big.out \o x
          /\ \A f \in DOMAIN s \ {"state", "prefix", "args", "out"} : t[f] = s[f]
          /\ \A f \in DOMAIN big \ {"state", "prefix", "args", "out"} : r[f] = big[f]
          /\ DOMAIN t = DOMAIN s /\ DOMAIN r = DOMAIN big
      <3>1. BothStep(big, s, r, t, before, after)  BY <1>1, <1>4, <2>1, StepWithin
      <3> QED  BY <3>1 DEF BothStep
    <2>3. PICK x : IsText(x) /\ t.out = s.out \o x /\ r.out = big.out \o x  BY <2>2
    <2>4. /\ t.written = s.written /\ t.stored = s.stored
          /\ r.written = big.written /\ r.stored = big.stored
      BY <1>1, <2>2
    <2>5. /\ IsFormat(r) /\ IsFormat(t) /\ IsText(t.args) /\ IsText(t.out)
          /\ t.state \in {"normal", "format"} /\ r.state = t.state
          /\ t.state = "format" => r.prefix = t.prefix
          /\ r.args = t.args \o after /\ r.out = before \o t.out
      BY <2>2 DEF Within
    <2>6. PICK two : two = IF s.state = "format" /\ c = "p" THEN 2 ELSE 0  OBVIOUS
    <2>7. PICK k \in Int : k = Len(x) - two
      <3>1. two \in Int  BY <2>6
      <3>2. PICK K \in Nat : K = Len(x)  BY <2>3, TextFacts
      <3>3. K - two \in Int  BY <3>1
      <3> QED  BY <3>2, <3>3
    <2>8. CountedAs(PrintfStep(s, c), t, s.written + k)
      BY <1>1, <1>2, <1>4, <2>1, <2>2, <2>3, <2>4, <2>5, <2>6, <2>7, PrintfStepServed
    <2>9. CountedAs(PrintfStep(big, c), r, big.written + k)
      <3>1. Served(big, c)
        <4>1. CASE s.state = "normal" \/ c \in Flags \union {"%"}  BY <1>2, <4>1 DEF Served
        <4>2. CASE c \in Conversions /\ s.args # <<>> /\ Fits(c, Head(s.args))
          <5>1. PICK a : a = s.args  OBVIOUS
          <5>2. IsText(a) /\ a # <<>>  BY <1>2, <4>2, <5>1
          <5>3. a \o after # <<>> /\ Head(a \o after) = Head(a)  BY <5>2, CatText
          <5> QED  BY <1>2, <4>2, <5>1, <5>3 DEF Served
        <4> QED  BY <1>4, <4>1, <4>2 DEF Served
      <3>2. IsText(big.out)  BY <1>2, CatText
      <3>3. two = IF big.state = "format" /\ c = "p" THEN 2 ELSE 0  BY <1>2, <2>6
      <3>4. r.state \in {"normal", "format"} /\ big.state \in {"normal", "format"}  BY <1>2, <2>5
      <3> QED  BY <1>1, <1>2, <1>3, <2>1, <2>2, <2>3, <2>4, <2>7, <3>1, <3>2, <3>3, <3>4, PrintfStepServed
    <2>10. PICK n \in Int, m \in Int : n = s.written + k /\ m = big.written + k
      <3>1. PICK a \in Int, b \in Int : a = s.written /\ b = big.written  BY <1>1, <1>3
      <3>2. a + k \in Int /\ b + k \in Int  OBVIOUS
      <3> QED  BY <3>1, <3>2
    <2>11. m = w + n  BY <1>1, <2>10
    <2>12. PICK t2, r2 : t2 = [t EXCEPT !.written = n] /\ r2 = [r EXCEPT !.written = m]  OBVIOUS
    <2>13. /\ IsFormat(t2) /\ t2.state = t.state /\ t2.prefix = t.prefix /\ t2.args = t.args
           /\ t2.out = t.out /\ t2.written = n /\ t2.stored = t.stored /\ DOMAIN t2 = DOMAIN t
      BY <1>1, <2>2, <2>5, <2>12 DEF IsFormat
    <2>14. /\ IsFormat(r2) /\ r2.state = r.state /\ r2.prefix = r.prefix /\ r2.args = r.args
           /\ r2.out = r.out /\ r2.written = m /\ r2.stored = r.stored /\ DOMAIN r2 = DOMAIN r
      BY <1>1, <2>2, <2>5, <2>12 DEF IsFormat
    <2>15. Within(r2, t2, before, after)  BY <2>5, <2>13, <2>14 DEF Within
    <2>16. PrintWithin(r2, t2, before, after, w, stored)
      BY <1>1, <2>2, <2>4, <2>11, <2>13, <2>14, <2>15 DEF PrintWithin
    <2>17. PrintfStep(s, c) = t2 /\ PrintfStep(big, c) = r2
      BY <2>8, <2>9, <2>10, <2>12 DEF CountedAs
    <2> QED  BY <2>16, <2>17
  <1>5. CASE s.state = "format" /\ c = "n" /\ s.args # <<>>
    <2>1. PICK args, n : args = s.args /\ n = s.written  OBVIOUS
    <2>2. IsText(args) /\ args # <<>>  BY <1>2, <1>5, <2>1
    <2>3. Tail(args \o after) = Tail(args) \o after /\ IsText(Tail(args))  BY <2>2, CatText, TextFacts
    <2>4. PICK t, r : t = PrintfStep(s, c) /\ r = PrintfStep(big, c)  OBVIOUS
    <2>5. PICK ta, ts : ta = Tail(args) /\ ts = Append(s.stored, n)  OBVIOUS
    <2>6. PICK ra, rs : ra = Tail(big.args) /\ rs = Append(big.stored, big.written)  OBVIOUS
    <2>7. t = [s EXCEPT !.state = "normal", !.args = ta, !.stored = ts]
      BY <1>5, <2>1, <2>4, <2>5 DEF PrintfStep
    <2>8. r = [big EXCEPT !.state = "normal", !.args = ra, !.stored = rs]
      BY <1>2, <1>5, <2>4, <2>6 DEF PrintfStep
    <2>9. /\ IsFormat(t) /\ t.state = "normal" /\ t.args = ta /\ t.out = s.out /\ t.written = s.written
          /\ t.stored = ts /\ DOMAIN t = DOMAIN s
      BY <1>1, <1>2, <2>7 DEF IsFormat
    <2>10. /\ IsFormat(r) /\ r.state = "normal" /\ r.args = ra /\ r.out = big.out /\ r.written = big.written
           /\ r.stored = rs /\ DOMAIN r = DOMAIN big
      BY <1>1, <1>2, <2>8 DEF IsFormat
    <2>11. ra = ta \o after /\ IsText(ta)  BY <1>2, <2>1, <2>3, <2>5, <2>6
    <2>12. "normal" # "format"  OBVIOUS
    <2>13. Within(r, t, before, after)  BY <1>2, <2>9, <2>10, <2>11, <2>12 DEF Within
    <2>14. ts \in Seq(Int)  BY <1>1, <2>1, <2>5
    <2>15. rs = stored \o Shifted(ts, w)
      <3>1. PICK u, v : u = s.stored /\ v = Shifted(u, w)  OBVIOUS
      <3>2. v \in Seq(Int) /\ Shifted(ts, w) = Append(v, w + n)  BY <1>1, <2>1, <2>5, <3>1, ShiftedAppend
      <3>3. PICK m \in Int : m = w + n  BY <1>1, <2>1
      <3>4. rs = Append(stored \o v, m)  BY <1>1, <2>1, <2>6, <3>1, <3>3
      <3>5. Append(stored \o v, m) = stored \o Append(v, m)
        <4>1. stored \in Seq(Int) /\ v \in Seq(Int) /\ <<m>> \in Seq(Int)  BY <3>2
        <4>2. PICK y : y = stored \o v /\ IsText(y) /\ IsText(v)
          <5>1. IsText(stored) /\ IsText(v)  BY <4>1 DEF IsText
          <5> QED  BY <5>1, CatText
        <4>4. Append(y, m) = y \o <<m>> /\ Append(v, m) = v \o <<m>>  BY <4>2, TextFacts
        <4>3. (stored \o v) \o <<m>> = stored \o (v \o <<m>>)  BY <4>1
        <4> QED  BY <4>2, <4>3, <4>4
      <3> QED  BY <3>2, <3>3, <3>4, <3>5
    <2> QED  BY <1>1, <2>4, <2>9, <2>10, <2>13, <2>14, <2>15 DEF PrintWithin
  <1> QED  BY <1>4, <1>5 DEF PrintServed

LEMMA BeginPrintfIs ==
    ASSUME NEW args, IsText(args)
    PROVE  /\ IsFormat(BeginPrintf(args)) /\ {"written", "stored"} \subseteq DOMAIN BeginPrintf(args)
           /\ BeginPrintf(args).state = "normal" /\ BeginPrintf(args).args = args
           /\ BeginPrintf(args).out = <<>> /\ BeginPrintf(args).written = 0
           /\ BeginPrintf(args).stored = <<>>
  BY DEF BeginPrintf, IsFormat

\* s is what printf makes of what log_formated_str has made a of.
PrintedAs(s, a) == /\ Within(s, a, <<>>, <<>>) /\ {"written", "stored"} \subseteq DOMAIN s
                   /\ s.written \in Int

LEMMA PrintStepPlain ==
    ASSUME NEW s, NEW a, PrintedAs(s, a), NEW c, Served(a, c)
    PROVE  PrintedAs(PrintfStep(s, c), FormatStep(a, c)) /\ Served(s, c)
  <1>1. Within(s, a, <<>>, <<>>) /\ {"written", "stored"} \subseteq DOMAIN s /\ s.written \in Int
    BY DEF PrintedAs
  <1>2. IsText(<<>>)  BY ShortText
  <1>3. /\ IsFormat(s) /\ IsText(a.args) /\ IsText(a.out) /\ a.state \in {"normal", "format"}
        /\ s.state = a.state /\ s.args = a.args \o <<>> /\ s.out = <<>> \o a.out
    BY <1>1 DEF Within
  <1>4. s.args = a.args /\ s.out = a.out  BY <1>3, TextFacts
  <1>5. Served(s, c)  BY <1>3, <1>4 DEF Served
  <1>6. PICK t, b : t = FormatStep(s, c) /\ b = FormatStep(a, c)  OBVIOUS
  <1>7. BothStep(s, a, t, b, <<>>, <<>>)  BY <1>1, <1>2, <1>6, StepWithin
  <1>8. /\ Within(t, b, <<>>, <<>>) /\ DOMAIN t = DOMAIN s
        /\ \A f \in DOMAIN s \ {"state", "prefix", "args", "out"} : t[f] = s[f]
    BY <1>7 DEF BothStep
  <1>9. t.written = s.written  BY <1>1, <1>8
  <1>10. PICK x : IsText(x) /\ t.out = s.out \o x  BY <1>7 DEF BothStep
  <1>11. PICK two : two = IF s.state = "format" /\ c = "p" THEN 2 ELSE 0  OBVIOUS
  <1>12. PICK k \in Int : k = Len(x) - two
    <2>1. two \in Int /\ Len(x) \in Nat  BY <1>10, <1>11, TextFacts
    <2> QED  BY <2>1
  <1>13. t.state \in {"normal", "format"} /\ s.state \in {"normal", "format"} /\ IsText(s.out)
    BY <1>3, <1>4, <1>8 DEF Within
  <1>14. CountedAs(PrintfStep(s, c), t, s.written + k)
    BY <1>1, <1>3, <1>5, <1>6, <1>8, <1>9, <1>10, <1>11, <1>12, <1>13, PrintfStepServed
  <1>15. PICK n \in Int : n = s.written + k  BY <1>1
  <1>16. PICK r : r = [t EXCEPT !.written = n]  OBVIOUS
  <1>17. IsFormat(t)  BY <1>8 DEF Within
  <1>18. /\ IsFormat(r) /\ r.state = t.state /\ r.prefix = t.prefix /\ r.args = t.args
         /\ r.out = t.out /\ r.written = n /\ DOMAIN r = DOMAIN t
    BY <1>1, <1>8, <1>16, <1>17 DEF IsFormat
  <1>19. Within(r, b, <<>>, <<>>)  BY <1>8, <1>18 DEF Within
  <1>20. PrintedAs(r, b)  BY <1>1, <1>8, <1>18, <1>19 DEF PrintedAs
  <1>21. PrintfStep(s, c) = r  BY <1>14, <1>15, <1>16 DEF CountedAs
  <1> QED  BY <1>5, <1>6, <1>20, <1>21

\* c are the states of printf's loop over a part of a message: all of it is served, and no
\* specifier is left open and no argument over.
PrintsWhole(p, c, L) ==
    /\ IsText(p.format) /\ IsText(p.values) /\ L \in Nat /\ L = Len(p.format)
    /\ c[0] = BeginPrintf(p.values)
    /\ \A n \in 0 .. L - 1 : /\ c[n + 1] = PrintfStep(c[n], p.format[n + 1])
                             /\ PrintServed(c[n], p.format[n + 1])
    /\ printf(p.format, p.values) = c[L]
    /\ c[L].state = "normal" /\ c[L].args = <<>>

\* What log_formated_str serves completely, printf does.
LEMMA CompleteIsPrinted ==
    ASSUME NEW p, Complete(p)
    PROVE  \E L, c : PrintsWhole(p, c, L)
  <1>1. /\ IsText(p.format) /\ IsText(p.values)
        /\ log_formated_str(p.format, p.values).state = "normal"
        /\ log_formated_str(p.format, p.values).args = <<>>
    BY CompletePart
  <1>2. PICK L \in Nat : L = Len(p.format)  BY <1>1, TextFacts
  <1>3. PICK a : a = FormatLoop(p.format, p.values)  OBVIOUS
  <1>4. a[0] = Begin(p.values) /\ \A n \in 0 .. L - 1 : a[n + 1] = FormatStep(a[n], p.format[n + 1])
    BY <1>2, <1>3, FormatLoopIs
  <1>5. \A n \in 0 .. L - 1 : Served(a[n], p.format[n + 1])  BY <1>2, <1>3, CompletePart
  <1>p. PICK c : PrintfLoop(c, p.format, p.values, L)  BY <1>2, PrintfIs
  <1>6. /\ c[0] = BeginPrintf(p.values)
        /\ \A n \in 0 .. L - 1 : c[n + 1] = PrintfStep(c[n], p.format[n + 1])
        /\ printf(p.format, p.values) = c[L]
    BY <1>p DEF PrintfLoop
  <1>t. PICK T : T = {n \in Nat : PrintedAs(c[n], a[n])}  OBVIOUS
  <1>7. 0 \in T
    <2>1. <<>> \o <<>> = <<>> /\ p.values \o <<>> = p.values /\ IsText(<<>>)
      BY <1>1, ShortText, TextFacts
    <2>2. "normal" # "format" /\ 0 \in Int  OBVIOUS
    <2>3. PICK s, b : s = BeginPrintf(p.values) /\ b = Begin(p.values)  OBVIOUS
    <2>4. /\ IsFormat(s) /\ {"written", "stored"} \subseteq DOMAIN s /\ s.state = "normal"
          /\ s.args = p.values /\ s.out = <<>> /\ s.written = 0
      BY <1>1, <2>3, BeginPrintfIs
    <2>5. IsFormat(b) /\ b.state = "normal" /\ b.args = p.values /\ b.out = <<>>
      BY <1>1, <2>3, BeginIs
    <2>6. Within(s, b, <<>>, <<>>)  BY <1>1, <2>1, <2>2, <2>4, <2>5 DEF Within
    <2> QED  BY <1>4, <1>6, <1>t, <2>2, <2>3, <2>4, <2>6 DEF PrintedAs
  <1>8. ASSUME NEW n \in 0 .. L - 1, n \in T PROVE n + 1 \in T
    <2>1. PrintedAs(c[n], a[n])  BY <1>8, <1>t
    <2>2. PrintedAs(PrintfStep(c[n], p.format[n + 1]), FormatStep(a[n], p.format[n + 1]))
      BY <1>5, <2>1, PrintStepPlain
    <2>3. n + 1 \in Nat  OBVIOUS
    <2> QED  BY <1>4, <1>6, <1>t, <2>2, <2>3
  <1>9. \A n \in 0 .. L : n \in T  BY <1>7, <1>8, UpTo
  <1>10. ASSUME NEW n \in 0 .. L - 1 PROVE PrintServed(c[n], p.format[n + 1])
    <2>1. n \in 0 .. L  OBVIOUS
    <2>2. PrintedAs(c[n], a[n])  BY <1>9, <1>t, <2>1
    <2> QED  BY <1>5, <2>2, PrintStepPlain DEF PrintServed
  <1>11. c[L].state = "normal" /\ c[L].args = <<>>
    <2>1. PrintedAs(c[L], a[L])  BY <1>9, <1>t
    <2>2. a[L].state = "normal" /\ a[L].args = <<>>  BY <1>1, <1>2, <1>3 DEF log_formated_str
    <2>3. c[L].state = a[L].state /\ c[L].args = a[L].args \o <<>>  BY <2>1 DEF PrintedAs, Within
    <2>4. <<>> \o <<>> = <<>>  BY ShortText, TextFacts
    <2> QED  BY <2>2, <2>3, <2>4
  <1> QED  BY <1>1, <1>2, <1>6, <1>10, <1>11 DEF PrintsWhole

LEMMA CountIsPrinted == \E L, c : PrintsWhole(CountPart, c, L)
  <1>0. PICK p : p = CountPart  OBVIOUS
  <1>1. p = CountPart /\ p.format = <<"%", "n">> /\ p.values = <<0>>  BY <1>0 DEF CountPart
  <1>2. IsText(p.format) /\ IsText(p.values) /\ Len(p.format) = 2
    <2>1. <<"%", "n">> \in Seq({"%", "n"})  OBVIOUS
    <2> QED  BY <1>1, <2>1, ShortText DEF IsText
  <1>3. p.format[1] = "%" /\ p.format[2] = "n"  BY <1>1
  <1>4. PICK L \in Nat : L = 2 /\ L = Len(p.format)  BY <1>2
  <1>p. PICK c : PrintfLoop(c, p.format, p.values, L)
    <2>1. L = Len(p.format)  BY <1>4
    <2> QED  BY <2>1, PrintfIs
  <1>5. /\ c[0] = BeginPrintf(p.values)
        /\ \A n \in 0 .. L - 1 : c[n + 1] = PrintfStep(c[n], p.format[n + 1])
        /\ printf(p.format, p.values) = c[L]
    BY <1>p DEF PrintfLoop
  <1>6. c[1] = PrintfStep(c[0], "%") /\ c[2] = PrintfStep(c[1], "n")
    <2>1. 0 \in 0 .. L - 1 /\ 1 \in 0 .. L - 1 /\ 0 + 1 = 1 /\ 1 + 1 = 2  BY <1>4
    <2> QED  BY <1>3, <1>5, <2>1
  <1>7. PICK s : s = c[0]  OBVIOUS
  <1>8. IsFormat(s) /\ {"written", "stored"} \subseteq DOMAIN s /\ s.state = "normal" /\ s.args = <<0>>
    BY <1>1, <1>2, <1>5, <1>7, BeginPrintfIs
  <1>9. c[1].state = "format" /\ c[1].args = <<0>> /\ IsFormat(c[1]) /\ DOMAIN c[1] = DOMAIN s
    <2>1. PICK t : t = FormatStep(s, "%")  OBVIOUS
    <2>2. Becomes(t, s, "format", NUL, s.args, s.out)  BY <1>8, <2>1, FormatStepDoes
    <2>3. /\ IsFormat(t) /\ DOMAIN t = DOMAIN s /\ t.state = "format" /\ t.args = <<0>>
      BY <1>8, <2>2 DEF Becomes
    <2>4. \E k : PrintfStep(s, "%") = [t EXCEPT !.written = k]
      <3>1. s.state # "format" /\ t.state # "abandoned"  BY <1>8, <2>3
      <3> QED  BY <2>1, <3>1 DEF PrintfStep
    <2>5. PICK k : PrintfStep(s, "%") = [t EXCEPT !.written = k]  BY <2>4
    <2>6. c[1] = [t EXCEPT !.written = k]  BY <1>6, <1>7, <2>5
    <2> QED  BY <1>8, <2>3, <2>6 DEF IsFormat
  <1>10. c[2].state = "normal" /\ c[2].args = <<>>
    <2>1. PICK s1 : s1 = c[1]  OBVIOUS
    <2>2. PICK ts : ts = Append(s1.stored, s1.written)  OBVIOUS
    <2>3. Tail(<<0>>) = <<>>  OBVIOUS
    <2>4. c[2] = [s1 EXCEPT !.state = "normal", !.args = <<>>, !.stored = ts]
      BY <1>6, <1>9, <2>1, <2>2, <2>3 DEF PrintfStep
    <2> QED  BY <1>8, <1>9, <2>1, <2>4 DEF IsFormat
  <1>11. ASSUME NEW n \in 0 .. L - 1 PROVE PrintServed(c[n], p.format[n + 1])
    <2>1. CASE n = 0
      <3>1. 0 + 1 = 1  OBVIOUS
      <3> QED  BY <1>7, <1>8, <2>1, <3>1 DEF PrintServed, Served
    <2>2. CASE n = 1
      <3>1. 1 + 1 = 2 /\ <<0>> # <<>>  OBVIOUS
      <3> QED  BY <1>3, <1>9, <2>2, <3>1 DEF PrintServed
    <2>3. n = 0 \/ n = 1  BY <1>4
    <2> QED  BY <2>1, <2>2, <2>3
  <1> QED  BY <1>1, <1>2, <1>4, <1>5, <1>10, <1>11 DEF PrintsWhole

\* A part is printed the same way wherever it stands: big are the states of a loop that
\* comes to the part after k characters, and s those of the loop over the part alone.
LEMMA PrintPartWithin ==
    ASSUME NEW p, NEW s, NEW L \in Nat, PrintsWhole(p, s, L),
           NEW big, NEW k \in Nat, NEW before, NEW after, IsText(before), IsText(after),
           NEW w \in Int, NEW stored \in Seq(Int),
           \A n \in 0 .. L - 1 : big[k + n + 1] = PrintfStep(big[k + n], p.format[n + 1]),
           PrintWithin(big[k], s[0], before, after, w, stored)
    PROVE  PrintWithin(big[k + L], s[L], before, after, w, stored)
  <1>1. \A n \in 0 .. L - 1 : /\ s[n + 1] = PrintfStep(s[n], p.format[n + 1])
                              /\ PrintServed(s[n], p.format[n + 1])
    BY DEF PrintsWhole
  <1>t. PICK T : T = {n \in Nat : PrintWithin(big[k + n], s[n], before, after, w, stored)}  OBVIOUS
  <1>2. 0 \in T  BY <1>t
  <1>3. ASSUME NEW n \in 0 .. L - 1, n \in T PROVE n + 1 \in T
    <2>1. PrintWithin(big[k + n], s[n], before, after, w, stored)  BY <1>3, <1>t
    <2>2. PrintWithin(PrintfStep(big[k + n], p.format[n + 1]), PrintfStep(s[n], p.format[n + 1]),
                      before, after, w, stored)
      BY <1>1, <2>1, PrintStepWithin
    <2>3. k + (n + 1) = k + n + 1 /\ n + 1 \in Nat  OBVIOUS
    <2> QED  BY <1>1, <1>t, <2>2, <2>3
  <1>4. L \in T
    <2>1. \A n \in 0 .. L : n \in T  BY <1>2, <1>3, UpTo
    <2> QED  BY <2>1
  <1> QED  BY <1>4, <1>t

\* The loop over a part begins as that of a message which comes to it does.
LEMMA BeginPrintWithin ==
    ASSUME NEW args, IsText(args), NEW after, IsText(after), NEW before, IsText(before),
           NEW w \in Int, NEW stored \in Seq(Int),
           NEW big, IsFormat(big), {"written", "stored"} \subseteq DOMAIN big, big.state = "normal",
           big.args = args \o after, big.out = before, big.written = w, big.stored = stored
    PROVE  PrintWithin(big, BeginPrintf(args), before, after, w, stored)
  <1>1. PICK s : s = BeginPrintf(args)  OBVIOUS
  <1>2. /\ IsFormat(s) /\ {"written", "stored"} \subseteq DOMAIN s /\ s.state = "normal"
        /\ s.args = args /\ s.out = <<>> /\ s.written = 0 /\ s.stored = <<>>
    BY <1>1, BeginPrintfIs
  <1>3. IsText(<<>>) /\ before \o <<>> = before  BY ShortText, TextFacts
  <1>4. "normal" # "format"  OBVIOUS
  <1>5. Within(big, s, before, after)  BY <1>2, <1>3, <1>4 DEF Within
  <1>6. <<>> \in Seq(Int) /\ 0 \in Int /\ w = w + 0  OBVIOUS
  <1>7. stored = stored \o Shifted(<<>>, w)
    <2>1. Shifted(<<>>, w) = <<>>  BY <1>6, ShiftedAppend
    <2>2. stored \o <<>> = stored  OBVIOUS
    <2> QED  BY <2>1, <2>2
  <1> QED  BY <1>1, <1>2, <1>5, <1>6, <1>7 DEF PrintWithin

PrintedOneAfterTheOther(r, first, second) ==
    /\ r.out = first.out \o second.out
    /\ r.written = first.written + second.written
    /\ r.stored = first.stored \o Shifted(second.stored, first.written)

\* What is printed for two parts is what is printed for each, and the counts add up.
LEMMA PrintComposes ==
    ASSUME NEW p, NEW q, NEW s, NEW t, NEW P \in Nat, NEW Q \in Nat,
           PrintsWhole(p, s, P), PrintsWhole(q, t, Q),
           NEW r, r = printf(p.format \o q.format, p.values \o q.values)
    PROVE  PrintedOneAfterTheOther(r, s[P], t[Q])
  <1>1. /\ IsText(p.format) /\ IsText(p.values) /\ IsText(q.format) /\ IsText(q.values)
        /\ P = Len(p.format) /\ Q = Len(q.format)
        /\ s[0] = BeginPrintf(p.values) /\ t[0] = BeginPrintf(q.values)
        /\ s[P].state = "normal" /\ s[P].args = <<>>
    BY DEF PrintsWhole
  <1>2. PICK str, args : str = p.format \o q.format /\ args = p.values \o q.values  OBVIOUS
  <1>3. /\ IsText(args) /\ Len(str) = P + Q
        /\ \A i \in 1 .. P : str[i] = p.format[i]
        /\ \A i \in 1 .. Q : str[P + i] = q.format[i]
    <2>1. PICK u, v : u = p.format /\ v = q.format  OBVIOUS
    <2>2. IsText(u) /\ IsText(v) /\ P = Len(u) /\ Q = Len(v)  BY <1>1, <2>1
    <2>3. /\ IsText(u \o v) /\ Len(u \o v) = P + Q
          /\ \A i \in 1 .. P : (u \o v)[i] = u[i]
          /\ \A i \in 1 .. Q : (u \o v)[P + i] = v[i]
      BY <2>2, CatText
    <2>4. IsText(args)  BY <1>1, <1>2, CatText
    <2> QED  BY <1>2, <2>1, <2>3, <2>4
  <1>4. PICK N \in Nat : N = P + Q  OBVIOUS
  <1>p. PICK big : PrintfLoop(big, str, args, N)
    <2>1. N = Len(str)  BY <1>3, <1>4
    <2> QED  BY <2>1, PrintfIs
  <1>5. /\ big[0] = BeginPrintf(args)
        /\ \A n \in 0 .. N - 1 : big[n + 1] = PrintfStep(big[n], str[n + 1])
        /\ printf(str, args) = big[N]
    BY <1>p DEF PrintfLoop
  <1>6. PrintWithin(big[P], s[P], <<>>, q.values, 0, <<>>)
    <2>1. \A n \in 0 .. P - 1 : big[0 + n + 1] = PrintfStep(big[0 + n], p.format[n + 1])
      <3> TAKE n \in 0 .. P - 1
      <3>1. 0 + n + 1 = n + 1 /\ 0 + n = n /\ n \in 0 .. N - 1 /\ n + 1 \in 1 .. P  BY <1>4
      <3> QED  BY <1>3, <1>5, <3>1
    <2>2. PrintWithin(big[0], s[0], <<>>, q.values, 0, <<>>)
      <3>1. PICK b : b = big[0]  OBVIOUS
      <3>2. /\ IsFormat(b) /\ {"written", "stored"} \subseteq DOMAIN b /\ b.state = "normal"
            /\ b.args = p.values \o q.values /\ b.out = <<>> /\ b.written = 0 /\ b.stored = <<>>
        <4>1. b = BeginPrintf(args) /\ IsText(args)  BY <1>3, <1>5, <3>1
        <4>2. /\ IsFormat(b) /\ {"written", "stored"} \subseteq DOMAIN b /\ b.state = "normal"
              /\ b.args = args /\ b.out = <<>> /\ b.written = 0 /\ b.stored = <<>>
          BY <4>1, BeginPrintfIs
        <4> QED  BY <1>2, <4>2
      <3>3. IsText(<<>>) /\ 0 \in Int /\ <<>> \in Seq(Int)  BY ShortText
      <3>4. PrintWithin(b, BeginPrintf(p.values), <<>>, q.values, 0, <<>>)
        BY <1>1, <3>2, <3>3, BeginPrintWithin
      <3> QED  BY <1>1, <3>1, <3>4
    <2>3. 0 + P = P /\ IsText(<<>>) /\ 0 \in Nat /\ 0 \in Int /\ <<>> \in Seq(Int)  BY ShortText
    <2>4. PrintWithin(big[0 + P], s[P], <<>>, q.values, 0, <<>>)
      BY <1>1, <2>1, <2>2, <2>3, PrintPartWithin
    <2> QED  BY <2>3, <2>4
  <1>7. PICK e : e = s[P]  OBVIOUS
  <1>8. PICK b : b = big[P]  OBVIOUS
  <1>9. /\ IsFormat(b) /\ {"written", "stored"} \subseteq DOMAIN b /\ b.state = "normal"
        /\ b.args = q.values /\ b.out = e.out /\ b.written = e.written /\ b.stored = e.stored
        /\ IsText(e.out) /\ e.written \in Int /\ e.stored \in Seq(Int)
    <2>1. /\ Within(b, e, <<>>, q.values) /\ {"written", "stored"} \subseteq DOMAIN b
          /\ e.written \in Int /\ e.stored \in Seq(Int) /\ b.written = 0 + e.written
          /\ b.stored = <<>> \o Shifted(e.stored, 0)
      BY <1>6, <1>7, <1>8 DEF PrintWithin
    <2>2. /\ IsFormat(b) /\ b.state = "normal" /\ b.args = <<>> \o q.values
          /\ b.out = <<>> \o e.out /\ IsText(e.out)
      BY <1>1, <1>7, <2>1 DEF Within
    <2>3. <<>> \o q.values = q.values /\ <<>> \o e.out = e.out  BY <1>1, <2>2, TextFacts
    <2>4. b.stored = e.stored
      <3>1. 0 \in Int  OBVIOUS
      <3>2. Shifted(e.stored, 0) = e.stored  BY <2>1, <3>1, ShiftedAppend
      <3>3. <<>> \o e.stored = e.stored  BY <2>1
      <3> QED  BY <2>1, <3>2, <3>3
    <2>5. b.written = e.written  BY <2>1
    <2> QED  BY <2>1, <2>2, <2>3, <2>4, <2>5
  <1>10. PrintWithin(big[P + Q], t[Q], e.out, <<>>, e.written, e.stored)
    <2>1. \A n \in 0 .. Q - 1 : big[P + n + 1] = PrintfStep(big[P + n], q.format[n + 1])
      <3> TAKE n \in 0 .. Q - 1
      <3>1. P + n \in 0 .. N - 1 /\ n + 1 \in 1 .. Q /\ P + (n + 1) = P + n + 1  BY <1>4
      <3> QED  BY <1>3, <1>5, <3>1
    <2>2. IsText(<<>>) /\ q.values \o <<>> = q.values  BY <1>1, ShortText, TextFacts
    <2>3. PrintWithin(b, BeginPrintf(q.values), e.out, <<>>, e.written, e.stored)
      BY <1>1, <1>9, <2>2, BeginPrintWithin
    <2>4. PrintWithin(big[P], t[0], e.out, <<>>, e.written, e.stored)  BY <1>1, <1>8, <2>3
    <2>5. PICK w, stored, out : w = e.written /\ stored = e.stored /\ out = e.out  OBVIOUS
    <2>6. w \in Int /\ stored \in Seq(Int) /\ IsText(out)  BY <1>9, <2>5
    <2>7. PrintWithin(big[P], t[0], out, <<>>, w, stored)  BY <2>4, <2>5
    <2>8. PrintWithin(big[P + Q], t[Q], out, <<>>, w, stored)
      BY <2>1, <2>2, <2>6, <2>7, PrintPartWithin
    <2> QED  BY <2>5, <2>8
  <1>11. r = big[P + Q]  BY <1>2, <1>4, <1>5
  <1> QED  BY <1>7, <1>10, <1>11 DEF PrintWithin, Within, PrintedOneAfterTheOther

-----------------------------------------------------------------------------
(* Reports.                                                                *)

\* The part in the middle of a text.
Cut(a, m, z) == SubSeq(a \o (m \o z), Len(a) + 1, Len(a) + Len(m)) = m

LEMMA CutText ==
    ASSUME NEW a, NEW m, NEW z, IsText(a), IsText(m), IsText(z)
    PROVE  Cut(a, m, z)
  <1>1. PICK S1, S2, S3 : a \in Seq(S1) /\ m \in Seq(S2) /\ z \in Seq(S3)  BY DEF IsText
  <1>2. PICK U : U = S1 \union S2 \union S3  OBVIOUS
  <1>3. a \in Seq(U) /\ m \in Seq(U) /\ z \in Seq(U)  BY <1>1, <1>2
  <1>4. PICK A \in Nat, M \in Nat, Z \in Nat : A = Len(a) /\ M = Len(m) /\ Z = Len(z)
    BY <1>3, SeqIsFunction
  <1>5. PICK y : y = m \o z  OBVIOUS
  <1>6. y \in Seq(U) /\ Len(y) = M + Z /\ \A i \in 1 .. M : y[i] = m[i]  BY <1>3, <1>4, <1>5, CatFacts
  <1>7. PICK Y \in Nat : Y = M + Z  OBVIOUS
  <1>8. PICK t : t = a \o y  OBVIOUS
  <1>9. t \in Seq(U) /\ Len(t) = A + Y /\ \A i \in A + 1 .. A + Y : t[i] = y[i - A]
    BY <1>3, <1>4, <1>6, <1>7, <1>8, CatFacts
  <1>10. PICK s : s = SubSeq(t, A + 1, A + M)  OBVIOUS
  <1>11. s \in Seq(U) /\ Len(s) = M /\ \A i \in 1 .. M : s[i] = t[(A + 1) + i - 1]
    <2>1. A + 1 \in 1 .. A + Y + 1 /\ A + M \in A .. A + Y  BY <1>7
    <2> QED  BY <1>9, <1>10, <2>1
  <1>12. ASSUME NEW i \in 1 .. M PROVE s[i] = m[i]
    <2>1. (A + 1) + i - 1 \in A + 1 .. A + Y /\ (A + 1) + i - 1 - A = i  BY <1>7
    <2> QED  BY <1>6, <1>9, <1>11, <2>1
  <1>13. s = m  BY <1>3, <1>4, <1>11, <1>12, SameSequence
  <1> QED  BY <1>4, <1>5, <1>8, <1>10, <1>13 DEF Cut

\* A message of which out is written.
At(s, state, prefix, args, out) ==
    IsFormat(s) /\ s.state = state /\ s.prefix = prefix /\ s.args = args /\ s.out = out

LEMMA AtBegin ==
    ASSUME NEW args, IsText(args)
    PROVE  At(Begin(args), "normal", NUL, args, <<>>)
  BY BeginIs DEF At, Begin

LEMMA AtStep ==
    ASSUME NEW s, NEW prefix, NEW args, NEW out
    PROVE  /\ \A c : At(s, "normal", prefix, args, out) /\ c # "%" =>
                        At(FormatStep(s, c), "normal", prefix, args, Append(out, c))
           /\ At(s, "normal", prefix, args, out) => At(FormatStep(s, "%"), "format", NUL, args, out)
           /\ \A c \in Conversions : At(s, "format", prefix, args, out) =>
                        At(FormatStep(s, c), "normal", prefix, Tail(args),
                           out \o Converted(c, Head(args), prefix))
  <1>1. ASSUME NEW c, At(s, "normal", prefix, args, out), c # "%"
        PROVE  At(FormatStep(s, c), "normal", prefix, args, Append(out, c))
    <2>1. IsFormat(s) /\ s.state = "normal" /\ s.prefix = prefix /\ s.args = args /\ s.out = out
      BY <1>1 DEF At
    <2>2. Becomes(FormatStep(s, c), s, "normal", s.prefix, s.args, Append(s.out, c))
      BY <1>1, <2>1, FormatStepDoes
    <2> QED  BY <2>1, <2>2 DEF At, Becomes
  <1>2. ASSUME At(s, "normal", prefix, args, out)
        PROVE  At(FormatStep(s, "%"), "format", NUL, args, out)
    <2>1. IsFormat(s) /\ s.state = "normal" /\ s.prefix = prefix /\ s.args = args /\ s.out = out
      BY <1>2 DEF At
    <2>2. Becomes(FormatStep(s, "%"), s, "format", NUL, s.args, s.out)  BY <2>1, FormatStepDoes
    <2> QED  BY <2>1, <2>2 DEF At, Becomes
  <1>3. ASSUME NEW c \in Conversions, At(s, "format", prefix, args, out)
        PROVE  At(FormatStep(s, c), "normal", prefix, Tail(args), out \o Converted(c, Head(args), prefix))
    <2>1. IsFormat(s) /\ s.state = "format" /\ s.prefix = prefix /\ s.args = args /\ s.out = out
      BY <1>3 DEF At
    <2>2. Becomes(FormatStep(s, c), s, "normal", s.prefix, Tail(s.args),
                  s.out \o Converted(c, Head(s.args), s.prefix))
      BY <2>1, FormatStepDoes
    <2> QED  BY <2>1, <2>2 DEF At, Becomes
  <1> QED  BY <1>1, <1>2, <1>3

\* r is s, L characters, and then t, K characters.
Joined(r, s, L, t, K) ==
    /\ IsText(r) /\ Len(r) = L + K
    /\ \A i \in 1 .. L : r[i] = s[i]
    /\ \A i \in 1 .. K : r[L + i] = t[i]

LEMMA CatChars ==
    ASSUME NEW s, NEW t, IsText(s), IsText(t), NEW L \in Nat, NEW K \in Nat, L = Len(s), K = Len(t),
           NEW r, r = s \o t
    PROVE  Joined(r, s, L, t, K)
  BY CatText DEF Joined

\* What a description consists of, with and without an error code.
Plain(d, name) == name # "%" /\ Len(d) = 2 /\ d[1] = name /\ d[2] = "\n"

Numbered(d, name) ==
    /\ name # "%" /\ Len(d) = 5
    /\ d[1] = name /\ d[2] = ":" /\ d[3] = "%" /\ d[4] = "d" /\ d[5] = "\n"

OfPageFault(d, name) ==
    /\ name # "%" /\ Len(d) = 8
    /\ d[1] = name /\ d[2] = ":" /\ d[3] = "%" /\ d[4] = "d"
    /\ d[5] = "," /\ d[6] = "%" /\ d[7] = "x" /\ d[8] = "\n"

LEMMA DescribedIs ==
    ASSUME NEW v \in 0 .. 21, NEW d, d = Described(v), NEW name, name = ExceptionName(v)
    PROVE  /\ v \notin WithErrorCode => Plain(d, name)
           /\ v \in WithErrorCode \ {INT_PAGE_FAULT} => Numbered(d, name)
           /\ v = INT_PAGE_FAULT => OfPageFault(d, name)
  <1>1. name # "%"
    <2>1. v + 1 \in 1 .. 22  OBVIOUS
    <2>2. \A i \in 1 .. 22 : ExceptionNames[i] # "%"  BY DEF ExceptionNames
    <2> QED  BY <2>1, <2>2 DEF ExceptionName
  <1>2. d = Described(v)
    OBVIOUS
  <1>3. INT_PAGE_FAULT \in WithErrorCode  BY DEF WithErrorCode
  <1>4. PICK x, y : /\ x = (IF v \in WithErrorCode THEN <<":", "%", "d">> ELSE <<>>)
                    /\ y = (IF v = INT_PAGE_FAULT THEN <<",", "%", "x">> ELSE <<>>)
    OBVIOUS
  <1>p. PICK a, z : a = <<name>> /\ z = <<"\n">>  OBVIOUS
  <1>5. IsText(a) /\ IsText(z)  BY <1>p, ShortText
  <1>6. a[1] = name /\ z[1] = "\n" /\ Len(a) = 1 /\ Len(z) = 1  BY <1>p
  <1>7. PICK r2, r3, r4 : r2 = a \o x /\ r3 = r2 \o y /\ r4 = r3 \o z  OBVIOUS
  <1>8. d = r4  BY <1>2, <1>4, <1>p, <1>7 DEF Described
  <1>9. v \in WithErrorCode => IsText(x) /\ Len(x) = 3 /\ x[1] = ":" /\ x[2] = "%" /\ x[3] = "d"
    <2>1. <<":", "%", "d">> \in Seq({":", "%", "d"})  OBVIOUS
    <2> QED  BY <1>4, <2>1 DEF IsText
  <1>10. v = INT_PAGE_FAULT => IsText(y) /\ Len(y) = 3 /\ y[1] = "," /\ y[2] = "%" /\ y[3] = "x"
    <2>1. <<",", "%", "x">> \in Seq({",", "%", "x"})  OBVIOUS
    <2> QED  BY <1>4, <2>1 DEF IsText
  <1>11. v \notin WithErrorCode => Len(d) = 2 /\ d[1] = name /\ d[2] = "\n"
    <2> SUFFICES ASSUME v \notin WithErrorCode PROVE Len(d) = 2 /\ d[1] = name /\ d[2] = "\n"
      OBVIOUS
    <2>1. x = <<>> /\ y = <<>>  BY <1>3, <1>4
    <2>2. r2 = a /\ r3 = a  BY <1>5, <1>7, <2>1, TextFacts
    <2>p. PICK L \in Nat : L = 1  OBVIOUS
    <2>3. L = Len(a) /\ L = Len(z)  BY <1>6, <2>p
    <2>4. r4 = a \o z  BY <1>7, <2>2
    <2>5. Joined(r4, a, L, z, L)  BY <1>5, <2>3, <2>4, CatChars
    <2>6. r4[1] = a[1] /\ r4[1 + 1] = z[1] /\ Len(r4) = 1 + 1  BY <2>p, <2>5 DEF Joined
    <2> QED  BY <1>6, <1>8, <2>6
  <1>12. v \in WithErrorCode =>
           /\ IsText(r2) /\ Len(r2) = 4 /\ r2[1] = name /\ r2[2] = ":" /\ r2[3] = "%" /\ r2[4] = "d"
    <2> SUFFICES ASSUME v \in WithErrorCode
                 PROVE  IsText(r2) /\ Len(r2) = 4 /\ r2[1] = name /\ r2[2] = ":" /\ r2[3] = "%" /\ r2[4] = "d"
      OBVIOUS
    <2>1. PICK L \in Nat, K \in Nat : L = 1 /\ K = 3  OBVIOUS
    <2>2. L = Len(a) /\ K = Len(x) /\ IsText(x)  BY <1>6, <1>9, <2>1
    <2>3. Joined(r2, a, L, x, K)  BY <1>5, <1>7, <2>2, CatChars
    <2>4. r2[1] = a[1] /\ r2[1 + 1] = x[1] /\ r2[1 + 2] = x[2] /\ r2[1 + 3] = x[3]
      BY <2>1, <2>3 DEF Joined
    <2>5. IsText(r2) /\ Len(r2) = 4 /\ 1 + 1 = 2 /\ 1 + 2 = 3 /\ 1 + 3 = 4  BY <2>1, <2>3 DEF Joined
    <2> QED  BY <1>6, <1>9, <2>4, <2>5
  <1>13. v \in WithErrorCode \ {INT_PAGE_FAULT} =>
           /\ Len(d) = 5 /\ d[1] = name /\ d[2] = ":" /\ d[3] = "%" /\ d[4] = "d" /\ d[5] = "\n"
    <2> SUFFICES ASSUME v \in WithErrorCode \ {INT_PAGE_FAULT}
                 PROVE  Len(d) = 5 /\ d[1] = name /\ d[2] = ":" /\ d[3] = "%" /\ d[4] = "d" /\ d[5] = "\n"
      OBVIOUS
    <2>1. y = <<>>  BY <1>4
    <2>2. r3 = r2  BY <1>7, <1>12, <2>1, TextFacts
    <2>3. PICK L \in Nat, K \in Nat : L = 4 /\ K = 1  OBVIOUS
    <2>4. L = Len(r2) /\ K = Len(z) /\ IsText(r2)  BY <1>6, <1>12, <2>3
    <2>p. r4 = r2 \o z  BY <1>7, <2>2
    <2>5. Joined(r4, r2, L, z, K)  BY <1>5, <2>p, <2>4, CatChars
    <2>6. /\ r4[1] = r2[1] /\ r4[2] = r2[2] /\ r4[3] = r2[3] /\ r4[4] = r2[4]
          /\ r4[4 + 1] = z[1]
      BY <2>3, <2>5 DEF Joined
    <2>7. Len(r4) = 5 /\ 4 + 1 = 5  BY <2>3, <2>5 DEF Joined
    <2> QED  BY <1>6, <1>8, <1>12, <2>6, <2>7
  <1>14. v = INT_PAGE_FAULT =>
           /\ Len(d) = 8 /\ d[1] = name /\ d[2] = ":" /\ d[3] = "%" /\ d[4] = "d"
           /\ d[5] = "," /\ d[6] = "%" /\ d[7] = "x" /\ d[8] = "\n"
    <2> SUFFICES ASSUME v = INT_PAGE_FAULT
                 PROVE  /\ Len(d) = 8 /\ d[1] = name /\ d[2] = ":" /\ d[3] = "%" /\ d[4] = "d"
                        /\ d[5] = "," /\ d[6] = "%" /\ d[7] = "x" /\ d[8] = "\n"
      OBVIOUS
    <2>1. PICK L \in Nat, K \in Nat, M \in Nat, J \in Nat : L = 4 /\ K = 3 /\ M = 7 /\ J = 1  OBVIOUS
    <2>2. v \in WithErrorCode  BY <1>3
    <2>3. L = Len(r2) /\ K = Len(y) /\ IsText(y) /\ IsText(r2)  BY <1>10, <1>12, <2>1, <2>2
    <2>4. Joined(r3, r2, L, y, K)  BY <1>7, <2>3, CatChars
    <2>5. M = Len(r3) /\ J = Len(z) /\ IsText(r3)  BY <1>6, <2>1, <2>4 DEF Joined
    <2>6. Joined(r4, r3, M, z, J)  BY <1>5, <1>7, <2>5, CatChars
    <2>7. r4[1] = r2[1] /\ r4[2] = r2[2] /\ r4[3] = r2[3] /\ r4[4] = r2[4]
      BY <2>1, <2>4, <2>6 DEF Joined
    <2>8. r3[4 + 1] = y[1] /\ r3[4 + 2] = y[2] /\ r3[4 + 3] = y[3]  BY <2>1, <2>4 DEF Joined
    <2>9. 4 + 1 = 5 /\ 4 + 2 = 6 /\ 4 + 3 = 7 /\ 7 + 1 = 8  OBVIOUS
    <2>10. r4[5] = y[1] /\ r4[6] = y[2] /\ r4[7] = y[3]  BY <2>1, <2>6, <2>8, <2>9 DEF Joined
    <2>11. r4[7 + 1] = z[1] /\ Len(r4) = 8  BY <2>1, <2>6 DEF Joined
    <2> QED  BY <1>6, <1>8, <1>10, <1>12, <2>2, <2>7, <2>9, <2>10, <2>11
  <1>15. v \notin WithErrorCode => Plain(d, name)  BY <1>1, <1>11 DEF Plain
  <1>16. v \in WithErrorCode \ {INT_PAGE_FAULT} => Numbered(d, name)  BY <1>1, <1>13 DEF Numbered
  <1>17. v = INT_PAGE_FAULT => OfPageFault(d, name)  BY <1>1, <1>14 DEF OfPageFault
  <1> QED  BY <1>15, <1>16, <1>17

\* The descriptions of exceptions that have a report of their own.
LEMMA DescriptionIs ==
    ASSUME NEW v \in 0 .. 19, NEW d, d = interrupt_descriptions(v), NEW name, name = ExceptionName(v)
    PROVE  /\ v \notin WithErrorCode => Plain(d, name)
           /\ v \in WithErrorCode \ {INT_PAGE_FAULT} => Numbered(d, name)
           /\ v = INT_PAGE_FAULT => OfPageFault(d, name)
  <1>1. v < INT_VIRTUALIZATION_EXCEPTION /\ v # INT_VIRTUALIZATION_EXCEPTION
        /\ v # INT_CONTROL_PROTECTION_EXCEPTION
    BY DEF INT_VIRTUALIZATION_EXCEPTION, INT_CONTROL_PROTECTION_EXCEPTION
  <1>2. d = Described(v)  BY <1>1 DEF interrupt_descriptions
  <1>3. v \in 0 .. 21  OBVIOUS
  <1> QED  BY <1>2, <1>3, DescribedIs

LEMMA DescribedText == ASSUME NEW v PROVE IsText(Described(v))
  <1>1. PICK x, y : /\ x = (IF v \in WithErrorCode THEN <<":", "%", "d">> ELSE <<>>)
                    /\ y = (IF v = INT_PAGE_FAULT THEN <<",", "%", "x">> ELSE <<>>)
    OBVIOUS
  <1>2. PICK a, z : a = <<ExceptionName(v)>> /\ z = <<"\n">>  OBVIOUS
  <1>3. IsText(a) /\ IsText(z) /\ IsText(x) /\ IsText(y)
    <2>1. <<":", "%", "d">> \in Seq({":", "%", "d"}) /\ <<",", "%", "x">> \in Seq({",", "%", "x"})
      OBVIOUS
    <2>2. IsText(<<":", "%", "d">>) /\ IsText(<<",", "%", "x">>)  BY <2>1 DEF IsText
    <2> QED  BY <1>1, <1>2, <2>2, ShortText
  <1>4. IsText(((a \o x) \o y) \o z)  BY <1>3, CatText
  <1> QED  BY <1>1, <1>2, <1>4 DEF Described

\* A text is cut into its beginning and its rest.
Splits(t, b, r) == IsPrefix(b, t) /\ SubSeq(t, Len(b) + 1, Len(t)) = r /\ Len(t) = Len(b) + Len(r)

LEMMA SplitText ==
    ASSUME NEW b, NEW r, IsText(b), IsText(r), NEW t, t = b \o r
    PROVE  Splits(t, b, r)
  <1>1. PICK e : e = <<>>  OBVIOUS
  <1>2. IsText(e) /\ e \o b = b /\ b \o e = b /\ e \o t = t /\ r \o e = r /\ e \o r = r /\ Len(e) = 0
    <2>1. IsText(e)  BY <1>1, ShortText
    <2>2. IsText(t)  BY CatText
    <2> QED  BY <1>1, <2>1, <2>2, TextFacts
  <1>3. PICK L \in Nat, K \in Nat : L = Len(b) /\ K = Len(r)  BY TextFacts
  <1>4. Len(t) = L + K  BY <1>3, CatText
  <1>5. SubSeq(t, L + 1, L + K) = r
    <2>1. Cut(b, r, e)  BY <1>2, CutText
    <2> QED  BY <1>2, <1>3, <2>1 DEF Cut
  <1>6. SubSeq(t, 1, L) = b
    <2>1. Cut(e, b, r)  BY <1>2, CutText
    <2>2. SubSeq(t, 0 + 1, 0 + L) = b  BY <1>2, <1>3, <2>1 DEF Cut
    <2> QED  BY <2>2
  <1>7. SubSeq(b, 1, L) = b
    <2>1. Cut(e, b, e)  BY <1>2, CutText
    <2>2. SubSeq(b, 0 + 1, 0 + L) = b  BY <1>2, <1>3, <2>1 DEF Cut
    <2> QED  BY <2>2
  <1>8. L <= L + K  OBVIOUS
  <1> QED  BY <1>3, <1>4, <1>5, <1>6, <1>7, <1>8 DEF Splits, IsPrefix

\* What is written of an error code and of an address.
LEMMA FaultNumbers ==
    ASSUME NEW n \in 0 .. IntHalf - 1, NEW a \in Nat
    PROVE  /\ Converted("d", n, NUL) = itoa(n, 10) /\ IsText(itoa(n, 10)) /\ Reads(itoa(n, 10), 10, n)
           /\ Converted("x", a, NUL) = utoa(Unsigned(a, IntHalf), 16)
           /\ IsText(utoa(Unsigned(a, IntHalf), 16))
           /\ Reads(utoa(Unsigned(a, IntHalf), 16), 16, Unsigned(a, IntHalf))
  <1>1. 10 \in 2 .. 16 /\ 16 \in 2 .. 16  OBVIOUS
  <1>2. n \in Int /\ Signed(n) = n
    <2>1. n % (2 * IntHalf) = n /\ n < IntHalf /\ n \in Int  BY HalvesAssumption
    <2> QED  BY <2>1 DEF Signed, Unsigned
  <1>3. Reads(itoa(n, 10), 10, n) /\ IsText(itoa(n, 10))  BY <1>1, <1>2, itoaReads DEF IsText
  <1>4. Converted("d", n, NUL) = <<>> \o itoa(n, 10)  BY <1>2 DEF Converted
  <1>5. Converted("d", n, NUL) = itoa(n, 10)  BY <1>3, <1>4, TextFacts
  <1>6. PICK u : u = Unsigned(a, IntHalf)  OBVIOUS
  <1>7. u \in Nat  BY <1>6, HalvesAssumption DEF Unsigned
  <1>8. Reads(utoa(u, 16), 16, u) /\ IsText(utoa(u, 16))  BY <1>1, <1>7, utoaReads DEF IsText
  <1>9. Converted("x", a, NUL) = utoa(u, 16)  BY <1>6 DEF Converted
  <1> QED  BY <1>3, <1>5, <1>6, <1>8, <1>9

\* Characters are written as they are, one after the other.
LEMMA AtText ==
    ASSUME NEW s, NEW prefix, NEW args, NEW out, IsText(out), At(s, "normal", prefix, args, out),
           NEW c, c # "%"
    PROVE  At(FormatStep(s, c), "normal", prefix, args, out \o <<c>>) /\ IsText(out \o <<c>>)
  <1>1. At(FormatStep(s, c), "normal", prefix, args, Append(out, c))  BY AtStep
  <1>2. Append(out, c) = out \o <<c>> /\ IsText(Append(out, c))  BY TextFacts
  <1> QED  BY <1>1, <1>2

\* A number is written for its specifier.
LEMMA AtNumber ==
    ASSUME NEW s, NEW prefix, NEW args, NEW out, At(s, "normal", prefix, args, out), NEW c \in Conversions
    PROVE  At(FormatStep(FormatStep(s, "%"), c), "normal", NUL, Tail(args),
              out \o Converted(c, Head(args), NUL))
  <1>1. PICK t : t = FormatStep(s, "%")  OBVIOUS
  <1>2. At(t, "format", NUL, args, out)  BY <1>1, AtStep
  <1>3. At(FormatStep(t, c), "normal", NUL, Tail(args), out \o Converted(c, Head(args), NUL))
    BY <1>2, AtStep
  <1> QED  BY <1>1, <1>3

LEMMA TwoLines ==
    ASSUME NEW nl, nl = <<"\n">>
    PROVE  IsText(nl) /\ nl \o nl = <<"\n", "\n">>
  <1>1. nl \in Seq({"\n"}) /\ nl[1] = "\n"  BY SMT
  <1>2. PICK L \in Nat : L = 1  OBVIOUS
  <1>3. Len(nl) = 1 /\ IsText(nl)  BY <1>1 DEF IsText
  <1>4. PICK t : t = nl \o nl  OBVIOUS
  <1>5. L = Len(nl)  BY <1>2, <1>3
  <1>6. Joined(t, nl, L, nl, L)  BY <1>3, <1>4, <1>5, CatChars
  <1>7. t[1] = nl[1] /\ t[1 + 1] = nl[1] /\ Len(t) = 2  BY <1>2, <1>6 DEF Joined
  <1>8. t \in Seq({"\n"})
    <2>1. nl \o nl \in Seq({"\n"})  BY <1>1, CatFacts
    <2> QED  BY <1>4, <2>1
  <1>9. PICK u : u = <<"\n", "\n">>  OBVIOUS
  <1>10. u \in Seq({"\n"}) /\ Len(u) = 2 /\ u[1] = "\n" /\ u[2] = "\n"  BY <1>9
  <1>11. ASSUME NEW i \in 1 .. 2 PROVE t[i] = u[i]
    <2>1. i = 1 \/ i = 2  OBVIOUS
    <2>2. 1 + 1 = 2  OBVIOUS
    <2> QED  BY <1>1, <1>7, <1>10, <2>1, <2>2
  <1>12. t = u
    <2>1. Len(t) = Len(u)  BY <1>7, <1>10
    <2>2. \A i \in 1 .. Len(t) : t[i] = u[i]  BY <1>7, <1>11
    <2> QED  BY <1>8, <1>10, <2>1, <2>2, SameSequence
  <1> QED  BY <1>3, <1>4, <1>9, <1>12

\* How a report begins.
Heading == LevelName(LOGGING_LEVEL_ERROR) \o FileName(LOGGING_LEVEL_ERROR)

\* A report is its heading, the name of the exception, the rest of its description and a
\* new line.
LEMMA ReportSplits ==
    ASSUME NEW msg, NEW args, NEW text, text = logging_log_msg(LOGGING_LEVEL_DEBUG, LOGGING_LEVEL_ERROR, msg, args),
           NEW name, NEW r, IsText(r), log_formated_str(msg, args).out = <<name>> \o r
    PROVE  /\ Splits(text, Heading \o <<name>>, r \o <<"\n">>)
           /\ IsText(Heading \o <<name>>) /\ IsText(Heading)
  <1>1. IsText(Heading)
    <2>1. LevelName(LOGGING_LEVEL_ERROR) = <<"E", " ">>
      <3>1. /\ LOGGING_LEVEL_ERROR # LOGGING_LEVEL_DEBUG /\ LOGGING_LEVEL_ERROR # LOGGING_LEVEL_INFO
            /\ LOGGING_LEVEL_ERROR # LOGGING_LEVEL_WARNING
        BY DEF LOGGING_LEVEL_ERROR, LOGGING_LEVEL_DEBUG, LOGGING_LEVEL_INFO, LOGGING_LEVEL_WARNING
      <3> QED  BY <3>1, Zenon DEF LevelName
    <2>2. FileName(LOGGING_LEVEL_ERROR) = <<"f", ":", " ">>
      BY DEF FileName, LOGGING_LEVEL_ERROR, LOGGING_LEVEL_INFO
    <2>3. <<"E", " ">> \in Seq({"E", " "}) /\ <<"f", ":", " ">> \in Seq({"f", ":", " "})  OBVIOUS
    <2>4. PICK x, y : x = <<"E", " ">> /\ y = <<"f", ":", " ">> /\ IsText(x) /\ IsText(y)
      BY <2>3 DEF IsText
    <2>5. IsText(x \o y)  BY <2>4, CatText
    <2> QED  BY <2>1, <2>2, <2>4, <2>5 DEF Heading
  <1>2. PICK h, n, z : h = Heading /\ n = <<name>> /\ z = <<"\n">>  OBVIOUS
  <1>3. IsText(h) /\ IsText(n) /\ IsText(z)  BY <1>1, <1>2, ShortText
  <1>4. IsText(h \o n) /\ IsText(r \o z) /\ IsText(n \o r)  BY <1>3, CatText
  <1>5. text = (h \o (n \o r)) \o z
    <2>1. ~(LOGGING_LEVEL_ERROR < LOGGING_LEVEL_DEBUG)  BY DEF LOGGING_LEVEL_ERROR, LOGGING_LEVEL_DEBUG
    <2> QED  BY <1>2, <2>1 DEF logging_log_msg, Heading
  <1>6. Associative(h, n, r) /\ Associative(h \o n, r, z)  BY <1>3, <1>4, CatAssociative
  <1>7. text = (h \o n) \o (r \o z)  BY <1>5, <1>6 DEF Associative
  <1>8. Splits(text, h \o n, r \o z)  BY <1>4, <1>7, SplitText
  <1> QED  BY <1>1, <1>2, <1>4, <1>8

\* What is written of a description without a number.
LEMMA PlainText ==
    ASSUME NEW d, NEW name, Plain(d, name), NEW args, IsText(args)
    PROVE  log_formated_str(d, args).out = <<name>> \o <<"\n">>
  <1>2. name # "%" /\ Len(d) = 2 /\ d[1] = name /\ d[2] = "\n"
    BY DEF Plain
  <1>3. IsText(args) /\ \A x : <<>> \o <<x>> = <<x>> /\ IsText(<<x>>)  BY ShortText, TextFacts
  <1>4. PICK a : a = FormatLoop(d, args)  OBVIOUS
  <1>5. a[0] = Begin(args) /\ a[1] = FormatStep(a[0], name) /\ a[2] = FormatStep(a[1], "\n")
    <2>1. PICK N \in Nat : N = 2  OBVIOUS
    <2>2. N = Len(d)  BY <1>2, <2>1
    <2>3. a[0] = Begin(args) /\ \A n \in 0 .. N - 1 : a[n + 1] = FormatStep(a[n], d[n + 1])
      BY <1>4, <2>2, FormatLoopIs
    <2>4. 0 \in 0 .. N - 1 /\ 1 \in 0 .. N - 1 /\ 0 + 1 = 1 /\ 1 + 1 = 2  BY <2>1
    <2> QED  BY <1>2, <2>3, <2>4
  <1>6. At(a[0], "normal", NUL, args, <<>>)  BY <1>3, <1>5, AtBegin
  <1>7. At(a[1], "normal", NUL, args, <<>> \o <<name>>)  BY <1>2, <1>5, <1>6, ShortText, AtText
  <1>8. At(a[1], "normal", NUL, args, <<name>>)  BY <1>3, <1>7
  <1>9. "\n" # "%"  OBVIOUS
  <1>10. At(a[2], "normal", NUL, args, <<name>> \o <<"\n">>)  BY <1>3, <1>5, <1>8, <1>9, AtText
  <1>11. log_formated_str(d, args) = a[2]  BY <1>2, <1>4 DEF log_formated_str
  <1> QED  BY <1>10, <1>11 DEF At

\* What is written of an exception without an error code.
LEMMA PlainDescription ==
    ASSUME NEW v \in 0 .. 19, v \notin WithErrorCode, NEW m
    PROVE  log_formated_str(interrupt_descriptions(v), <<m>>).out = <<ExceptionName(v)>> \o <<"\n">>
  <1>1. Plain(interrupt_descriptions(v), ExceptionName(v))  BY DescriptionIs
  <1> QED  BY <1>1, ShortText, PlainText

\* What is written of an exception with an error code.
LEMMA NumberedDescription ==
    ASSUME NEW v \in 0 .. 19, v \in WithErrorCode \ {INT_PAGE_FAULT}, NEW n \in 0 .. IntHalf - 1
    PROVE  log_formated_str(interrupt_descriptions(v), <<n>>).out
             = <<ExceptionName(v)>> \o (<<":">> \o (itoa(n, 10) \o <<"\n">>))
  <1>1. PICK d, name, args, num : /\ d = interrupt_descriptions(v) /\ name = ExceptionName(v)
                                  /\ args = <<n>> /\ num = itoa(n, 10)
    OBVIOUS
  <1>2. /\ name # "%" /\ Len(d) = 5 /\ d[1] = name /\ d[2] = ":" /\ d[3] = "%" /\ d[4] = "d"
        /\ d[5] = "\n"
    <2>1. Numbered(d, name)  BY <1>1, DescriptionIs
    <2> QED  BY <2>1 DEF Numbered
  <1>3. PICK c1, c2, c5 : c1 = <<name>> /\ c2 = <<":">> /\ c5 = <<"\n">>  OBVIOUS
  <1>4. IsText(args) /\ IsText(c1) /\ IsText(c2) /\ IsText(c5) /\ <<>> \o c1 = c1
    BY <1>1, <1>3, ShortText, TextFacts
  <1>5. Converted("d", n, NUL) = num /\ IsText(num)
    <2>1. 0 \in Nat  OBVIOUS
    <2> QED  BY <1>1, <2>1, FaultNumbers
  <1>6. PICK a : a = FormatLoop(d, args)  OBVIOUS
  <1>7. /\ a[0] = Begin(args) /\ a[1] = FormatStep(a[0], name) /\ a[2] = FormatStep(a[1], ":")
        /\ a[3] = FormatStep(a[2], "%") /\ a[4] = FormatStep(a[3], "d") /\ a[5] = FormatStep(a[4], "\n")
    <2>1. PICK N \in Nat : N = 5  OBVIOUS
    <2>2. N = Len(d)  BY <1>2, <2>1
    <2>3. a[0] = Begin(args) /\ \A k \in 0 .. N - 1 : a[k + 1] = FormatStep(a[k], d[k + 1])
      BY <1>6, <2>2, FormatLoopIs
    <2>4. \A k \in 0 .. 4 : a[k + 1] = FormatStep(a[k], d[k + 1])  BY <2>1, <2>3
    <2>5. /\ a[0 + 1] = FormatStep(a[0], d[0 + 1]) /\ a[1 + 1] = FormatStep(a[1], d[1 + 1])
          /\ a[2 + 1] = FormatStep(a[2], d[2 + 1]) /\ a[3 + 1] = FormatStep(a[3], d[3 + 1])
          /\ a[4 + 1] = FormatStep(a[4], d[4 + 1])
      BY <2>4
    <2> QED  BY <1>2, <2>3, <2>5
  <1>8. At(a[0], "normal", NUL, args, <<>>)  BY <1>4, <1>7, AtBegin
  <1>9. At(a[1], "normal", NUL, args, c1)
    <2>1. At(a[1], "normal", NUL, args, <<>> \o <<name>>)  BY <1>2, <1>7, <1>8, ShortText, AtText
    <2> QED  BY <1>3, <1>4, <2>1
  <1>10. PICK o2 : o2 = c1 \o c2 /\ IsText(o2)  BY <1>4, CatText
  <1>11. At(a[2], "normal", NUL, args, o2)
    <2>1. ":" # "%"  OBVIOUS
    <2>2. At(a[2], "normal", NUL, args, c1 \o <<":">>)  BY <1>4, <1>7, <1>9, <2>1, AtText
    <2> QED  BY <1>3, <1>10, <2>2
  <1>12. PICK o4 : o4 = o2 \o num /\ IsText(o4)  BY <1>5, <1>10, CatText
  <1>13. PICK rest : At(a[4], "normal", NUL, rest, o4)
    <2>1. "d" \in Conversions  BY DEF Conversions
    <2>2. At(a[4], "normal", NUL, Tail(args), o2 \o Converted("d", Head(args), NUL))
      BY <1>7, <1>11, <2>1, AtNumber
    <2>3. Head(args) = n  BY <1>1
    <2> QED  BY <1>5, <1>12, <2>2, <2>3
  <1>14. At(a[5], "normal", NUL, rest, o4 \o c5)
    <2>1. "\n" # "%"  OBVIOUS
    <2>2. At(a[5], "normal", NUL, rest, o4 \o <<"\n">>)  BY <1>7, <1>12, <1>13, <2>1, AtText
    <2> QED  BY <1>3, <2>2
  <1>15. o4 \o c5 = c1 \o (c2 \o (num \o c5))
    <2>1. IsText(num \o c5)  BY <1>4, <1>5, CatText
    <2>2. Associative(o2, num, c5) /\ Associative(c1, c2, num \o c5)
      BY <1>4, <1>5, <1>10, <2>1, CatAssociative
    <2> QED  BY <1>10, <1>12, <2>2 DEF Associative
  <1>16. log_formated_str(d, args) = a[5]  BY <1>2, <1>6 DEF log_formated_str
  <1> QED  BY <1>1, <1>3, <1>14, <1>15, <1>16 DEF At

\* What is written of a page fault.
LEMMA PageFaultDescription ==
    ASSUME NEW n \in 0 .. IntHalf - 1, NEW cr2 \in Nat
    PROVE  log_formated_str(interrupt_descriptions(INT_PAGE_FAULT), <<n, cr2>>).out
             = <<ExceptionName(INT_PAGE_FAULT)>> \o
                 (<<":">> \o (itoa(n, 10) \o
                    (<<",">> \o (utoa(Unsigned(cr2, IntHalf), 16) \o <<"\n">>))))
  <1>0. INT_PAGE_FAULT \in 0 .. 19  BY DEF INT_PAGE_FAULT
  <1>1. PICK d, name, args, num, hex :
            /\ d = interrupt_descriptions(INT_PAGE_FAULT) /\ name = ExceptionName(INT_PAGE_FAULT)
            /\ args = <<n, cr2>> /\ num = itoa(n, 10) /\ hex = utoa(Unsigned(cr2, IntHalf), 16)
    OBVIOUS
  <1>2. /\ name # "%" /\ Len(d) = 8 /\ d[1] = name /\ d[2] = ":" /\ d[3] = "%" /\ d[4] = "d"
        /\ d[5] = "," /\ d[6] = "%" /\ d[7] = "x" /\ d[8] = "\n"
    <2>1. OfPageFault(d, name)  BY <1>0, <1>1, DescriptionIs
    <2> QED  BY <2>1 DEF OfPageFault
  <1>3. PICK c1, c2, c5, c8 : c1 = <<name>> /\ c2 = <<":">> /\ c5 = <<",">> /\ c8 = <<"\n">>  OBVIOUS
  <1>4. IsText(c1) /\ IsText(c2) /\ IsText(c5) /\ IsText(c8) /\ <<>> \o c1 = c1
    BY <1>3, ShortText, TextFacts
  <1>a. IsText(args) /\ Head(args) = n /\ Head(Tail(args)) = cr2
    <2>1. <<n, cr2>> \in Seq({n, cr2})  OBVIOUS
    <2>2. Head(<<n, cr2>>) = n /\ Head(Tail(<<n, cr2>>)) = cr2  OBVIOUS
    <2> QED  BY <1>1, <2>1, <2>2 DEF IsText
  <1>5. Converted("d", n, NUL) = num /\ IsText(num) /\ Converted("x", cr2, NUL) = hex /\ IsText(hex)
    BY <1>1, FaultNumbers
  <1>6. PICK a : a = FormatLoop(d, args)  OBVIOUS
  <1>7. /\ a[0] = Begin(args) /\ a[1] = FormatStep(a[0], name) /\ a[2] = FormatStep(a[1], ":")
        /\ a[3] = FormatStep(a[2], "%") /\ a[4] = FormatStep(a[3], "d") /\ a[5] = FormatStep(a[4], ",")
        /\ a[6] = FormatStep(a[5], "%") /\ a[7] = FormatStep(a[6], "x") /\ a[8] = FormatStep(a[7], "\n")
    <2>1. PICK N \in Nat : N = 8  OBVIOUS
    <2>2. N = Len(d)  BY <1>2, <2>1
    <2>3. a[0] = Begin(args) /\ \A k \in 0 .. N - 1 : a[k + 1] = FormatStep(a[k], d[k + 1])
      BY <1>6, <2>2, FormatLoopIs
    <2>4. \A k \in 0 .. 7 : a[k + 1] = FormatStep(a[k], d[k + 1])  BY <2>1, <2>3
    <2>5. /\ a[1] = FormatStep(a[0], d[1]) /\ a[2] = FormatStep(a[1], d[2])
          /\ a[3] = FormatStep(a[2], d[3]) /\ a[4] = FormatStep(a[3], d[4])
      <3>1. /\ 0 \in 0 .. 7 /\ 1 \in 0 .. 7 /\ 2 \in 0 .. 7 /\ 3 \in 0 .. 7
            /\ 0 + 1 = 1 /\ 1 + 1 = 2 /\ 2 + 1 = 3 /\ 3 + 1 = 4
        OBVIOUS
      <3> QED  BY <2>4, <3>1
    <2>6. /\ a[5] = FormatStep(a[4], d[5]) /\ a[6] = FormatStep(a[5], d[6])
          /\ a[7] = FormatStep(a[6], d[7]) /\ a[8] = FormatStep(a[7], d[8])
      <3>1. /\ 4 \in 0 .. 7 /\ 5 \in 0 .. 7 /\ 6 \in 0 .. 7 /\ 7 \in 0 .. 7
            /\ 4 + 1 = 5 /\ 5 + 1 = 6 /\ 6 + 1 = 7 /\ 7 + 1 = 8
        OBVIOUS
      <3> QED  BY <2>4, <3>1
    <2> QED  BY <1>2, <2>3, <2>5, <2>6, Zenon
  <1>8. At(a[0], "normal", NUL, args, <<>>)  BY <1>a, <1>7, AtBegin
  <1>9. At(a[1], "normal", NUL, args, c1)
    <2>1. At(a[1], "normal", NUL, args, <<>> \o <<name>>)  BY <1>2, <1>7, <1>8, ShortText, AtText
    <2> QED  BY <1>3, <1>4, <2>1
  <1>10. PICK o2 : o2 = c1 \o c2 /\ IsText(o2)  BY <1>4, CatText
  <1>11. At(a[2], "normal", NUL, args, o2)
    <2>1. ":" # "%"  OBVIOUS
    <2>2. At(a[2], "normal", NUL, args, c1 \o <<":">>)  BY <1>4, <1>7, <1>9, <2>1, AtText
    <2> QED  BY <1>3, <1>10, <2>2
  <1>12. PICK o4 : o4 = o2 \o num /\ IsText(o4)  BY <1>5, <1>10, CatText
  <1>13. At(a[4], "normal", NUL, Tail(args), o4)
    <2>1. "d" \in Conversions  BY DEF Conversions
    <2>2. At(a[4], "normal", NUL, Tail(args), o2 \o Converted("d", Head(args), NUL))
      BY <1>7, <1>11, <2>1, AtNumber
    <2> QED  BY <1>a, <1>5, <1>12, <2>2
  <1>14. PICK o5 : o5 = o4 \o c5 /\ IsText(o5)  BY <1>4, <1>12, CatText
  <1>15. At(a[5], "normal", NUL, Tail(args), o5)
    <2>1. "," # "%"  OBVIOUS
    <2>2. At(a[5], "normal", NUL, Tail(args), o4 \o <<",">>)  BY <1>7, <1>12, <1>13, <2>1, AtText
    <2> QED  BY <1>3, <1>14, <2>2
  <1>16. PICK o7 : o7 = o5 \o hex /\ IsText(o7)  BY <1>5, <1>14, CatText
  <1>17. PICK rest : At(a[7], "normal", NUL, rest, o7)
    <2>1. "x" \in Conversions  BY DEF Conversions
    <2>2. At(a[7], "normal", NUL, Tail(Tail(args)), o5 \o Converted("x", Head(Tail(args)), NUL))
      BY <1>7, <1>15, <2>1, AtNumber
    <2> QED  BY <1>a, <1>5, <1>16, <2>2
  <1>18. At(a[8], "normal", NUL, rest, o7 \o c8)
    <2>1. "\n" # "%"  OBVIOUS
    <2>2. At(a[8], "normal", NUL, rest, o7 \o <<"\n">>)  BY <1>7, <1>16, <1>17, <2>1, AtText
    <2> QED  BY <1>3, <2>2
  <1>19. o7 \o c8 = c1 \o (c2 \o (num \o (c5 \o (hex \o c8))))
    <2>1. PICK x1 : x1 = hex \o c8 /\ IsText(x1)  BY <1>4, <1>5, CatText
    <2>2. PICK x2 : x2 = c5 \o x1 /\ IsText(x2)  BY <1>4, <2>1, CatText
    <2>3. PICK x3 : x3 = num \o x2 /\ IsText(x3)  BY <1>5, <2>2, CatText
    <2>4. Associative(o5, hex, c8) /\ Associative(o4, c5, x1) /\ Associative(o2, num, x2)
          /\ Associative(c1, c2, x3)
      BY <1>4, <1>5, <1>10, <1>12, <1>14, <2>1, <2>2, <2>3, CatAssociative
    <2> QED  BY <1>10, <1>12, <1>14, <1>16, <2>1, <2>2, <2>3, <2>4 DEF Associative
  <1>20. log_formated_str(d, args) = a[8]  BY <1>2, <1>6 DEF log_formated_str
  <1> QED  BY <1>1, <1>3, <1>18, <1>19, <1>20 DEF At

\* The two descriptions between which the comma is missing.
LEMMA TwoDescriptions ==
    ASSUME NEW d, d = interrupt_descriptions(INT_VIRTUALIZATION_EXCEPTION)
    PROVE  /\ Len(d) = 7
           /\ d[1] = "VE" /\ d[2] = "\n" /\ d[3] = "CP" /\ d[4] = ":" /\ d[5] = "%" /\ d[6] = "d"
           /\ d[7] = "\n"
  <1>1. PICK x, y : x = Described(20) /\ y = Described(21)  OBVIOUS
  <1>2. d = x \o y
    <2>1. /\ INT_VIRTUALIZATION_EXCEPTION = 20 /\ 20 + 1 = 21 /\ ~(20 < 20)
          /\ INT_CONTROL_PROTECTION_EXCEPTION # INT_VIRTUALIZATION_EXCEPTION
      BY DEF INT_VIRTUALIZATION_EXCEPTION, INT_CONTROL_PROTECTION_EXCEPTION
    <2>2. d = Described(20) \o Described(20 + 1)  BY <2>1, Zenon DEF interrupt_descriptions
    <2> QED  BY <1>1, <2>1, <2>2
  <1>3. ExceptionName(20) = "VE" /\ ExceptionName(21) = "CP"
    BY DEF ExceptionName, ExceptionNames
  <1>4. 20 \notin WithErrorCode /\ 21 \in WithErrorCode \ {INT_PAGE_FAULT}
    BY DEF WithErrorCode, INT_PAGE_FAULT, INT_CONTROL_PROTECTION_EXCEPTION
  <1>5. Plain(x, "VE") /\ Numbered(y, "CP")
    <2>1. 20 \in 0 .. 21 /\ 21 \in 0 .. 21  OBVIOUS
    <2> QED  BY <1>1, <1>3, <1>4, <2>1, DescribedIs
  <1>6. IsText(x) /\ IsText(y)  BY <1>1, DescribedText
  <1>7. PICK L \in Nat, K \in Nat : L = 2 /\ K = 5  OBVIOUS
  <1>8. L = Len(x) /\ K = Len(y)  BY <1>5, <1>7 DEF Plain, Numbered
  <1>9. Joined(d, x, L, y, K)  BY <1>2, <1>6, <1>8, CatChars
  <1>10. /\ d[1] = x[1] /\ d[2] = x[2]
         /\ d[2 + 1] = y[1] /\ d[2 + 2] = y[2] /\ d[2 + 3] = y[3] /\ d[2 + 4] = y[4] /\ d[2 + 5] = y[5]
    BY <1>7, <1>9 DEF Joined
  <1>11. Len(d) = 7 /\ 2 + 1 = 3 /\ 2 + 2 = 4 /\ 2 + 3 = 5 /\ 2 + 4 = 6 /\ 2 + 5 = 7
    BY <1>7, <1>9 DEF Joined
  <1> QED  BY <1>5, <1>10, <1>11 DEF Plain, Numbered

\* What is written of them goes on with the name of the second.
LEMMA TwoDescriptionsWritten ==
    ASSUME NEW m \in Int
    PROVE  \E r : /\ IsText(r) /\ r[2] = "CP" /\ Len(r) >= 2
                  /\ log_formated_str(interrupt_descriptions(INT_VIRTUALIZATION_EXCEPTION), <<m>>).out
                       = <<"VE">> \o r
  <1>1. PICK d, args, num : /\ d = interrupt_descriptions(INT_VIRTUALIZATION_EXCEPTION)
                            /\ args = <<m>> /\ num = Converted("d", m, NUL)
    OBVIOUS
  <1>2. /\ Len(d) = 7
        /\ d[1] = "VE" /\ d[2] = "\n" /\ d[3] = "CP" /\ d[4] = ":" /\ d[5] = "%" /\ d[6] = "d"
        /\ d[7] = "\n"
    BY <1>1, TwoDescriptions
  <1>3. PICK c1, c2, c3, c4 : c1 = <<"VE">> /\ c2 = <<"\n">> /\ c3 = <<"CP">> /\ c4 = <<":">>
    OBVIOUS
  <1>4. IsText(args) /\ IsText(c1) /\ IsText(c2) /\ IsText(c3) /\ IsText(c4) /\ <<>> \o c1 = c1
    BY <1>1, <1>3, ShortText, TextFacts
  <1>5. "d" \in Conversions /\ IsText(num) /\ Head(args) = m
    <2>1. "d" \in Conversions /\ Fits("d", m)  BY DEF Conversions, Fits
    <2>2. Head(args) = m  BY <1>1
    <2> QED  BY <1>1, <2>1, <2>2, ConvertedText
  <1>6. PICK a : a = FormatLoop(d, args)  OBVIOUS
  <1>7. /\ a[0] = Begin(args) /\ a[1] = FormatStep(a[0], "VE") /\ a[2] = FormatStep(a[1], "\n")
        /\ a[3] = FormatStep(a[2], "CP") /\ a[4] = FormatStep(a[3], ":") /\ a[5] = FormatStep(a[4], "%")
        /\ a[6] = FormatStep(a[5], "d") /\ a[7] = FormatStep(a[6], "\n")
    <2>1. PICK N \in Nat : N = 7  OBVIOUS
    <2>2. N = Len(d)  BY <1>2, <2>1
    <2>3. a[0] = Begin(args) /\ \A k \in 0 .. N - 1 : a[k + 1] = FormatStep(a[k], d[k + 1])
      BY <1>6, <2>2, FormatLoopIs
    <2>4. \A k \in 0 .. 6 : a[k + 1] = FormatStep(a[k], d[k + 1])  BY <2>1, <2>3
    <2>5. /\ a[1] = FormatStep(a[0], d[1]) /\ a[2] = FormatStep(a[1], d[2])
          /\ a[3] = FormatStep(a[2], d[3]) /\ a[4] = FormatStep(a[3], d[4])
      <3>1. /\ 0 \in 0 .. 6 /\ 1 \in 0 .. 6 /\ 2 \in 0 .. 6 /\ 3 \in 0 .. 6
            /\ 0 + 1 = 1 /\ 1 + 1 = 2 /\ 2 + 1 = 3 /\ 3 + 1 = 4
        OBVIOUS
      <3> QED  BY <2>4, <3>1
    <2>6. /\ a[5] = FormatStep(a[4], d[5]) /\ a[6] = FormatStep(a[5], d[6])
          /\ a[7] = FormatStep(a[6], d[7])
      <3>1. /\ 4 \in 0 .. 6 /\ 5 \in 0 .. 6 /\ 6 \in 0 .. 6
            /\ 4 + 1 = 5 /\ 5 + 1 = 6 /\ 6 + 1 = 7
        OBVIOUS
      <3> QED  BY <2>4, <3>1
    <2> QED  BY <1>2, <2>3, <2>5, <2>6, Zenon
  <1>8. At(a[0], "normal", NUL, args, <<>>)  BY <1>4, <1>7, AtBegin
  <1>9. At(a[1], "normal", NUL, args, c1)
    <2>1. "VE" # "%"  OBVIOUS
    <2>2. At(a[1], "normal", NUL, args, <<>> \o <<"VE">>)  BY <1>7, <1>8, <2>1, ShortText, AtText
    <2> QED  BY <1>3, <1>4, <2>2
  <1>10. PICK o2 : o2 = c1 \o c2 /\ IsText(o2)  BY <1>4, CatText
  <1>11. At(a[2], "normal", NUL, args, o2)
    <2>1. "\n" # "%"  OBVIOUS
    <2>2. At(a[2], "normal", NUL, args, c1 \o <<"\n">>)  BY <1>4, <1>7, <1>9, <2>1, AtText
    <2> QED  BY <1>3, <1>10, <2>2
  <1>12. PICK o3 : o3 = o2 \o c3 /\ IsText(o3)  BY <1>4, <1>10, CatText
  <1>13. At(a[3], "normal", NUL, args, o3)
    <2>1. "CP" # "%"  OBVIOUS
    <2>2. At(a[3], "normal", NUL, args, o2 \o <<"CP">>)  BY <1>7, <1>10, <1>11, <2>1, AtText
    <2> QED  BY <1>3, <1>12, <2>2
  <1>14. PICK o4 : o4 = o3 \o c4 /\ IsText(o4)  BY <1>4, <1>12, CatText
  <1>15. At(a[4], "normal", NUL, args, o4)
    <2>1. ":" # "%"  OBVIOUS
    <2>2. At(a[4], "normal", NUL, args, o3 \o <<":">>)  BY <1>7, <1>12, <1>13, <2>1, AtText
    <2> QED  BY <1>3, <1>14, <2>2
  <1>16. PICK o6 : o6 = o4 \o num /\ IsText(o6)  BY <1>5, <1>14, CatText
  <1>17. PICK rest : At(a[6], "normal", NUL, rest, o6)
    <2>1. At(a[6], "normal", NUL, Tail(args), o4 \o Converted("d", Head(args), NUL))
      BY <1>5, <1>7, <1>15, AtNumber
    <2> QED  BY <1>1, <1>5, <1>16, <2>1
  <1>18. At(a[7], "normal", NUL, rest, o6 \o c2)
    <2>1. "\n" # "%"  OBVIOUS
    <2>2. At(a[7], "normal", NUL, rest, o6 \o <<"\n">>)  BY <1>7, <1>16, <1>17, <2>1, AtText
    <2> QED  BY <1>3, <2>2
  <1>19. PICK y1 : y1 = num \o c2 /\ IsText(y1)  BY <1>4, <1>5, CatText
  <1>20. PICK y2 : y2 = c4 \o y1 /\ IsText(y2)  BY <1>4, <1>19, CatText
  <1>21. PICK y3 : y3 = c3 \o y2 /\ IsText(y3)  BY <1>4, <1>20, CatText
  <1>22. PICK r : r = c2 \o y3 /\ IsText(r)  BY <1>4, <1>21, CatText
  <1>23. o6 \o c2 = c1 \o r
    <2>1. Associative(o4, num, c2) /\ Associative(o3, c4, y1) /\ Associative(o2, c3, y2)
          /\ Associative(c1, c2, y3)
      BY <1>4, <1>5, <1>10, <1>12, <1>14, <1>19, <1>20, <1>21, CatAssociative
    <2> QED  BY <1>10, <1>12, <1>14, <1>16, <1>19, <1>20, <1>21, <1>22, <2>1 DEF Associative
  <1>24. r[2] = "CP" /\ Len(r) >= 2
    <2>1. Len(c2) = 1 /\ Len(c3) = 1 /\ c3[1] = "CP"  BY <1>3
    <2>2. y3[1] = c3[1] /\ 1 \in 1 .. Len(y3)
      <3>1. 1 \in 1 .. Len(c3) /\ Len(y2) \in Nat  BY <1>20, <2>1, TextFacts
      <3>2. Len(y3) = Len(c3) + Len(y2) /\ y3[1] = c3[1]  BY <1>4, <1>20, <1>21, <3>1, CatText
      <3> QED  BY <2>1, <3>1, <3>2
    <2>3. r[Len(c2) + 1] = y3[1]  BY <1>4, <1>21, <1>22, <2>2, CatText
    <2>4. Len(c2) + 1 = 2  BY <2>1
    <2>5. Len(r) = Len(c2) + Len(y3)  BY <1>4, <1>21, <1>22, CatText
    <2>6. Len(r) >= 2  BY <2>1, <2>2, <2>5
    <2> QED  BY <2>1, <2>2, <2>3, <2>4, <2>6
  <1>25. log_formated_str(d, args) = a[7]  BY <1>2, <1>6 DEF log_formated_str
  <1>26. log_formated_str(d, args).out = <<"VE">> \o r  BY <1>3, <1>18, <1>23, <1>25 DEF At
  <1> QED  BY <1>1, <1>22, <1>24, <1>26

\* The description in 21's place.
LEMMA ReservedDescription ==
    ASSUME NEW args, IsText(args)
    PROVE  log_formated_str(interrupt_descriptions(INT_CONTROL_PROTECTION_EXCEPTION), args).out
             = <<"reserved">> \o <<"\n">>
  <1>1. interrupt_descriptions(INT_CONTROL_PROTECTION_EXCEPTION) = <<"reserved", "\n">>
    <2>1. /\ ~(INT_CONTROL_PROTECTION_EXCEPTION < INT_VIRTUALIZATION_EXCEPTION)
          /\ INT_CONTROL_PROTECTION_EXCEPTION # INT_VIRTUALIZATION_EXCEPTION
      BY DEF INT_VIRTUALIZATION_EXCEPTION, INT_CONTROL_PROTECTION_EXCEPTION
    <2> QED  BY <2>1 DEF interrupt_descriptions
  <1>2. Plain(<<"reserved", "\n">>, "reserved")  BY DEF Plain
  <1> QED  BY <1>1, <1>2, PlainText

\* Texts that begin with the same and go on with different characters differ.
LEMMA OneBeginning ==
    ASSUME NEW h, IsText(h), NEW x, NEW y, NEW t,
           IsPrefix(h \o <<x>>, t), IsPrefix(h \o <<y>>, t)
    PROVE  x = y
  <1>1. PICK e : e = <<>>  OBVIOUS
  <1>2. PICK b, c : b = h \o <<x>> /\ c = h \o <<y>>  OBVIOUS
  <1>3. IsText(e) /\ IsText(b) /\ IsText(c)  BY <1>1, <1>2, ShortText, CatText
  <1>4. PICK L \in Nat : L = Len(h)  BY TextFacts
  <1>5. /\ Len(b) = L + 1 /\ Len(c) = L + 1
        /\ b[L + 1] = x /\ c[L + 1] = y
    <2>1. IsText(<<x>>) /\ IsText(<<y>>)  BY ShortText
    <2>2. Len(<<x>>) = 1 /\ Len(<<y>>) = 1 /\ <<x>>[1] = x /\ <<y>>[1] = y /\ 1 \in 1 .. 1  OBVIOUS
    <2> QED  BY <1>2, <1>4, <2>1, <2>2, CatText
  <1>6. SubSeq(b, 1, L + 1) = b /\ SubSeq(c, 1, L + 1) = c
    <2>1. Cut(e, b, e) /\ Cut(e, c, e)  BY <1>3, CutText
    <2>2. e \o (b \o e) = b /\ e \o (c \o e) = c /\ Len(e) = 0  BY <1>1, <1>3, TextFacts
    <2>3. SubSeq(b, 0 + 1, 0 + (L + 1)) = b /\ SubSeq(c, 0 + 1, 0 + (L + 1)) = c
      BY <1>5, <2>1, <2>2 DEF Cut
    <2>4. 0 + 1 = 1 /\ 0 + (L + 1) = L + 1  OBVIOUS
    <2> QED  BY <2>3, <2>4
  <1>7. SubSeq(b, 1, L + 1) = SubSeq(t, 1, L + 1) /\ SubSeq(c, 1, L + 1) = SubSeq(t, 1, L + 1)
    BY <1>2, <1>5 DEF IsPrefix
  <1> QED  BY <1>5, <1>6, <1>7

\* At i there is a character, then a numeral, and then z.
NumberAt(rest, i, c, num, z) ==
    /\ rest[i] = c
    /\ SubSeq(rest, i + 1, i + Len(num)) = num
    /\ SubSeq(rest, i + Len(num) + 1, Len(rest)) = z
    /\ Len(rest) = i + Len(num) + Len(z)

LEMMA NumberInText ==
    ASSUME NEW b, NEW c, NEW num, NEW z, IsText(b), IsText(num), IsText(z),
           NEW rest, rest = b \o (<<c>> \o (num \o z)), NEW i, i = Len(b) + 1
    PROVE  NumberAt(rest, i, c, num, z)
  <1>1. PICK a : a = <<c>>  OBVIOUS
  <1>2. IsText(a)  BY <1>1, ShortText
  <1>3. Len(a) = 1 /\ a[1] = c  BY <1>1
  <1>4. PICK B \in Nat, K \in Nat, M \in Nat : B = Len(b) /\ K = Len(num) /\ M = Len(z)  BY TextFacts
  <1>5. PICK y : y = num \o z /\ IsText(y)  BY CatText
  <1>6. PICK x : x = a \o y /\ IsText(x)  BY <1>2, <1>5, CatText
  <1>7. rest = b \o x  BY <1>1, <1>5, <1>6
  <1>8. PICK front : front = b \o a /\ IsText(front)  BY <1>2, CatText
  <1>9. PICK behind : behind = front \o num /\ IsText(behind)  BY <1>8, CatText
  <1>10. Len(front) = B + 1
    <2>1. Len(front) = Len(b) + Len(a)  BY <1>2, <1>8, CatText
    <2> QED  BY <1>3, <1>4, <2>1
  <1>11. Len(behind) = B + 1 + K
    <2>1. Len(behind) = Len(front) + Len(num)  BY <1>8, <1>9, CatText
    <2> QED  BY <1>4, <1>10, <2>1
  <1>12. rest = front \o y /\ rest = behind \o z
    <2>1. Associative(b, a, y) /\ Associative(front, num, z)  BY <1>2, <1>5, <1>8, CatAssociative
    <2> QED  BY <1>5, <1>6, <1>7, <1>8, <1>9, <2>1 DEF Associative
  <1>13. rest[i] = c
    <2>1. Splits(front, b, a)  BY <1>2, <1>8, SplitText
    <2>2. \A k \in 1 .. Len(front) : (front \o y)[k] = front[k]  BY <1>5, <1>8, CatText
    <2>3. \A k \in 1 .. Len(a) : (b \o a)[Len(b) + k] = a[k]  BY <1>2, CatText
    <2>4. i \in 1 .. Len(front) /\ 1 \in 1 .. Len(a)  BY <1>3, <1>4, <1>10
    <2>5. rest[i] = front[i] /\ (b \o a)[Len(b) + 1] = a[1]  BY <1>12, <2>2, <2>3, <2>4
    <2> QED  BY <1>3, <1>8, <2>5
  <1>14. SubSeq(rest, i + 1, i + Len(num)) = num
    <2>1. Cut(front, num, z)  BY <1>8, CutText
    <2>2. SubSeq(rest, Len(front) + 1, Len(front) + Len(num)) = num  BY <1>5, <1>12, <2>1 DEF Cut
    <2>3. Len(front) = i  BY <1>4, <1>10
    <2> QED  BY <2>2, <2>3
  <1>15. /\ SubSeq(rest, i + Len(num) + 1, Len(rest)) = z
         /\ Len(rest) = i + Len(num) + Len(z)
    <2>1. Splits(rest, behind, z)  BY <1>9, <1>12, SplitText
    <2>2. SubSeq(rest, Len(behind) + 1, Len(rest)) = z /\ Len(rest) = Len(behind) + Len(z)
      BY <2>1 DEF Splits
    <2>3. Len(behind) = i + Len(num)  BY <1>4, <1>11
    <2> QED  BY <2>2, <2>3
  <1> QED  BY <1>13, <1>14, <1>15 DEF NumberAt

\* The report of an exception whose description is its own names it.
LEMMA NamesItself ==
    ASSUME NEW v \in 0 .. 19, NEW n \in 0 .. IntHalf - 1, NEW cr2 \in Nat, NEW missing
    PROVE  NamesTheFault(Report(v, n, cr2, missing), v, n, cr2)
  <1>1. PICK text, name, begin, two :
           /\ text = Report(v, n, cr2, missing) /\ name = ExceptionName(v)
           /\ begin = Heading \o <<name>> /\ two = <<"\n", "\n">>
    OBVIOUS
  <1>2. PICK nl : nl = <<"\n">> /\ IsText(nl) /\ nl \o nl = two  BY <1>1, TwoLines
  <1>3. IsText(two) /\ Len(two) = 2
    <2>1. IsText(two)  BY <1>2, CatText
    <2>2. Len(two) = 2  BY <1>1
    <2> QED  BY <2>1, <2>2
  <1>4. INT_PAGE_FAULT \in WithErrorCode  BY DEF WithErrorCode
  <1>5. CASE v \notin WithErrorCode
    <2>1. text = logging_log_msg(LOGGING_LEVEL_DEBUG, LOGGING_LEVEL_ERROR,
                                 interrupt_descriptions(v), <<missing>>)
      BY <1>1, <1>4, <1>5 DEF Report
    <2>2. log_formated_str(interrupt_descriptions(v), <<missing>>).out = <<name>> \o nl
      BY <1>1, <1>2, <1>5, PlainDescription
    <2>3. Splits(text, begin, nl \o nl)  BY <1>1, <1>2, <2>1, <2>2, ReportSplits
    <2>4. IsPrefix(begin, text) /\ SubSeq(text, Len(begin) + 1, Len(text)) = two
      BY <1>2, <2>3 DEF Splits
    <2> QED  BY <1>1, <1>5, <2>4 DEF NamesTheFault, Heading
  <1>6. CASE v \in WithErrorCode \ {INT_PAGE_FAULT}
    <2>1. text = logging_log_msg(LOGGING_LEVEL_DEBUG, LOGGING_LEVEL_ERROR,
                                 interrupt_descriptions(v), <<n>>)
      BY <1>1, <1>6 DEF Report
    <2>2. PICK num : num = itoa(n, 10) /\ IsText(num) /\ Reads(num, 10, n)  BY FaultNumbers
    <2>3. PICK c, r : c = <<":">> /\ r = c \o (num \o nl)  OBVIOUS
    <2>4. IsText(c) /\ IsText(num \o nl) /\ IsText(r)  BY <1>2, <2>2, <2>3, ShortText, CatText
    <2>5. log_formated_str(interrupt_descriptions(v), <<n>>).out = <<name>> \o r
      BY <1>1, <1>2, <1>6, <2>2, <2>3, NumberedDescription
    <2>6. Splits(text, begin, r \o nl)  BY <1>1, <1>2, <2>1, <2>4, <2>5, ReportSplits
    <2>7. PICK rest : rest = <<":">> \o (num \o two)  OBVIOUS
    <2>8. r \o nl = rest
      <3>1. Associative(c, num \o nl, nl) /\ Associative(num, nl, nl)
        BY <1>2, <2>2, <2>4, CatAssociative
      <3> QED  BY <1>2, <2>3, <2>7, <3>1 DEF Associative
    <2>9. IsPrefix(begin, text) /\ SubSeq(text, Len(begin) + 1, Len(text)) = rest
      BY <2>6, <2>8 DEF Splits
    <2>10. NumberAt(rest, 1, ":", num, two)
      <3>1. PICK b : b = <<>> /\ IsText(b) /\ Len(b) = 0  BY ShortText
      <3>2. rest = b \o (<<":">> \o (num \o two))
        <4>1. IsText(rest)  BY <1>3, <2>2, <2>7, ShortText, CatText
        <4> QED  BY <2>7, <3>1, <4>1, TextFacts
      <3>3. 1 = Len(b) + 1  BY <3>1
      <3> QED  BY <1>3, <2>2, <3>1, <3>2, <3>3, NumberInText
    <2>11. PICK K \in Nat, i \in Nat : K = Len(num) /\ i = K + 2  BY <2>2, TextFacts
    <2>12. /\ rest[1] = ":" /\ SubSeq(rest, 2, i - 1) = num /\ SubSeq(rest, i, Len(rest)) = two
           /\ i \in 2 .. Len(rest)
      <3>1. /\ rest[1] = ":" /\ SubSeq(rest, 1 + 1, 1 + K) = num
            /\ SubSeq(rest, 1 + K + 1, Len(rest)) = two /\ Len(rest) = 1 + K + 2
        BY <1>3, <2>10, <2>11 DEF NumberAt
      <3>2. 1 + 1 = 2 /\ 1 + K = i - 1 /\ 1 + K + 1 = i  BY <2>11
      <3> QED  BY <2>11, <3>1, <3>2
    <2>13. \E j \in 2 .. Len(rest) : /\ Reads(SubSeq(rest, 2, j - 1), 10, n)
                                     /\ SubSeq(rest, j, Len(rest)) = <<"\n", "\n">>
      BY <1>1, <2>2, <2>12
    <2>14. v \in WithErrorCode /\ v # INT_PAGE_FAULT  BY <1>6
    <2> QED  BY <1>1, <2>9, <2>12, <2>13, <2>14 DEF NamesTheFault, Heading
  <1>7. CASE v = INT_PAGE_FAULT
    <2>1. text = logging_log_msg(LOGGING_LEVEL_DEBUG, LOGGING_LEVEL_ERROR,
                                 interrupt_descriptions(v), <<n, cr2>>)
      BY <1>1, <1>4, <1>7, Zenon DEF Report
    <2>2. PICK num, hex : /\ num = itoa(n, 10) /\ IsText(num) /\ Reads(num, 10, n)
                          /\ hex = utoa(Unsigned(cr2, IntHalf), 16) /\ IsText(hex)
                          /\ Reads(hex, 16, Unsigned(cr2, IntHalf))
      BY FaultNumbers
    <2>3. PICK c, k : c = <<":">> /\ k = <<",">> /\ IsText(c) /\ IsText(k)  BY ShortText
    <2>4. PICK x1 : x1 = hex \o nl /\ IsText(x1)  BY <1>2, <2>2, CatText
    <2>5. PICK x2 : x2 = k \o x1 /\ IsText(x2)  BY <2>3, <2>4, CatText
    <2>6. PICK x3 : x3 = num \o x2 /\ IsText(x3)  BY <2>2, <2>5, CatText
    <2>7. PICK r : r = c \o x3 /\ IsText(r)  BY <2>3, <2>6, CatText
    <2>8. log_formated_str(interrupt_descriptions(v), <<n, cr2>>).out = <<name>> \o r
      BY <1>1, <1>2, <1>7, <2>2, <2>3, <2>4, <2>5, <2>6, <2>7, PageFaultDescription
    <2>9. Splits(text, begin, r \o nl)  BY <1>1, <1>2, <2>1, <2>7, <2>8, ReportSplits
    <2>10. PICK z : z = <<",">> \o (hex \o two) /\ IsText(z)  BY <1>3, <2>2, ShortText, CatText
    <2>11. PICK rest : rest = <<":">> \o (num \o z)  OBVIOUS
    <2>12. r \o nl = rest
      <3>1. /\ Associative(c, x3, nl) /\ Associative(num, x2, nl) /\ Associative(k, x1, nl)
            /\ Associative(hex, nl, nl)
        BY <1>2, <2>2, <2>3, <2>4, <2>5, <2>6, CatAssociative
      <3>2. x1 \o nl = hex \o two  BY <1>2, <2>4, <3>1 DEF Associative
      <3>3. x2 \o nl = z  BY <2>3, <2>5, <2>10, <3>1, <3>2 DEF Associative
      <3>4. x3 \o nl = num \o z  BY <2>6, <3>1, <3>3 DEF Associative
      <3> QED  BY <2>3, <2>7, <2>11, <3>1, <3>4 DEF Associative
    <2>13. IsPrefix(begin, text) /\ SubSeq(text, Len(begin) + 1, Len(text)) = rest
      BY <2>9, <2>12 DEF Splits
    <2>14. NumberAt(rest, 1, ":", num, z)
      <3>1. PICK b : b = <<>> /\ IsText(b) /\ Len(b) = 0  BY ShortText
      <3>2. rest = b \o (<<":">> \o (num \o z))
        <4>1. IsText(rest)  BY <2>2, <2>10, <2>11, ShortText, CatText
        <4> QED  BY <2>11, <3>1, <4>1, TextFacts
      <3>3. 1 = Len(b) + 1  BY <3>1
      <3> QED  BY <2>2, <2>10, <3>1, <3>2, <3>3, NumberInText
    <2>15. PICK K \in Nat, J \in Nat, i \in Nat : K = Len(num) /\ J = Len(hex) /\ i = K + 2
      BY <2>2, TextFacts
    <2>16. NumberAt(rest, i, ",", hex, two)
      <3>1. PICK b : b = c \o num /\ IsText(b)  BY <2>2, <2>3, CatText
      <3>2. Len(b) = Len(c) + Len(num)  BY <2>2, <2>3, <3>1, CatText
      <3>3. Len(c) = 1  BY <2>3
      <3>4. i = Len(b) + 1  BY <2>15, <3>2, <3>3
      <3>5. Associative(c, num, z)  BY <2>2, <2>3, <2>10, CatAssociative
      <3>6. rest = b \o (<<",">> \o (hex \o two))
        BY <2>3, <2>10, <2>11, <3>1, <3>5 DEF Associative
      <3> QED  BY <1>3, <2>2, <3>1, <3>4, <3>6, NumberInText
    <2>17. PICK L : L = Len(rest)  OBVIOUS
    <2>18. /\ rest[i] = "," /\ SubSeq(rest, i + 1, i + J) = hex
           /\ SubSeq(rest, i + J + 1, L) = two /\ L = i + J + 2
      BY <1>3, <2>15, <2>16, <2>17 DEF NumberAt
    <2>19. /\ rest[1] = ":" /\ SubSeq(rest, 2, i - 1) = num
           /\ SubSeq(rest, L - 1, L) = two /\ SubSeq(rest, i + 1, L - 2) = hex /\ i \in 2 .. L
      <3>1. rest[1] = ":" /\ SubSeq(rest, 1 + 1, 1 + K) = num  BY <2>14, <2>15 DEF NumberAt
      <3>a. i = K + 2 /\ L = i + J + 2  BY <2>15, <2>18
      <3>2. 1 + 1 = 2 /\ 1 + K = i - 1 /\ L - 1 = i + J + 1 /\ L - 2 = i + J  BY <3>a
      <3>3. i \in 2 .. L  BY <3>a
      <3> QED  BY <2>18, <3>1, <3>2, <3>3
    <2>20. v \in WithErrorCode  BY <1>4, <1>7
    <2>21. \E l \in 2 .. Len(rest) :
              /\ Reads(SubSeq(rest, 2, l - 1), 10, n)
              /\ rest[l] = "," /\ SubSeq(rest, Len(rest) - 1, Len(rest)) = <<"\n", "\n">>
              /\ Reads(SubSeq(rest, l + 1, Len(rest) - 2), 16, Unsigned(cr2, IntHalf))
      BY <1>1, <2>2, <2>17, <2>18, <2>19
    <2>22. begin = (LevelName(LOGGING_LEVEL_ERROR) \o FileName(LOGGING_LEVEL_ERROR))
                      \o <<ExceptionName(v)>>
      BY <1>1 DEF Heading
    <2>23. NamesTheFault(text, v, n, cr2)
      BY <1>7, <2>13, <2>19, <2>20, <2>21, <2>22 DEF NamesTheFault
    <2> QED  BY <1>1, <2>23
  <1> QED  BY <1>4, <1>5, <1>6, <1>7

\* The reports of the two others name another exception, or none.
LEMMA NamesAnother ==
    ASSUME NEW n \in 0 .. IntHalf - 1, NEW cr2 \in Nat, NEW missing \in Int,
           NEW v \in {INT_VIRTUALIZATION_EXCEPTION, INT_CONTROL_PROTECTION_EXCEPTION}
    PROVE  ~NamesTheFault(Report(v, n, cr2, missing), v, n, cr2)
  <1>1. PICK text : text = Report(v, n, cr2, missing)  OBVIOUS
  <1>2. SUFFICES ASSUME NamesTheFault(text, v, n, cr2) PROVE FALSE
    BY <1>1
  <1>3. /\ INT_VIRTUALIZATION_EXCEPTION \notin WithErrorCode
        /\ INT_CONTROL_PROTECTION_EXCEPTION \in WithErrorCode \ {INT_PAGE_FAULT}
        /\ INT_VIRTUALIZATION_EXCEPTION # INT_PAGE_FAULT
    BY DEF WithErrorCode, INT_PAGE_FAULT, INT_VIRTUALIZATION_EXCEPTION,
           INT_CONTROL_PROTECTION_EXCEPTION
  <1>4. /\ ExceptionName(INT_VIRTUALIZATION_EXCEPTION) = "VE"
        /\ ExceptionName(INT_CONTROL_PROTECTION_EXCEPTION) = "CP"
    BY DEF ExceptionName, ExceptionNames, INT_VIRTUALIZATION_EXCEPTION,
           INT_CONTROL_PROTECTION_EXCEPTION
  <1>5. CASE v = INT_VIRTUALIZATION_EXCEPTION
    <2>1. text = logging_log_msg(LOGGING_LEVEL_DEBUG, LOGGING_LEVEL_ERROR,
                                 interrupt_descriptions(INT_VIRTUALIZATION_EXCEPTION), <<missing>>)
      BY <1>1, <1>3, <1>5, Zenon DEF Report
    <2>2. PICK r : /\ IsText(r) /\ r[2] = "CP" /\ Len(r) >= 2
                   /\ log_formated_str(interrupt_descriptions(INT_VIRTUALIZATION_EXCEPTION),
                                       <<missing>>).out = <<"VE">> \o r
      BY TwoDescriptionsWritten
    <2>3. PICK begin, rest : begin = Heading \o <<"VE">> /\ rest = r \o <<"\n">>  OBVIOUS
    <2>4. Splits(text, begin, rest)  BY <2>1, <2>2, <2>3, ReportSplits
    <2>5. SubSeq(text, Len(begin) + 1, Len(text)) = rest  BY <2>4 DEF Splits
    <2>6. rest = <<"\n", "\n">>  BY <1>2, <1>3, <1>4, <1>5, <2>3, <2>5 DEF NamesTheFault, Heading
    <2>7. rest[2] = "CP"
      <3>1. IsText(<<"\n">>) /\ 2 \in 1 .. Len(r)  BY <2>2, ShortText, TextFacts
      <3> QED  BY <2>2, <2>3, <3>1, CatText
    <2>8. rest[2] = "\n"  BY <2>6
    <2> QED  BY <2>7, <2>8
  <1>6. CASE v = INT_CONTROL_PROTECTION_EXCEPTION
    <2>1. text = logging_log_msg(LOGGING_LEVEL_DEBUG, LOGGING_LEVEL_ERROR,
                                 interrupt_descriptions(INT_CONTROL_PROTECTION_EXCEPTION), <<n>>)
      BY <1>1, <1>3, <1>6, Zenon DEF Report
    <2>2. /\ IsText(<<"\n">>)
          /\ log_formated_str(interrupt_descriptions(INT_CONTROL_PROTECTION_EXCEPTION), <<n>>).out
               = <<"reserved">> \o <<"\n">>
      BY ShortText, ReservedDescription
    <2>3. /\ Splits(text, Heading \o <<"reserved">>, <<"\n">> \o <<"\n">>)
          /\ IsText(Heading)
      BY <2>1, <2>2, ReportSplits
    <2>4. IsPrefix(Heading \o <<"reserved">>, text)  BY <2>3 DEF Splits
    <2>5. IsPrefix(Heading \o <<"CP">>, text)  BY <1>2, <1>4, <1>6 DEF NamesTheFault, Heading
    <2>6. "reserved" = "CP"  BY <2>3, <2>4, <2>5, OneBeginning
    <2> QED  BY <2>6
  <1> QED  BY <1>5, <1>6

-----------------------------------------------------------------------------
(* The calls.                                                              *)

\* Every number is written as its numeral: by itoa and utoa, to every base from 2 to 16,
\* whatever the width of a long.
THEOREM NumbersAlwaysReadBack == FormattingSpec => []NumbersReadBack
  <1>1. call = NoCall => NumbersReadBack  BY DEF NoCall, NumbersReadBack
  <1>2. ASSUME Convert PROVE NumbersReadBack'
    <2>1. PICK b \in Bases : \/ \E n \in Longs : ConvertLong(n, b)
                             \/ \E n \in 0 .. 2 * LongHalf - 1 : ConvertUnsigned(n, b)
      BY <1>2 DEF Convert
    <2>2. b \in 2 .. 16  BY BasesAssumption
    <2>3. ASSUME NEW n \in Longs, ConvertLong(n, b) PROVE NumbersReadBack'
      <3>1. n \in Int  BY HalvesAssumption DEF Longs
      <3>2. call'.text = itoa(n, b) /\ call'.base = b /\ call'.number = n  BY <2>3 DEF ConvertLong
      <3>3. Reads(itoa(n, b), b, n)  BY <2>2, <3>1, itoaReads
      <3> QED  BY <3>2, <3>3 DEF NumbersReadBack
    <2>4. ASSUME NEW n \in 0 .. 2 * LongHalf - 1, ConvertUnsigned(n, b) PROVE NumbersReadBack'
      <3>1. n \in Nat  BY HalvesAssumption
      <3>2. call'.text = utoa(n, b) /\ call'.base = b /\ call'.number = n
        BY <2>4 DEF ConvertUnsigned
      <3>3. Reads(utoa(n, b), b, n)  BY <2>2, <3>1, utoaReads
      <3> QED  BY <3>2, <3>3 DEF NumbersReadBack
    <2> QED  BY <2>1, <2>3, <2>4
  <1>3. LogMessage \/ PrintMessage \/ Fault \/ Returned => NumbersReadBack'
    BY DEF LogMessage, LogParts, PrintMessage, PrintParts, Fault, ReportException, Returned, NoCall,
           NumbersReadBack
  <1>4. UNCHANGED call /\ NumbersReadBack => NumbersReadBack'  BY DEF NumbersReadBack
  <1> QED  BY <1>1, <1>2, <1>3, <1>4, PTL DEF FormattingSpec, FormattingInit, FormattingNext

\* A message of two parts comes out as the two of them one after the other, for any two parts
\* that have a value for each specifier, from log_formated_str and from printf: nothing
\* outlives its specifier.  printf's result and what %n stores are those of the parts, added
\* up; that a part's own result is the number of its characters is not said, and for %p,
\* whose "0x" printf does not count, it is not.
THEOREM FormatsAlwaysCompose == FormattingSpec => []FormatsCompose
  <1>1. call = NoCall => FormatsCompose  BY DEF NoCall, FormatsCompose
  <1>2. ASSUME LogMessage PROVE FormatsCompose'
    <2>1. PICK p \in Parts, q \in Parts : LogParts(p, q)  BY <1>2 DEF LogMessage
    <2>2. /\ call'.function = "log" /\ call'.first = p /\ call'.second = q
          /\ call'.text = log_formated_str(p.format \o q.format, p.values \o q.values).out
      BY <2>1 DEF LogParts
    <2>3. Complete(p) /\ Complete(q)  BY PartsAssumption
    <2>4. call'.text = log_formated_str(p.format, p.values).out \o log_formated_str(q.format, q.values).out
      <3>1. LoggedOneAfterTheOther(p, q)  BY <2>3, LogComposes
      <3> QED  BY <2>2, <3>1 DEF LoggedOneAfterTheOther
    <2> QED  BY <2>2, <2>4 DEF FormatsCompose
  <1>3. ASSUME PrintMessage PROVE FormatsCompose'
    <2>1. PICK p \in Parts \union {CountPart}, q \in Parts \union {CountPart} : PrintParts(p, q)
      BY <1>3 DEF PrintMessage
    <2>2. PICK r : r = printf(p.format \o q.format, p.values \o q.values)  OBVIOUS
    <2>3. /\ call'.function = "printf" /\ call'.first = p /\ call'.second = q
          /\ call'.text = r.out /\ call'.written = r.written /\ call'.stored = r.stored
      BY <2>1, <2>2 DEF PrintParts
    <2>4. ASSUME NEW part \in Parts \union {CountPart} PROVE \E L, c : PrintsWhole(part, c, L)
      BY PartsAssumption, CompleteIsPrinted, CountIsPrinted
    <2>5. PICK P, s : PrintsWhole(p, s, P)  BY <2>4
    <2>6. PICK Q, t : PrintsWhole(q, t, Q)  BY <2>4
    <2>7. PICK first, second : /\ first = printf(p.format, p.values)
                               /\ second = printf(q.format, q.values)
      OBVIOUS
    <2>8. first = s[P] /\ second = t[Q] /\ P \in Nat /\ Q \in Nat  BY <2>5, <2>6, <2>7 DEF PrintsWhole
    <2>9. PrintedOneAfterTheOther(r, first, second)
      <3>1. PrintedOneAfterTheOther(r, s[P], t[Q])  BY <2>2, <2>5, <2>6, <2>8, PrintComposes
      <3> QED  BY <2>8, <3>1
    <2> QED  BY <2>3, <2>7, <2>9 DEF FormatsCompose, PrintedOneAfterTheOther, Shifted
  <1>4. Convert \/ Fault \/ Returned => FormatsCompose'
    <2>1. Convert \/ Fault \/ Returned => call'.function \in {"itoa", "utoa", "report", "none"}
      BY DEF Convert, ConvertLong, ConvertUnsigned, Fault, ReportException, Returned, NoCall
    <2>2. "log" \notin {"itoa", "utoa", "report", "none"} /\ "printf" \notin {"itoa", "utoa", "report", "none"}
      OBVIOUS
    <2> QED  BY <2>1, <2>2 DEF FormatsCompose
  <1>5. UNCHANGED call /\ FormatsCompose => FormatsCompose'  BY DEF FormatsCompose
  <1> QED  BY <1>1, <1>2, <1>3, <1>4, <1>5, PTL DEF FormattingSpec, FormattingInit, FormattingNext

\* The report of an exception begins with its name, goes on with its error code where
\* there is one, and a page fault's ends with the lower half of the address: the table,
\* the format strings and the order of the arguments agree for every error code that is
\* an int and every address, and for every exception but the two whose descriptions the
\* missing comma has made one; the reports of those do not name them.
THEOREM ReportsAlwaysNameTheFault == FormattingSpec => []ReportsNameTheFault
  <1>1. call = NoCall => ReportsNameTheFault
    <2>1. call = NoCall => call.function = "none"  BY DEF NoCall
    <2>2. "none" # "report"  OBVIOUS
    <2> QED  BY <2>1, <2>2 DEF ReportsNameTheFault
  <1>2. ASSUME Fault PROVE ReportsNameTheFault'
    <2>1. PICK v \in Vectors, n \in ErrorCodes, cr2 \in Addresses, missing \in Longs :
            ReportException(v, n, cr2, missing)
      BY <1>2 DEF Fault
    <2>2. v \in 0 .. 21 /\ n \in 0 .. IntHalf - 1 /\ cr2 \in Nat /\ missing \in Int
      BY FaultsAssumption, HalvesAssumption DEF Longs
    <2>3. PICK others : others = {INT_VIRTUALIZATION_EXCEPTION, INT_CONTROL_PROTECTION_EXCEPTION}
      OBVIOUS
    <2>4. v \in others \/ (v \in 0 .. 19 /\ v \notin others)
      BY <2>2, <2>3 DEF INT_VIRTUALIZATION_EXCEPTION, INT_CONTROL_PROTECTION_EXCEPTION
    <2>5. NamesTheFault(Report(v, n, cr2, missing), v, n, cr2) <=> v \notin others
      BY <2>2, <2>3, <2>4, NamesItself, NamesAnother
    <2>6. /\ call'.vector = v /\ call'.error_code = n /\ call'.cr2 = cr2
          /\ call'.text = Report(v, n, cr2, missing)
      BY <2>1 DEF ReportException
    <2> QED  BY <2>3, <2>5, <2>6 DEF ReportsNameTheFault
  <1>3. Convert \/ LogMessage \/ PrintMessage \/ Returned => ReportsNameTheFault'
    <2>1. Convert \/ LogMessage \/ PrintMessage \/ Returned =>
            call'.function \in {"itoa", "utoa", "log", "printf", "none"}
      BY DEF Convert, ConvertLong, ConvertUnsigned, LogMessage, LogParts, PrintMessage, PrintParts,
             Returned, NoCall
    <2>2. "report" \notin {"itoa", "utoa", "log", "printf", "none"}  OBVIOUS
    <2> QED  BY <2>1, <2>2 DEF ReportsNameTheFault
  <1>4. UNCHANGED call /\ ReportsNameTheFault => ReportsNameTheFault'  BY DEF ReportsNameTheFault
  <1> QED  BY <1>1, <1>2, <1>3, <1>4, PTL DEF FormattingSpec, FormattingInit, FormattingNext
==============================================================================

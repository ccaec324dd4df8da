----------------------------- MODULE UartPrint -----------------------------
(***************************************************************************)
(* What UARTprintf of UART/uartstdio.c, as it is built here without        *)
(* UART_BUFFERED, puts on the console.  All that the board tells its user, *)
(* the data TCP received included, goes through it.                        *)
(*                                                                         *)
(* A character is a string of length one; Modulus stands for 2^32.         *)
(***************************************************************************)
EXTENDS Integers, Sequences, SequencesExt

CONSTANT Modulus   \* values of a uint32_t

ASSUME ModulusAssumption == Modulus \in Nat /\ Modulus >= 256 /\ Modulus % 2 = 0

Wrap(number) == number % Modulus

g_pcHex == <<"0", "1", "2", "3", "4", "5", "6", "7", "8", "9", "a", "b", "c", "d", "e", "f">>
Digit(number) == g_pcHex[number + 1]

UARTwrite(chars) ==
    FlattenSeq([k \in DOMAIN chars |->
                   IF chars[k] = "\n" THEN <<"\r", "\n">> ELSE <<chars[k]>>])

Times(char, number) == [k \in 1 .. number |-> char]

\* Mutant: a product that wraps is taken for one that got smaller.
WrongScale(value, base, count) ==
    LET next(idx) == Wrap(idx * base)
        loop[idx \in 1 .. Modulus] ==
            IF next(idx) <= value /\ next(idx) > idx
            THEN [loop[next(idx)] EXCEPT !.count = Wrap(@ - 1)]
            ELSE [idx |-> idx, count |-> count]
    IN  loop[1]

\* The largest power of base in value, found by multiplying until the product
\* is larger or wraps, and the width less the digits behind the first, one a round.
Scale(value, base, count) ==
    LET next(idx) == Wrap(idx * base)
        loop[idx \in 1 .. Modulus] ==
            IF next(idx) <= value /\ next(idx) \div base = idx
            THEN [loop[next(idx)] EXCEPT !.count = Wrap(@ - 1)]
            ELSE [idx |-> idx, count |-> count]
    IN  loop[1]

\* The digits of value from that of a power of base on.
Digits(value, base, power) ==
    LET digits[idx \in 0 .. Modulus] ==
            IF idx = 0 THEN <<>>
            ELSE <<Digit((value \div idx) % base)>> \o digits[idx \div base]
    IN  digits[power]

\* From convert on: a number with its sign, filled up to the width.
Converted(value, base, neg, count, fill) ==
    LET scale == Scale(value, base, count)
        left == Wrap(scale.count - IF neg THEN 1 ELSE 0)
        filled == IF left > 1 /\ left < 16 THEN Times(fill, left - 1) ELSE <<>>
        sign == IF neg THEN <<"-">> ELSE <<>>
    IN  (IF fill = "0" THEN sign \o filled ELSE filled \o sign) \o Digits(value, base, scale.idx)

\* What is printed for a conversion with its argument.
Conversion(char, arg, count, fill) ==
    CASE char = "c" -> UARTwrite(<<arg>>)
      [] char \in {"d", "i"} ->
            IF arg >= Modulus \div 2
            THEN Converted(Wrap(-arg), 10, TRUE, count, fill)
            ELSE Converted(arg, 10, FALSE, count, fill)
      [] char = "s" ->
            UARTwrite(arg) \o IF count > Len(arg) THEN Times(" ", count - Len(arg)) ELSE <<>>
      [] char = "u" -> Converted(arg, 10, FALSE, count, fill)
      [] char \in {"x", "X", "p"} -> Converted(arg, 16, FALSE, count, fill)
      [] char = "%" -> <<"%">>
      [] OTHER -> <<"E", "R", "R", "O", "R">>

TakesArgument == {"c", "d", "i", "s", "u", "x", "X", "p"}

\* The next character of the format.
TakeCharacter(state, char) ==
    IF ~state.percent
    THEN IF char = "%" THEN [state EXCEPT !.percent = TRUE, !.count = 0, !.fill = " "]
         ELSE [state EXCEPT !.out = @ \o UARTwrite(<<char>>)]
    ELSE IF \E number \in 0 .. 9 : char = Digit(number)
    THEN LET number == CHOOSE number \in 0 .. 9 : char = Digit(number)
         IN  [state EXCEPT !.count = Wrap(@ * 10 + number),
                           !.fill = IF number = 0 /\ state.count = 0 THEN "0" ELSE @]
    ELSE LET takes == char \in TakesArgument
         IN  [state EXCEPT !.percent = FALSE,
                           !.args = IF takes THEN Tail(@) ELSE @,
                           !.out = @ \o Conversion(char, IF takes THEN Head(state.args) ELSE 0,
                                                   state.count, state.fill)]

\* All of a format and its arguments.
UARTvprintf(format, args) ==
    LET start == [out |-> <<>>, percent |-> FALSE, count |-> 0, fill |-> " ", args |-> args]
    IN  FoldLeft(TakeCharacter, start, format).out
=============================================================================

------------------------------ MODULE Kprintf ------------------------------
(***************************************************************************)
(* kprintf of lib/kstdlib.c, one character of the format at a time, with   *)
(* the four functions that print a number.  Characters are their codes.    *)
(*                                                                         *)
(* An int has Bits bits and an int64_t LongBits.  A format is the          *)
(* directives of Directives, one after the other; a directive is what the  *)
(* caller writes and the argument it passes with it.                       *)
(***************************************************************************)
EXTENDS Integers, Sequences

CONSTANTS Bits, LongBits,
          Directives,     \* [format : characters, args : at most one value]
          MaxDirectives   \* bound: directives of one format

VARIABLES format,     \* what is left of the format
          args,       \* the arguments va_arg has not fetched
          state, longval, count,
          stdout,     \* the characters put
          said        \* the directives the caller has written, all of them

vars == <<format, args, state, longval, count, stdout, said>>

Char == [percent |-> 37, L |-> 76, l |-> 108, d |-> 100, u |-> 117, x |-> 120,
         p |-> 112, s |-> 115, backslash |-> 92, n |-> 110, r |-> 114, a |-> 97,
         b |-> 98, v |-> 118, f |-> 102, minus |-> 45, zero |-> 48, A |-> 65]
-----------------------------------------------------------------------------
(* Numbers: C's conversions, / and %.                                      *)

\* The powers of a base, to one that no int64_t holds.
Powers(base) ==
  LET power[k \in 0 .. LongBits + 1] == IF k = 0 THEN 1 ELSE base * power[k - 1]
  IN power

Unsigned(v, bits) == v % Powers(2)[bits]
Signed(v, bits) == LET u == Unsigned(v, bits)
                   IN IF u >= Powers(2)[bits - 1] THEN u - Powers(2)[bits] ELSE u
\* A value converted to an integer type of C.
As(type, v) == IF type.signed THEN Signed(v, type.bits) ELSE Unsigned(v, type.bits)
Type(signed, bits) == [signed |-> signed, bits |-> bits]
Quotient(a, b) == IF a < 0 THEN -((-a) \div b) ELSE a \div b
Remainder(a, b) == a - b * Quotient(a, b)

\* The exponent of the loop "find the overflow!": the last power of the base
\* before the product, converted to its type, no longer divides back.  (The
\* product wraps: without optimisation it is stored before it is divided.)
LargestPower(base, type) ==
  LET power == Powers(base)
      DividesBack(k) == Quotient(As(type, power[k + 1]), base) = power[k]
  IN CHOOSE k \in 1 .. LongBits : ~ DividesBack(k) /\ \A j \in 1 .. k - 1 : DividesBack(j)

\* A digit is a uint8_t, and so is the character made of it.
DigitChar(digit) == IF digit < 10 THEN Char.zero + digit
                                  ELSE (Char.A + digit - 10) % 256

\* Mutant: the zeros after the first digit are skipped too.
PutDigitSparse(s, divisor) ==
  LET digit == Quotient(s.value, divisor) % 256
  IN [value |-> Remainder(s.value, divisor),
      out |-> IF digit > 0 THEN Append(s.out, DigitChar(digit)) ELSE s.out,
      started |-> s.started]

\* One turn of the loop that prints digits: leading zeros are skipped.
PutDigit(s, divisor) ==
  LET digit == Quotient(s.value, divisor) % 256
      put == s.started \/ digit > 0
  IN [value |-> Remainder(s.value, divisor),
      out |-> IF put THEN Append(s.out, DigitChar(digit)) ELSE s.out,
      started |-> put]

\* The loop: its state after i turns, with the divisor going down to 1.
Digits(value, base, last) ==
  LET turn[i \in 0 .. last + 1] ==
        IF i = 0 THEN [value |-> value, out |-> <<>>, started |-> FALSE]
        ELSE PutDigit(turn[i - 1], Powers(base)[last + 1 - i])
  IN turn[last + 1].out

\* kput_int, kput_int64, kput_uint and kput_uint64 differ in their types.
PutNumber(value, base, type) ==
  IF value \in 0 .. base - 1 THEN <<DigitChar(value)>>
  ELSE (IF value < 0 THEN <<Char.minus>> ELSE <<>>)
         \o Digits(value, base, LargestPower(base, type))

kput_int(v, base) == PutNumber(Signed(v, Bits), base, Type(TRUE, Bits))
\* The parameter is an int, the arithmetic is not.
kput_int64(v, base) == PutNumber(Signed(v, Bits), base, Type(TRUE, LongBits))
kput_uint(v, base) == PutNumber(Unsigned(v, Bits), base, Type(FALSE, Bits))
kput_uint64(v, base) == PutNumber(Unsigned(v, LongBits), base, Type(FALSE, LongBits))
-----------------------------------------------------------------------------
(* What callers write.                                                     *)

Escapes == [c \in {Char.n, Char.r, Char.a, Char.b, Char.v, Char.f} |->
              CASE c = Char.n -> 10 [] c = Char.r -> 13 [] c = Char.a -> 7
                [] c = Char.b -> 8  [] c = Char.v -> 11 [] c = Char.f -> 12]
Conversions == {Char.d, Char.u, Char.x, Char.p, Char.s}

\* A character of text; an escape or a conversion, with the characters that
\* kprintf passes over before its letter.
IsDirective(directive) ==
  LET f == directive.format
      arguments == directive.args
      letter == f[Len(f)]
      Passed(S) == \A i \in 2 .. Len(f) - 1 : f[i] \notin S
  IN /\ f \in Seq(Nat) /\ f # <<>>
     /\ \/ /\ Len(f) = 1 /\ letter \notin {Char.percent, Char.backslash}
           /\ arguments = <<>>
        \/ /\ Len(f) > 1 /\ f[1] = Char.backslash
           /\ letter \in DOMAIN Escapes /\ Passed(DOMAIN Escapes)
           /\ arguments = <<>>
        \/ /\ Len(f) > 1 /\ f[1] = Char.percent
           /\ letter \in Conversions \cup {Char.percent}
           /\ Passed(Conversions \cup {Char.percent})
           /\ IF letter = Char.percent THEN arguments = <<>>
              ELSE /\ Len(arguments) = 1
                   /\ arguments \in IF letter = Char.s THEN Seq(Seq(Nat)) ELSE Seq(Int)

\* Assumed by the modules that give the constants their values.
KprintfAssumption ==
  /\ Bits \in Nat /\ LongBits \in Nat /\ 8 <= Bits /\ Bits <= LongBits
  /\ MaxDirectives \in Nat
  /\ \A directive \in Directives : IsDirective(directive)
-----------------------------------------------------------------------------
Init == /\ format = <<>> /\ args = <<>> /\ said = <<>>
        /\ state = 0 /\ longval = FALSE /\ count = 0
        /\ stdout = <<>>

\* The format goes on.
Say(directive) ==
  /\ format = <<>> /\ Len(said) < MaxDirectives
  /\ format' = directive.format /\ args' = args \o directive.args
  /\ said' = Append(said, directive)
  /\ UNCHANGED <<state, longval, count, stdout>>

ch == Head(format)
Put(out) == stdout' = stdout \o out /\ count' = count + Len(out)
Quiet == UNCHANGED <<count, stdout>>

\* case 0
Text == /\ state = 0
        /\ IF ch = Char.percent THEN state' = 1 /\ longval' = FALSE /\ Quiet
           ELSE IF ch = Char.backslash THEN state' = 2 /\ UNCHANGED longval /\ Quiet
           ELSE Put(<<ch>>) /\ UNCHANGED <<state, longval>>
        /\ UNCHANGED args

\* What the letter of a conversion prints of the argument.
Converted(arg) ==
  CASE ch = Char.d -> IF longval THEN kput_int64(arg, 10) ELSE kput_int(arg, 10)
    [] ch = Char.u -> IF longval THEN kput_uint64(arg, 10) ELSE kput_uint(arg, 10)
    [] ch = Char.x -> IF longval THEN kput_uint64(arg, 16) ELSE kput_uint(arg, 16)
    [] ch = Char.p -> kput_uint(arg, 16)
    [] ch = Char.s -> arg

\* Mutant of case 1: a character that is no conversion ends the directive.
ConversionStrict ==
  /\ state = 1
  /\ IF ch \in Conversions
     THEN Put(Converted(Head(args))) /\ args' = Tail(args) /\ state' = 0
     ELSE IF ch = Char.percent THEN Put(<<ch>>) /\ state' = 0 /\ UNCHANGED args
     ELSE state' = (IF ch \in {Char.L, Char.l} THEN 1 ELSE 0) /\ Quiet /\ UNCHANGED args
  /\ longval' = (longval \/ ch = Char.L)

\* case 1: flags, widths and letters that are no conversion are skipped.
Conversion ==
  /\ state = 1
  /\ IF ch \in Conversions
     THEN Put(Converted(Head(args))) /\ args' = Tail(args) /\ state' = 0
     ELSE IF ch = Char.percent THEN Put(<<ch>>) /\ state' = 0 /\ UNCHANGED args
     ELSE Quiet /\ UNCHANGED <<args, state>>
  /\ longval' = (longval \/ ch = Char.L)

\* case 2
Escape == /\ state = 2
          /\ IF ch \in DOMAIN Escapes THEN Put(<<Escapes[ch]>>) /\ state' = 0
                                      ELSE Quiet /\ UNCHANGED state
          /\ UNCHANGED <<longval, args>>

\* One turn of the loop of kprintf.
Turn == /\ format # <<>>
        /\ format' = Tail(format)
        /\ Text \/ Conversion \/ Escape
        /\ UNCHANGED said

Next == Turn \/ \E directive \in Directives : Say(directive)

Spec == Init /\ [][Next]_vars
-----------------------------------------------------------------------------
(* What is expected.                                                       *)

\* 0 to 9, A to F.
Letter(digit) == IF digit < 10 THEN 48 + digit ELSE 55 + digit

\* The numeral of v: its digits in the base, the first one not zero.
Numeral(v, base) ==
  LET power == Powers(base)
      n == CHOOSE k \in 1 .. LongBits : v < power[k] /\ (k = 1 \/ v >= power[k - 1])
  IN [i \in 1 .. n |-> Letter((v \div power[n - i]) % base)]

\* What a reader of printf's format expects of a directive; L is for an int64_t.
Expected(directive) ==
  LET f == directive.format
      letter == f[Len(f)]
      arg == directive.args[1]
      long == \E i \in DOMAIN f : f[i] = Char.L
      int == Signed(arg, IF long THEN LongBits ELSE Bits)
      uint == Unsigned(arg, IF long /\ letter # Char.p THEN LongBits ELSE Bits)
  IN IF f[1] = Char.backslash THEN <<Escapes[letter]>>
     ELSE IF f[1] # Char.percent THEN f
     ELSE CASE letter = Char.percent -> <<Char.percent>>
            [] letter = Char.s -> arg
            [] letter = Char.d -> IF int < 0 THEN <<Char.minus>> \o Numeral(-int, 10)
                                ELSE Numeral(int, 10)
            [] letter = Char.u -> Numeral(uint, 10)
            [] OTHER -> Numeral(uint, 16)

\* What all the directives written ask for.
Asked(directives) ==
  LET asked[n \in 0 .. Len(directives)] ==
        IF n = 0 THEN <<>> ELSE asked[n - 1] \o Expected(directives[n])
  IN asked[Len(directives)]

\* The directives that kprintf prints otherwise: %d of a negative number, whose
\* digits come out as other characters, and %Ld of a number that is no int,
\* which is cut to one.
Misprinted(directive) ==
  LET f == directive.format
      arg == directive.args[1]
  IN /\ f[1] = Char.percent /\ f[Len(f)] = Char.d
     /\ \/ Signed(arg, Bits) < 0
        \/ /\ \E i \in DOMAIN f : f[i] = Char.L
           /\ Signed(arg, LongBits) # Signed(arg, Bits)

\* After every directive the output is the text and the numerals that the
\* format and the arguments say, zeros inside a number included and none
\* before it, for both sizes of number, if none of the directives is one of
\* those; and always each directive has fetched its own argument, and kprintf
\* returns the number of characters put.
FormatsAsDirected ==
  (format = <<>> /\ state = 0) =>
    /\ (\A i \in DOMAIN said : ~ Misprinted(said[i])) => stdout = Asked(said)
    /\ args = <<>>
    /\ count = Len(stdout)
=============================================================================

----------------------------- MODULE SizeDigits -----------------------------
(***************************************************************************)
(* The size of an image on the wire: the digits snprintf puts into         *)
(* task_send's buffer, which is sent whole, and the number ClientThread    *)
(* makes of all digits it finds among the bytes.                           *)
(***************************************************************************)
EXTENDS Integers

CONSTANTS
  SizeLen,   \* bytes of the buffer: 6
  Radix      \* of the digits: 10

ASSUME SizeLenAssumption == SizeLen \in Nat \ {0}
ASSUME RadixAssumption == Radix \in Nat \ {0, 1}

NUL == -1     \* the terminator, or any other byte that is no digit
Buffers == [1..SizeLen -> 0..(Radix - 1) \cup {NUL}]

Power[k \in Nat] == IF k = 0 THEN 1 ELSE Radix * Power[k - 1]

NumDigits(n) == CHOOSE d \in 1..(n + 1) : n < Power[d] /\ (d = 1 \/ n >= Power[d - 1])

\* The i-th of d digits of n.
Digit(n, d, i) == (n \div Power[d - i]) % Radix

\* Mutant: the digits are put into the buffer without a terminator.
PrintedBare(buffer, n) ==
  LET d == NumDigits(n)
  IN  [i \in 1..SizeLen |-> IF i <= d THEN Digit(n, d, i) ELSE buffer[i]]

\* snprintf(sizeBuffer, 6, "%d", n): the leading digits that fit, and a NUL.
\* What lies behind the NUL stays and is sent along.
Printed(buffer, n) ==
  LET d == NumDigits(n)
      shown == IF d < SizeLen THEN d ELSE SizeLen - 1
  IN  [i \in 1..SizeLen |-> IF i <= shown THEN Digit(n, d, i)
                            ELSE IF i = shown + 1 THEN NUL ELSE buffer[i]]

\* parseInt of all digits among the bytes, wherever they are.
Parsed(buffer) ==
  LET value[i \in 0..SizeLen] ==
        IF i = 0 THEN 0
        ELSE IF buffer[i] = NUL THEN value[i - 1]
        ELSE value[i - 1] * Radix + buffer[i]
  IN  value[SizeLen]
=============================================================================

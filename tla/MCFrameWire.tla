---------------------------- MODULE MCFrameWire ----------------------------
(* A small instance of FrameWire for TLC: binary digits and short fields.   *)
EXTENDS FrameWire

\* Of one digit; of two and three, the film's; above MaxBytes; truncated.
SmallSizes == {0, 2, 5, 6, 8}

\* Behind the digits lie no digit, one at the end, or digits everywhere.
SomeLeftovers == {<<NUL, NUL, NUL, NUL>>, <<1, NUL, NUL, 1>>, <<1, 0, 1, 1>>}
============================================================================

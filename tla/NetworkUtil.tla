----------------------------- MODULE NetworkUtil ------------------------------
(* The arithmetic of NetworkUtil.h (and NetworkUtil.cs): the bits a range     *)
(* takes, 16-bit sequence numbers that wrap around, and the zig-zag code.     *)
EXTENDS Integers

CONSTANT IntBits     \* 32 in the code

ASSUME NetworkUtilAssumption == IntBits \in Nat \ {0, 1}

\* bits_required, Log2 and BitsRequired: the unsigned difference may be any.
BitsRequired(min, max) ==
    LET range == (max - min) % 2^IntBits
    IN IF range = 0 THEN 0 ELSE CHOOSE n \in 1..IntBits : range \in 2^(n - 1)..(2^n - 1)

-----------------------------------------------------------------------------
Sequence == 0 .. 65535

sequence_greater_than(s1, s2) == \/ s1 > s2 /\ s1 - s2 <= 32768
                                 \/ s1 < s2 /\ s2 - s1 > 32768

sequence_less_than(s1, s2) == sequence_greater_than(s2, s1)

\* The 32786 is the code's.
sequence_difference(s1, s2) ==
    IF s1 - s2 >= 32786 THEN s1 - (s2 + 65536)
    ELSE IF s2 - s1 >= 32786 THEN s1 + 65536 - s2 ELSE s1 - s2

-----------------------------------------------------------------------------
\* ( n << 1 ) ^ ( n >> 31 ): the sign moves to the lowest bit, taken as unsigned.
signed_to_unsigned(n) == IF n >= 0 THEN 2 * n ELSE -2 * n - 1
unsigned_to_signed(n) == IF n % 2 = 0 THEN n \div 2 ELSE -(n \div 2) - 1
=============================================================================

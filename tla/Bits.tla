-------------------------------- MODULE Bits --------------------------------
(***************************************************************************)
(* The bit-field helpers of bits.h, over bytes as numbers, and the ways    *)
(* the decoders put bytes together.  Pure operators, no state.             *)
(***************************************************************************)
EXTENDS Naturals

Byte == 0..255

has_bit(val, index) == (val \div 2^index) % 2 = 1

(* Both ends are inclusive.                                                *)
get_bit_range(val, high, low) == (val \div 2^low) % 2^(high - low + 1)

(* b | (a << 8), the two halves of a 16-bit field.                         *)
Word(a, b) == 256 * a + b
=============================================================================

----------------------------- MODULE Endianness -----------------------------
(***************************************************************************)
(* io/endianness.cpp and psql_proxy/endianness.cpp: 32-bit numbers in four *)
(* bytes, 16-bit numbers in two, and the guess of their byte order.  Base  *)
(* is 256 in the program; a smaller one shortens the lengths at which the  *)
(* guess changes.                                                          *)
(***************************************************************************)
EXTENDS Integers

CONSTANT Base   \* how many values a byte has

ASSUME BaseAssumption == Base \in Nat /\ Base > 1

Byte == 0 .. Base - 1

Square == Base * Base   \* 2^16

DecodeUint32LE(b) == (b[4] * Base + b[3]) * Square + (b[2] * Base + b[1])
DecodeUint32BE(b) == (b[1] * Base + b[2]) * Square + (b[3] * Base + b[4])

DecodeUint32(b, endianness) ==
  IF endianness = "LE" THEN DecodeUint32LE(b) ELSE DecodeUint32BE(b)

DecodeUint16LE(b) == b[2] * Base + b[1]
DecodeUint16BE(b) == b[1] * Base + b[2]

DecodeUint16(b, endianness) ==
  IF endianness = "LE" THEN DecodeUint16LE(b) ELSE DecodeUint16BE(b)

\* Mutant: the larger reading is taken.
CheckEndiannessSwapped(b) ==
  IF DecodeUint32LE(b) <= DecodeUint32BE(b) THEN "BE" ELSE "LE"

\* The smaller of the two readings is taken to be the right one.
CheckEndianness(b) ==
  IF DecodeUint32LE(b) <= DecodeUint32BE(b) THEN "LE" ELSE "BE"

\* How a client writes a number, most significant byte first (external).
Encode(n) == << (n \div (Square * Base)) % Base, (n \div Square) % Base,
                (n \div Base) % Base, n % Base >>
=============================================================================

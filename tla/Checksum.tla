----------------------------- MODULE Checksum -----------------------------
(***************************************************************************)
(* The Internet checksum (include/scion/hdr/details.hpp and                *)
(* src/hdr/details.cpp).  A std::uint32_t is the pair of its high and its  *)
(* low 16-bit half: addition and subtraction lose the carry beyond bit 31. *)
(***************************************************************************)
EXTENDS BitStream

U16 == 65536

(* n as std::uint32_t *)
U32(n) == <<(n \div U16) % U16, n % U16>>

(* A 32-bit field as std::uint32_t *)
Word32(b) == <<Num(SubSeq(b, 1, 16)), Num(SubSeq(b, 17, 32))>>

Plus(a, b) ==
  LET lo == a[2] + b[2]
  IN  <<(a[1] + b[1] + (lo \div U16)) % U16, lo % U16>>

Minus(a, b) ==
  LET lo == a[2] - b[2]
  IN  <<(a[1] - b[1] + (lo \div U16)) % U16, lo % U16>>

LessU32(a, b) == a[1] < b[1] \/ (a[1] = b[1] /\ a[2] < b[2])

SumOf(terms) == FoldLeft(Plus, U32(0), terms)

(* (sum >> 16) + (sum & 0xffff), stored in 16 bits *)
Fold(sum) == (sum[1] + sum[2]) % U16

(* The sum of the 16-bit words of a sequence of bits, a last odd byte      *)
(* padded: every column of bits counts for its weight.                     *)
WordSum(b) ==
  LET ones(k) == Cardinality({i \in 0 .. (Len(b) \div 16) :
                                16 * i + k <= Len(b) /\ b[16 * i + k] = 1})
  IN  U32(FoldLeft(LAMBDA sum, k : 2 * sum + ones(k), 0, [k \in 1 .. 16 |-> k]))

(* checksumUint64: the sum of the four 16-bit words of a 64-bit field, and *)
(* the sum (x >> 16) + (x & 0xffff) of the two words of a 32-bit field.    *)
checksumUint64(x) == WordSum(x)

checksumUint32(x) == WordSum(x)

(* onesComplementChecksum: one fold, so that a sum whose fold is 2^16 or   *)
(* more loses a carry (CarryLost).                                         *)
onesComplementChecksum(b, initial) == Fold(Plus(initial, WordSum(b)))

(* internetChecksum *)
internetChecksum(b, initial) == 65535 - onesComplementChecksum(b, initial)

(* updateInternetChecksum *)
updateInternetChecksum(chksum, add, sub) ==
  LET sum == Minus(Plus(U32(65535 - chksum), add), sub)
      t   == sum[1] + sum[2]
  IN  65535 - ((IF t = 0 THEN 65535 ELSE t) % U16)

-----------------------------------------------------------------------------
(* What the checksum should be: the one's complement sum of RFC 1071, in   *)
(* which every carry is added back.  n is a sum of 16-bit words; 0 and     *)
(* 65535 are the two representations of zero.                              *)
OnesComplement(sum) ==
  LET n == sum[1] + sum[2] IN IF n = 0 THEN 0 ELSE 1 + ((n - 1) % 65535)

(* The sum whose single fold is not enough. *)
CarryLost(sum) == sum[1] + sum[2] >= U16
=============================================================================

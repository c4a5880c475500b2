---------------------------- MODULE WireDecimals ----------------------------
(***************************************************************************)
(* The decimal texts of the wire (DecimalU64, DecimalU256 and their        *)
(* helpers in crates/bloom-rpc-wire/src/ids.rs).  A number travels as its  *)
(* digits in a string; the reader keeps a text and signs and hashes by     *)
(* that text, so a number must have one text only.                         *)
(*                                                                         *)
(* A text is a sequence of digits and Other, which is any other byte.      *)
(* Max64, Max128 and Max256 are the greatest numbers of 64, 128 and 256    *)
(* bits, and Longest the 78 bytes of the last.                             *)
(***************************************************************************)
EXTENDS Integers, Sequences

CONSTANTS Base, Max64, Max128, Max256, Longest

Other == -1
Digits == 0..(Base - 1)

\* u64::to_string, and the literal of the greatest number.
Text[n \in Nat] == IF n < Base THEN <<n>> ELSE Append(Text[n \div Base], n % Base)

\* What the constants must be.
DecimalsAssumption ==
  /\ Base \in Nat \ {0, 1}
  /\ {Max64, Max128, Max256} \subseteq Nat /\ Max64 < Max128 /\ Max128 < Max256
  /\ Longest \in Nat /\ Len(Text[Max256]) <= Longest

\* str::parse of digits, one after the other: the number the first i of them make.
Read(digits) ==
  LET first[i \in 0..Len(digits)] == IF i = 0 THEN 0 ELSE first[i - 1] * Base + digits[i]
  IN  first
Value(digits) == Read(digits)[Len(digits)]

\* is_canonical_decimal
IsCanonical(t) ==
  /\ t # <<>>
  /\ Len(t) > 1 => t[1] # 0
  /\ \A i \in DOMAIN t : t[i] \in Digits

\* The order of two strings of one length, by their bytes.
BytesLeq(left, right) ==
  \/ left = right
  \/ \E i \in DOMAIN left : left[i] < right[i] /\ \A j \in 1..(i - 1) : left[j] = right[j]

DecimalLeq_BytesOnly(left, right) ==
  \/ \E i \in DOMAIN left \cap DOMAIN right :
       left[i] < right[i] /\ \A j \in 1..(i - 1) : left[j] = right[j]
  \/ left = SubSeq(right, 1, Len(left))

\* decimal_leq
DecimalLeq(left, right) ==
  Len(left) < Len(right) \/ (Len(left) = Len(right) /\ BytesLeq(left, right))

\* parse_canonical_decimal, which a u128 bounds, then u64::try_from.
Fits64(t) == IsCanonical(t) /\ Value(t) <= Max128 /\ Value(t) <= Max64

\* DecimalU256::parse keeps the text it was given.
Fits256(t) == Len(t) <= Longest /\ IsCanonical(t) /\ DecimalLeq(t, Text[Max256])
=============================================================================

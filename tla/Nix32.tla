-------------------------------- MODULE Nix32 --------------------------------
(***************************************************************************)
(* EncodeNix32 (pkg/utils/nix32.go): the digits of a store path hash, for  *)
(* a hash of any number of bytes.                                          *)
(*                                                                         *)
(* A definition named Mutant... is a mistaken form of the definition after *)
(* it, used only to show that the properties notice the mistake.           *)
(***************************************************************************)
EXTENDS Integers, Sequences

CONSTANTS
    HashBytes,  \* bytes of a hash: 20 in the code
    ByteValues  \* values that bytes take

ASSUME HashAssumption == HashBytes \in Nat \ {0} /\ ByteValues \subseteq 0..255

VARIABLES
    hash,    \* the bytes, from index 0
    digits   \* the digits written so far, the first one first

hashVars == <<hash, digits>>

\* encodedLength: five bits to a digit.
EncodedLength == (HashBytes * 8 + 4) \div 5

HashInit ==
    /\ hash \in [0..(HashBytes - 1) -> ByteValues]
    /\ digits = <<>>

\* The digit of group n: a group may span two bytes.  The two parts have no bit in
\* common, so that their sum is their bitwise or.
MutantDigit(n) == (hash[(n * 5) \div 8] \div 2^((n * 5) % 8)) % 32
Digit(n) ==
    LET i == (n * 5) \div 8
        j == (n * 5) % 8
        low == hash[i] \div 2^j
        high == IF i < HashBytes - 1 THEN hash[i + 1] * 2^(8 - j) ELSE 0
    IN ((low + high) % 2^16) % 32

\* One turn of the loop, from the last group to the first.
EncodeDigit ==
    /\ Len(digits) < EncodedLength
    /\ digits' = Append(digits, Digit(EncodedLength - 1 - Len(digits)))
    /\ UNCHANGED hash

HashNext == EncodeDigit

HashSpec == HashInit /\ [][HashNext]_hashVars

-----------------------------------------------------------------------------
(* Properties *)

Bit(b) == IF b \div 8 < HashBytes THEN (hash[b \div 8] \div 2^(b % 8)) % 2 ELSE 0

\* The digits are the hash read as one little-endian number in base 32, most
\* significant digit first: every bit is in one digit, at its place, so that
\* different hashes have different texts.
DigitsAreTheHash ==
    \A p \in 1..Len(digits) :
        LET n == EncodedLength - p IN
        /\ digits[p] \in 0..31
        /\ \A k \in 0..4 : (digits[p] \div 2^k) % 2 = Bit(n * 5 + k)
=============================================================================

----------------------------- MODULE GoIntegers -----------------------------
(***************************************************************************)
(* The integers of Go and of Nix, as the conversions of eval/unmarshal.go  *)
(* and eval/go_value.go use them.  A type is given by its span: how many   *)
(* values it has, 2^8 for int8 and uint8, Word for the types as wide as    *)
(* Nix's own integers, int64 and uint64.                                   *)
(*                                                                         *)
(* A definition named Mutant... is a mistaken form of the definition after *)
(* it, used only to show that the properties notice the mistake.           *)
(***************************************************************************)
EXTENDS Integers

CONSTANT Word  \* span of int64

\* Half of the values are negative.
Span == {n \in Nat : n > 0 /\ n % 2 = 0}

ASSUME WordAssumption == Word \in Span

Signed(span) == -(span \div 2)..(span \div 2 - 1)
Natural(span) == 0..(span - 1)

\* reflect's OverflowInt and OverflowUint: the value changes when it is cut to the
\* bits of the type.
Cut(x, span) == LET low == x % span IN IF low >= span \div 2 THEN low - span ELSE low
OverflowInt(x, span) == Cut(x, span) # x
OverflowUint(x, span) == x % span # x

\* uint64(got)
Unsigned(got) == got % Word

\* The target of unmarshalUint does not hold got.
MutantUnsignedOverflow(got, span) == OverflowUint(Unsigned(got), span)
UnsignedOverflow(got, span) == got < 0 \/ OverflowUint(Unsigned(got), span)

\* math.MaxInt64 < x
MutantTooLarge(x) == x >= Word
TooLarge(x) == x > Word \div 2 - 1
=============================================================================

-------------------------- MODULE ConversionsProofs --------------------------
(***************************************************************************)
(* Proofs about the conversions whose input has no nested structure: the   *)
(* text of a store path hash (Nix32), for a hash of any length, a node of  *)
(* a lock graph (LockGraph), for any names, and a number on its way        *)
(* between Nix and Go (GoIntegers), for integer types of any width.        *)
(***************************************************************************)
EXTENDS GoIntegers, Nix32, LockGraph, TLAPS

-----------------------------------------------------------------------------
(* The digits of a store path hash (Nix32), for a hash of any length.  A     *)
(* group of five bits begins at one of eight places in a byte; the sum       *)
(* EncodeNix32 takes of the two shifted bytes is, for each of them, made of  *)
(* the five bits that follow that place, and of multiples of 32.             *)

\* The bit of x whose weight is w.
BitOf(x, w) == (x \div w) % 2

Weights == {1, 2, 4, 8, 16, 32, 64, 128}

\* The digit taken of two bytes shifted by factors w and v, and the one made of five
\* bits.
Taken(h, g, w, v) == ((h \div w + g * v) % 2^16) % 32
Made(a, b, c, d, e) == a + 2 * b + 4 * c + 8 * d + 16 * e

\* A byte is the sum of its bits.
LEMMA ByteIsItsBits ==
  ASSUME NEW h \in 0..255
  PROVE  /\ \A w \in Weights : BitOf(h, w) \in 0..1
         /\ h = BitOf(h, 1) + 2 * BitOf(h, 2) + 4 * BitOf(h, 4) + 8 * BitOf(h, 8)
                + 16 * BitOf(h, 16) + 32 * BitOf(h, 32) + 64 * BitOf(h, 64)
                + 128 * BitOf(h, 128)
BY DEF BitOf, Weights

\* The conversions to uint16 and to five bits keep what is below 32.
LEMMA LowFiveBits ==
  ASSUME NEW x \in 0..31, NEW y \in Nat
  PROVE  ((x + 32 * y) % 2^16) % 32 = x
<1>1. ASSUME NEW z \in Nat PROVE (z % 2^16) % 32 = z % 32
  OBVIOUS
<1>2. x + 32 * y \in Nat /\ (x + 32 * y) % 32 = x
  OBVIOUS
<1>3. QED
  BY <1>1, <1>2

\* What EncodeNix32 takes of a byte h and the byte g after it, for a group that ends
\* in the byte it begins in.
LEMMA GroupInOneByte ==
  ASSUME NEW h \in 0..255, NEW g \in 0..255
  PROVE  /\ Taken(h, g, 1, 256) =
              Made(BitOf(h, 1), BitOf(h, 2), BitOf(h, 4), BitOf(h, 8), BitOf(h, 16))
         /\ Taken(h, g, 2, 128) =
              Made(BitOf(h, 2), BitOf(h, 4), BitOf(h, 8), BitOf(h, 16), BitOf(h, 32))
         /\ Taken(h, g, 4, 64) =
              Made(BitOf(h, 4), BitOf(h, 8), BitOf(h, 16), BitOf(h, 32), BitOf(h, 64))
         /\ Taken(h, g, 8, 32) =
              Made(BitOf(h, 8), BitOf(h, 16), BitOf(h, 32), BitOf(h, 64), BitOf(h, 128))
<1> DEFINE H0 == BitOf(h, 1)
           H1 == BitOf(h, 2)
           H2 == BitOf(h, 4)
           H3 == BitOf(h, 8)
           H4 == BitOf(h, 16)
           H5 == BitOf(h, 32)
           H6 == BitOf(h, 64)
           H7 == BitOf(h, 128)
<1>1. \A w \in Weights : BitOf(h, w) \in 0..1
  BY ByteIsItsBits
<1>2. /\ H0 \in 0..1 /\ H1 \in 0..1 /\ H2 \in 0..1 /\ H3 \in 0..1
      /\ H4 \in 0..1 /\ H5 \in 0..1 /\ H6 \in 0..1 /\ H7 \in 0..1
  BY <1>1 DEF Weights
<1>3. /\ h = H0 + 2 * H1 + 4 * H2 + 8 * H3 + 16 * H4 + 32 * H5 + 64 * H6 + 128 * H7
  BY ByteIsItsBits
<1> HIDE DEF H0, H1, H2, H3, H4, H5, H6, H7
<1>4. Taken(h, g, 1, 256) = Made(H0, H1, H2, H3, H4)
  <2> DEFINE x == H0 + 2 * H1 + 4 * H2 + 8 * H3 + 16 * H4
             y == H5 + 2 * H6 + 4 * H7 + 8 * g
  <2>1. x \in 0..31 /\ y \in Nat
    BY <1>2
  <2>2. h \div 1 = H0 + 2 * H1 + 4 * H2 + 8 * H3 + 16 * H4 + 32 * H5 + 64 * H6 + 128 * H7
    BY <1>2, <1>3
  <2>3. h \div 1 + g * 256 = x + 32 * y
    BY <1>2, <1>3, <2>2
  <2>4. ((x + 32 * y) % 2^16) % 32 = x
    <3> HIDE DEF x, y
    <3> QED
      BY <2>1, LowFiveBits, Zenon
  <2>5. QED
    BY <2>3, <2>4 DEF Taken, Made
<1>5. Taken(h, g, 2, 128) = Made(H1, H2, H3, H4, H5)
  <2> DEFINE x == H1 + 2 * H2 + 4 * H3 + 8 * H4 + 16 * H5
             y == H6 + 2 * H7 + 4 * g
  <2>1. x \in 0..31 /\ y \in Nat
    BY <1>2
  <2>2. h \div 2 = H1 + 2 * H2 + 4 * H3 + 8 * H4 + 16 * H5 + 32 * H6 + 64 * H7
    BY <1>2, <1>3
  <2>3. h \div 2 + g * 128 = x + 32 * y
    BY <1>2, <1>3, <2>2
  <2>4. ((x + 32 * y) % 2^16) % 32 = x
    <3> HIDE DEF x, y
    <3> QED
      BY <2>1, LowFiveBits, Zenon
  <2>5. QED
    BY <2>3, <2>4 DEF Taken, Made
<1>6. Taken(h, g, 4, 64) = Made(H2, H3, H4, H5, H6)
  <2> DEFINE x == H2 + 2 * H3 + 4 * H4 + 8 * H5 + 16 * H6
             y == H7 + 2 * g
  <2>1. x \in 0..31 /\ y \in Nat
    BY <1>2
  <2>2. h \div 4 = H2 + 2 * H3 + 4 * H4 + 8 * H5 + 16 * H6 + 32 * H7
    BY <1>2, <1>3
  <2>3. h \div 4 + g * 64 = x + 32 * y
    BY <1>2, <1>3, <2>2
  <2>4. ((x + 32 * y) % 2^16) % 32 = x
    <3> HIDE DEF x, y
    <3> QED
      BY <2>1, LowFiveBits, Zenon
  <2>5. QED
    BY <2>3, <2>4 DEF Taken, Made
<1>7. Taken(h, g, 8, 32) = Made(H3, H4, H5, H6, H7)
  <2> DEFINE x == H3 + 2 * H4 + 4 * H5 + 8 * H6 + 16 * H7
             y == g
  <2>1. x \in 0..31 /\ y \in Nat
    BY <1>2
  <2>2. h \div 8 = H3 + 2 * H4 + 4 * H5 + 8 * H6 + 16 * H7
    BY <1>2, <1>3
  <2>3. h \div 8 + g * 32 = x + 32 * y
    BY <1>2, <1>3, <2>2
  <2>4. ((x + 32 * y) % 2^16) % 32 = x
    <3> HIDE DEF x, y
    <3> QED
      BY <2>1, LowFiveBits, Zenon
  <2>5. QED
    BY <2>3, <2>4 DEF Taken, Made
<1>8. QED
  BY <1>4, <1>5, <1>6, <1>7
     DEF H0, H1, H2, H3, H4, H5, H6, H7

\* The same for a group that ends in the byte after it.
LEMMA GroupInTwoBytes ==
  ASSUME NEW h \in 0..255, NEW g \in 0..255
  PROVE  /\ Taken(h, g, 16, 16) =
              Made(BitOf(h, 16), BitOf(h, 32), BitOf(h, 64), BitOf(h, 128), BitOf(g, 1))
         /\ Taken(h, g, 32, 8) =
              Made(BitOf(h, 32), BitOf(h, 64), BitOf(h, 128), BitOf(g, 1), BitOf(g, 2))
         /\ Taken(h, g, 64, 4) =
              Made(BitOf(h, 64), BitOf(h, 128), BitOf(g, 1), BitOf(g, 2), BitOf(g, 4))
         /\ Taken(h, g, 128, 2) =
              Made(BitOf(h, 128), BitOf(g, 1), BitOf(g, 2), BitOf(g, 4), BitOf(g, 8))
<1> DEFINE H0 == BitOf(h, 1)
           H1 == BitOf(h, 2)
           H2 == BitOf(h, 4)
           H3 == BitOf(h, 8)
           H4 == BitOf(h, 16)
           H5 == BitOf(h, 32)
           H6 == BitOf(h, 64)
           H7 == BitOf(h, 128)
<1> DEFINE G0 == BitOf(g, 1)
           G1 == BitOf(g, 2)
           G2 == BitOf(g, 4)
           G3 == BitOf(g, 8)
           G4 == BitOf(g, 16)
           G5 == BitOf(g, 32)
           G6 == BitOf(g, 64)
           G7 == BitOf(g, 128)
<1>1. \A w \in Weights : BitOf(h, w) \in 0..1 /\ BitOf(g, w) \in 0..1
  BY ByteIsItsBits
<1>2. /\ H0 \in 0..1 /\ H1 \in 0..1 /\ H2 \in 0..1 /\ H3 \in 0..1
      /\ H4 \in 0..1 /\ H5 \in 0..1 /\ H6 \in 0..1 /\ H7 \in 0..1
      /\ G0 \in 0..1 /\ G1 \in 0..1 /\ G2 \in 0..1 /\ G3 \in 0..1
      /\ G4 \in 0..1 /\ G5 \in 0..1 /\ G6 \in 0..1 /\ G7 \in 0..1
  BY <1>1 DEF Weights
<1>3. /\ h = H0 + 2 * H1 + 4 * H2 + 8 * H3 + 16 * H4 + 32 * H5 + 64 * H6 + 128 * H7
      /\ g = G0 + 2 * G1 + 4 * G2 + 8 * G3 + 16 * G4 + 32 * G5 + 64 * G6 + 128 * G7
  BY ByteIsItsBits
<1> HIDE DEF H0, H1, H2, H3, H4, H5, H6, H7,
              G0, G1, G2, G3, G4, G5, G6, G7
<1>4. Taken(h, g, 16, 16) = Made(H4, H5, H6, H7, G0)
  <2> DEFINE x == H4 + 2 * H5 + 4 * H6 + 8 * H7 + 16 * G0
             y == G1 + 2 * G2 + 4 * G3 + 8 * G4 + 16 * G5 + 32 * G6 + 64 * G7
  <2>1. x \in 0..31 /\ y \in Nat
    BY <1>2
  <2>2. h \div 16 = H4 + 2 * H5 + 4 * H6 + 8 * H7
    BY <1>2, <1>3
  <2>3. h \div 16 + g * 16 = x + 32 * y
    BY <1>2, <1>3, <2>2
  <2>4. ((x + 32 * y) % 2^16) % 32 = x
    <3> HIDE DEF x, y
    <3> QED
      BY <2>1, LowFiveBits, Zenon
  <2>5. QED
    BY <2>3, <2>4 DEF Taken, Made
<1>5. Taken(h, g, 32, 8) = Made(H5, H6, H7, G0, G1)
  <2> DEFINE x == H5 + 2 * H6 + 4 * H7 + 8 * G0 + 16 * G1
             y == G2 + 2 * G3 + 4 * G4 + 8 * G5 + 16 * G6 + 32 * G7
  <2>1. x \in 0..31 /\ y \in Nat
    BY <1>2
  <2>2. h \div 32 = H5 + 2 * H6 + 4 * H7
    BY <1>2, <1>3
  <2>3. h \div 32 + g * 8 = x + 32 * y
    BY <1>2, <1>3, <2>2
  <2>4. ((x + 32 * y) % 2^16) % 32 = x
    <3> HIDE DEF x, y
    <3> QED
      BY <2>1, LowFiveBits, Zenon
  <2>5. QED
    BY <2>3, <2>4 DEF Taken, Made
<1>6. Taken(h, g, 64, 4) = Made(H6, H7, G0, G1, G2)
  <2> DEFINE x == H6 + 2 * H7 + 4 * G0 + 8 * G1 + 16 * G2
             y == G3 + 2 * G4 + 4 * G5 + 8 * G6 + 16 * G7
  <2>1. x \in 0..31 /\ y \in Nat
    BY <1>2
  <2>2. h \div 64 = H6 + 2 * H7
    BY <1>2, <1>3
  <2>3. h \div 64 + g * 4 = x + 32 * y
    BY <1>2, <1>3, <2>2
  <2>4. ((x + 32 * y) % 2^16) % 32 = x
    <3> HIDE DEF x, y
    <3> QED
      BY <2>1, LowFiveBits, Zenon
  <2>5. QED
    BY <2>3, <2>4 DEF Taken, Made
<1>7. Taken(h, g, 128, 2) = Made(H7, G0, G1, G2, G3)
  <2> DEFINE x == H7 + 2 * G0 + 4 * G1 + 8 * G2 + 16 * G3
             y == G4 + 2 * G5 + 4 * G6 + 8 * G7
  <2>1. x \in 0..31 /\ y \in Nat
    BY <1>2
  <2>2. h \div 128 = H7
    BY <1>2, <1>3
  <2>3. h \div 128 + g * 2 = x + 32 * y
    BY <1>2, <1>3, <2>2
  <2>4. ((x + 32 * y) % 2^16) % 32 = x
    <3> HIDE DEF x, y
    <3> QED
      BY <2>1, LowFiveBits, Zenon
  <2>5. QED
    BY <2>3, <2>4 DEF Taken, Made
<1>8. QED
  BY <1>4, <1>5, <1>6, <1>7
     DEF H0, H1, H2, H3, H4, H5, H6, H7,
         G0, G1, G2, G3, G4, G5, G6, G7

\* The bytes are bytes, and each digit written is the one of its group.
HashInv ==
    /\ hash \in [0..(HashBytes - 1) -> ByteValues]
    /\ digits \in Seq(Int)
    /\ Len(digits) <= EncodedLength
    /\ \A p \in 1..Len(digits) : digits[p] = Digit(EncodedLength - p)

\* The byte in which group n begins, the byte after it if there is one, and the
\* place in the first.
LEMMA GroupBegins ==
  ASSUME NEW n \in 0..(EncodedLength - 1)
  PROVE  /\ (n * 5) \div 8 \in 0..(HashBytes - 1)
         /\ (n * 5) % 8 \in 0..7
         /\ n * 5 = 8 * ((n * 5) \div 8) + ((n * 5) % 8)
<1>1. n \in Nat /\ n * 5 < HashBytes * 8 /\ HashBytes \in Nat
  BY HashAssumption DEF EncodedLength
<1>2. QED
  BY <1>1

\* The bits of the hash from the first of byte i on.
LEMMA BitsFromByte ==
  ASSUME NEW i \in 0..(HashBytes - 1), NEW m \in 0..7
  PROVE  /\ Bit(8 * i + m) = (hash[i] \div 2^m) % 2
         /\ Bit(8 * i + (8 + m)) =
               (IF i < HashBytes - 1 THEN (hash[i + 1] \div 2^m) % 2 ELSE 0)
<1>1. (8 * i + m) \div 8 = i /\ (8 * i + m) % 8 = m
  OBVIOUS
<1>2. (8 * i + (8 + m)) \div 8 = i + 1 /\ (8 * i + (8 + m)) % 8 = m
  OBVIOUS
<1>3. QED
  BY <1>1, <1>2, HashAssumption DEF Bit

\* The digit of a group is made of the five bits of the hash from its first on.
LEMMA DigitIsItsBits ==
  ASSUME hash \in [0..(HashBytes - 1) -> ByteValues], NEW n \in 0..(EncodedLength - 1)
  PROVE  /\ Digit(n) \in 0..31
         /\ \A k \in 0..4 : (Digit(n) \div 2^k) % 2 = Bit(n * 5 + k)
<1> DEFINE i == (n * 5) \div 8
           j == (n * 5) % 8
           h == hash[i]
           g == IF i < HashBytes - 1 THEN hash[i + 1] ELSE 0
           b(m) == Bit(8 * i + m)
<1>1. i \in 0..(HashBytes - 1) /\ j \in 0..7 /\ n * 5 = 8 * i + j
  BY GroupBegins
<1>2. h \in 0..255 /\ g \in 0..255
  <2> HIDE DEF i
  <2>1. h \in ByteValues
    BY <1>1
  <2>2. i < HashBytes - 1 => i + 1 \in 0..(HashBytes - 1)
    BY <1>1, HashAssumption
  <2>3. g \in ByteValues \/ g = 0
    BY <2>2
  <2> HIDE DEF h, g
  <2>4. ByteValues \subseteq 0..255 /\ 0 \in 0..255
    BY HashAssumption
  <2>5. QED
    BY <2>1, <2>3, <2>4
<1>3. Digit(n) = ((h \div 2^j + g * 2^(8 - j)) % 2^16) % 32
  BY <1>1 DEF Digit
<1> HIDE DEF i, j
<1>4. /\ b(0) = BitOf(h, 1) /\ b(1) = BitOf(h, 2) /\ b(2) = BitOf(h, 4) /\ b(3) = BitOf(h, 8)
      /\ b(4) = BitOf(h, 16) /\ b(5) = BitOf(h, 32) /\ b(6) = BitOf(h, 64)
      /\ b(7) = BitOf(h, 128)
  BY <1>1, BitsFromByte DEF BitOf
<1>5. /\ b(8) = BitOf(g, 1) /\ b(9) = BitOf(g, 2) /\ b(10) = BitOf(g, 4)
      /\ b(11) = BitOf(g, 8)
  <2>1. CASE i < HashBytes - 1
    <3>1. \A m \in 0..7 : b(8 + m) = (g \div 2^m) % 2
      BY <1>1, <2>1, BitsFromByte
    <3> HIDE DEF b, g
    <3>2. /\ b(8 + 0) = BitOf(g, 1) /\ b(8 + 1) = BitOf(g, 2)
          /\ b(8 + 2) = BitOf(g, 4) /\ b(8 + 3) = BitOf(g, 8)
      BY <3>1 DEF BitOf
    <3>3. QED
      BY <3>2
  <2>2. CASE ~(i < HashBytes - 1)
    <3>1. \A m \in 0..7 : b(8 + m) = 0
      BY <1>1, <2>2, BitsFromByte
    <3>2. g = 0
      BY <2>2
    <3> HIDE DEF b, g
    <3>3. b(8 + 0) = 0 /\ b(8 + 1) = 0 /\ b(8 + 2) = 0 /\ b(8 + 3) = 0
      BY <3>1
    <3>4. QED
      BY <3>2, <3>3 DEF BitOf
  <2>3. QED
    BY <2>1, <2>2
<1> HIDE DEF h, g, b
<1>6. \A m \in 0..11 : b(m) \in 0..1
  <2>1. \A w \in Weights : BitOf(h, w) \in 0..1 /\ BitOf(g, w) \in 0..1
    BY <1>2, ByteIsItsBits
  <2>2. QED
    BY <1>4, <1>5, <2>1 DEF Weights
<1>7. Digit(n) = Made(b(j), b(j + 1), b(j + 2), b(j + 3), b(j + 4))
  <2>1. CASE j = 0
    <3>1. Digit(n) = Taken(h, g, 1, 256)
      BY <1>3, <2>1 DEF Taken
    <3>2. Taken(h, g, 1, 256) =
            Made(BitOf(h, 1), BitOf(h, 2), BitOf(h, 4), BitOf(h, 8), BitOf(h, 16))
      BY <1>2, GroupInOneByte
    <3>3. /\ b(j) = BitOf(h, 1) /\ b(j + 1) = BitOf(h, 2) /\ b(j + 2) = BitOf(h, 4)
          /\ b(j + 3) = BitOf(h, 8) /\ b(j + 4) = BitOf(h, 16)
      BY <1>4, <1>5, <2>1
    <3>4. QED
      BY <3>1, <3>2, <3>3
  <2>2. CASE j = 1
    <3>1. Digit(n) = Taken(h, g, 2, 128)
      BY <1>3, <2>2 DEF Taken
    <3>2. Taken(h, g, 2, 128) =
            Made(BitOf(h, 2), BitOf(h, 4), BitOf(h, 8), BitOf(h, 16), BitOf(h, 32))
      BY <1>2, GroupInOneByte
    <3>3. /\ b(j) = BitOf(h, 2) /\ b(j + 1) = BitOf(h, 4) /\ b(j + 2) = BitOf(h, 8)
          /\ b(j + 3) = BitOf(h, 16) /\ b(j + 4) = BitOf(h, 32)
      BY <1>4, <1>5, <2>2
    <3>4. QED
      BY <3>1, <3>2, <3>3
  <2>3. CASE j = 2
    <3>1. Digit(n) = Taken(h, g, 4, 64)
      BY <1>3, <2>3 DEF Taken
    <3>2. Taken(h, g, 4, 64) =
            Made(BitOf(h, 4), BitOf(h, 8), BitOf(h, 16), BitOf(h, 32), BitOf(h, 64))
      BY <1>2, GroupInOneByte
    <3>3. /\ b(j) = BitOf(h, 4) /\ b(j + 1) = BitOf(h, 8) /\ b(j + 2) = BitOf(h, 16)
          /\ b(j + 3) = BitOf(h, 32) /\ b(j + 4) = BitOf(h, 64)
      BY <1>4, <1>5, <2>3
    <3>4. QED
      BY <3>1, <3>2, <3>3
  <2>4. CASE j = 3
    <3>1. Digit(n) = Taken(h, g, 8, 32)
      BY <1>3, <2>4 DEF Taken
    <3>2. Taken(h, g, 8, 32) =
            Made(BitOf(h, 8), BitOf(h, 16), BitOf(h, 32), BitOf(h, 64), BitOf(h, 128))
      BY <1>2, GroupInOneByte
    <3>3. /\ b(j) = BitOf(h, 8) /\ b(j + 1) = BitOf(h, 16) /\ b(j + 2) = BitOf(h, 32)
          /\ b(j + 3) = BitOf(h, 64) /\ b(j + 4) = BitOf(h, 128)
      BY <1>4, <1>5, <2>4
    <3>4. QED
      BY <3>1, <3>2, <3>3
  <2>5. CASE j = 4
    <3>1. Digit(n) = Taken(h, g, 16, 16)
      BY <1>3, <2>5 DEF Taken
    <3>2. Taken(h, g, 16, 16) =
            Made(BitOf(h, 16), BitOf(h, 32), BitOf(h, 64), BitOf(h, 128), BitOf(g, 1))
      BY <1>2, GroupInTwoBytes
    <3>3. /\ b(j) = BitOf(h, 16) /\ b(j + 1) = BitOf(h, 32) /\ b(j + 2) = BitOf(h, 64)
          /\ b(j + 3) = BitOf(h, 128) /\ b(j + 4) = BitOf(g, 1)
      BY <1>4, <1>5, <2>5
    <3>4. QED
      BY <3>1, <3>2, <3>3
  <2>6. CASE j = 5
    <3>1. Digit(n) = Taken(h, g, 32, 8)
      BY <1>3, <2>6 DEF Taken
    <3>2. Taken(h, g, 32, 8) =
            Made(BitOf(h, 32), BitOf(h, 64), BitOf(h, 128), BitOf(g, 1), BitOf(g, 2))
      BY <1>2, GroupInTwoBytes
    <3>3. /\ b(j) = BitOf(h, 32) /\ b(j + 1) = BitOf(h, 64) /\ b(j + 2) = BitOf(h, 128)
          /\ b(j + 3) = BitOf(g, 1) /\ b(j + 4) = BitOf(g, 2)
      BY <1>4, <1>5, <2>6
    <3>4. QED
      BY <3>1, <3>2, <3>3
  <2>7. CASE j = 6
    <3>1. Digit(n) = Taken(h, g, 64, 4)
      BY <1>3, <2>7 DEF Taken
    <3>2. Taken(h, g, 64, 4) =
            Made(BitOf(h, 64), BitOf(h, 128), BitOf(g, 1), BitOf(g, 2), BitOf(g, 4))
      BY <1>2, GroupInTwoBytes
    <3>3. /\ b(j) = BitOf(h, 64) /\ b(j + 1) = BitOf(h, 128) /\ b(j + 2) = BitOf(g, 1)
          /\ b(j + 3) = BitOf(g, 2) /\ b(j + 4) = BitOf(g, 4)
      BY <1>4, <1>5, <2>7
    <3>4. QED
      BY <3>1, <3>2, <3>3
  <2>8. CASE j = 7
    <3>1. Digit(n) = Taken(h, g, 128, 2)
      BY <1>3, <2>8 DEF Taken
    <3>2. Taken(h, g, 128, 2) =
            Made(BitOf(h, 128), BitOf(g, 1), BitOf(g, 2), BitOf(g, 4), BitOf(g, 8))
      BY <1>2, GroupInTwoBytes
    <3>3. /\ b(j) = BitOf(h, 128) /\ b(j + 1) = BitOf(g, 1) /\ b(j + 2) = BitOf(g, 2)
          /\ b(j + 3) = BitOf(g, 4) /\ b(j + 4) = BitOf(g, 8)
      BY <1>4, <1>5, <2>8
    <3>4. QED
      BY <3>1, <3>2, <3>3
  <2>9. QED
    BY <1>1, <2>1, <2>2, <2>3, <2>4, <2>5, <2>6, <2>7, <2>8
<1>8. /\ Digit(n) \in 0..31
      /\ BitOf(Digit(n), 1) = b(j) /\ BitOf(Digit(n), 2) = b(j + 1)
      /\ BitOf(Digit(n), 4) = b(j + 2) /\ BitOf(Digit(n), 8) = b(j + 3)
      /\ BitOf(Digit(n), 16) = b(j + 4)
  <2>1. b(j) \in 0..1 /\ b(j + 1) \in 0..1 /\ b(j + 2) \in 0..1 /\ b(j + 3) \in 0..1
          /\ b(j + 4) \in 0..1
    BY <1>1, <1>6
  <2> DEFINE c0 == b(j)
             c1 == b(j + 1)
             c2 == b(j + 2)
             c3 == b(j + 3)
             c4 == b(j + 4)
  <2>2. c0 \in 0..1 /\ c1 \in 0..1 /\ c2 \in 0..1 /\ c3 \in 0..1 /\ c4 \in 0..1
    BY <2>1
  <2>3. Digit(n) = c0 + 2 * c1 + 4 * c2 + 8 * c3 + 16 * c4
    BY <1>7 DEF Made
  <2> HIDE DEF c0, c1, c2, c3, c4
  <2>4. /\ Digit(n) \in 0..31
        /\ BitOf(Digit(n), 1) = c0 /\ BitOf(Digit(n), 2) = c1 /\ BitOf(Digit(n), 4) = c2
        /\ BitOf(Digit(n), 8) = c3 /\ BitOf(Digit(n), 16) = c4
    BY <2>2, <2>3 DEF BitOf
  <2>5. QED
    BY <2>4 DEF c0, c1, c2, c3, c4
<1>9. ASSUME NEW k \in 0..4
      PROVE  (Digit(n) \div 2^k) % 2 = b(j + k)
  <2>1. CASE k = 0
    BY <1>1, <1>8, <2>1 DEF BitOf
  <2>2. CASE k = 1
    BY <1>8, <2>2 DEF BitOf
  <2>3. CASE k = 2
    BY <1>8, <2>3 DEF BitOf
  <2>4. CASE k = 3
    BY <1>8, <2>4 DEF BitOf
  <2>5. CASE k = 4
    BY <1>8, <2>5 DEF BitOf
  <2>6. QED
    BY <2>1, <2>2, <2>3, <2>4, <2>5
<1>10. \A k \in 0..4 : n * 5 + k = 8 * i + (j + k)
  BY <1>1
<1>11. QED
  BY <1>8, <1>9, <1>10 DEF b

\* Every turn of the loop writes the digit of its group.
LEMMA HashStep == HashInv /\ [HashNext]_hashVars => HashInv'
<1> SUFFICES ASSUME HashInv, [HashNext]_hashVars PROVE HashInv'
  OBVIOUS
<1>1. CASE EncodeDigit
  <2>1. Len(digits) \in Nat /\ EncodedLength \in Nat /\ Len(digits) < EncodedLength
    BY <1>1, HashAssumption DEF EncodeDigit, HashInv, EncodedLength
  <2> DEFINE n == EncodedLength - 1 - Len(digits)
  <2>2. n \in 0..(EncodedLength - 1)
    BY <2>1
  <2>3. hash' = hash /\ digits' = Append(digits, Digit(n))
    BY <1>1 DEF EncodeDigit
  <2>4. Digit(n) \in Int
    <3> HIDE DEF n
    <3>1. Digit(n) \in 0..31
      BY <2>2, DigitIsItsBits DEF HashInv
    <3>2. QED
      BY <3>1
  <2>5. \A m \in Int : Digit(m)' = Digit(m)
    BY <2>3 DEF Digit
  <2> HIDE DEF n
  <2>6. digits' \in Seq(Int) /\ Len(digits') = Len(digits) + 1
    BY <2>3, <2>4 DEF HashInv
  <2>7. ASSUME NEW p \in 1..Len(digits')
        PROVE  digits'[p] = Digit(EncodedLength - p)'
    <3>1. CASE p \in 1..Len(digits)
      <4>1. digits'[p] = digits[p]
        BY <2>3, <2>4, <3>1 DEF HashInv
      <4>2. EncodedLength - p \in Int
        BY <2>1
      <4>3. QED
        BY <2>5, <3>1, <4>1, <4>2 DEF HashInv
    <3>2. CASE p = Len(digits) + 1
      <4>1. digits'[p] = Digit(n)
        BY <2>3, <2>4, <3>2 DEF HashInv
      <4>2. n = EncodedLength - p /\ n \in Int
        BY <2>1, <3>2 DEF n
      <4>3. QED
        BY <2>5, <4>1, <4>2
    <3>3. QED
      BY <2>1, <2>6, <3>1, <3>2
  <2>8. EncodedLength' = EncodedLength
    BY DEF EncodedLength
  <2>9. QED
    BY <2>1, <2>3, <2>6, <2>7, <2>8 DEF HashInv
<1>2. CASE UNCHANGED hashVars
  BY <1>2 DEF hashVars, HashInv, Digit
<1>3. QED
  BY <1>1, <1>2 DEF HashNext

\* What is written are the bits of the hash.
LEMMA WrittenBits == HashInv => DigitsAreTheHash
<1> SUFFICES ASSUME HashInv, NEW p \in 1..Len(digits)
             PROVE  LET n == EncodedLength - p IN
                    /\ digits[p] \in 0..31
                    /\ \A k \in 0..4 : (digits[p] \div 2^k) % 2 = Bit(n * 5 + k)
  BY DEF DigitsAreTheHash
<1> DEFINE n == EncodedLength - p
<1>1. n \in 0..(EncodedLength - 1) /\ digits[p] = Digit(n)
  BY HashAssumption DEF HashInv, EncodedLength
<1>2. QED
  BY <1>1, DigitIsItsBits DEF HashInv

\* EncodeNix32 writes the hash as one little-endian number in base 32, whatever its
\* length: the groups that span two bytes and the short last group included.
THEOREM HashWritten == HashSpec => []DigitsAreTheHash
<1>1. HashInit => HashInv
  BY HashAssumption DEF HashInit, HashInv, EncodedLength
<1>2. QED
  BY <1>1, HashStep, WrittenBits, PTL DEF HashSpec

\* The bit b of the hash, and its byte m, as a reader of the digits finds them.
ReadBit(b) == BitOf(digits[EncodedLength - (b \div 5)], 2^(b % 5))
ReadByte(m) ==
    ReadBit(8 * m) + 2 * ReadBit(8 * m + 1) + 4 * ReadBit(8 * m + 2)
      + 8 * ReadBit(8 * m + 3) + 16 * ReadBit(8 * m + 4) + 32 * ReadBit(8 * m + 5)
      + 64 * ReadBit(8 * m + 6) + 128 * ReadBit(8 * m + 7)

\* Every bit of the hash can be read from the finished text.
LEMMA BitCanBeRead ==
  ASSUME DigitsAreTheHash, Len(digits) = EncodedLength, NEW b \in 0..(8 * HashBytes - 1)
  PROVE  ReadBit(b) = Bit(b)
<1> DEFINE n == b \div 5
           k == b % 5
           p == EncodedLength - n
<1>1. /\ EncodedLength \in Nat
      /\ n \in 0..(EncodedLength - 1)
      /\ k \in 0..4
      /\ b = n * 5 + k
  BY HashAssumption DEF EncodedLength
<1> HIDE DEF n, k
<1>2. p \in 1..Len(digits) /\ EncodedLength - p = n
  BY <1>1
<1>3. (digits[p] \div 2^k) % 2 = Bit(n * 5 + k)
  BY <1>1, <1>2 DEF DigitsAreTheHash
<1>4. QED
  BY <1>1, <1>3 DEF ReadBit, BitOf, n, k

\* Nothing of the hash is lost: a reader of the finished text finds every byte, so
\* that different hashes have different texts.
THEOREM TextTellsTheHash ==
  HashSpec => [](Len(digits) = EncodedLength =>
                    \A m \in 0..(HashBytes - 1) : hash[m] = ReadByte(m))
<1>1. HashInv /\ DigitsAreTheHash =>
        (Len(digits) = EncodedLength =>
           \A m \in 0..(HashBytes - 1) : hash[m] = ReadByte(m))
  <2> SUFFICES ASSUME HashInv, DigitsAreTheHash, Len(digits) = EncodedLength,
                      NEW m \in 0..(HashBytes - 1)
               PROVE  hash[m] = ReadByte(m)
    OBVIOUS
  <2>1. \A w \in 0..7 : 8 * m + w \in 0..(8 * HashBytes - 1)
    BY HashAssumption
  <2>2. \A w \in 0..7 : ReadBit(8 * m + w) = (hash[m] \div 2^w) % 2
    BY <2>1, BitCanBeRead, BitsFromByte
  <2>3. /\ ReadBit(8 * m + 0) = BitOf(hash[m], 1) /\ ReadBit(8 * m + 1) = BitOf(hash[m], 2)
        /\ ReadBit(8 * m + 2) = BitOf(hash[m], 4) /\ ReadBit(8 * m + 3) = BitOf(hash[m], 8)
        /\ ReadBit(8 * m + 4) = BitOf(hash[m], 16) /\ ReadBit(8 * m + 5) = BitOf(hash[m], 32)
        /\ ReadBit(8 * m + 6) = BitOf(hash[m], 64) /\ ReadBit(8 * m + 7) = BitOf(hash[m], 128)
    BY <2>2 DEF BitOf
  <2>4. 8 * m + 0 = 8 * m
    OBVIOUS
  <2>5. hash[m] \in 0..255
    BY HashAssumption DEF HashInv
  <2>6. hash[m] = BitOf(hash[m], 1) + 2 * BitOf(hash[m], 2) + 4 * BitOf(hash[m], 4)
                    + 8 * BitOf(hash[m], 8) + 16 * BitOf(hash[m], 16)
                    + 32 * BitOf(hash[m], 32) + 64 * BitOf(hash[m], 64)
                    + 128 * BitOf(hash[m], 128)
    BY <2>5, ByteIsItsBits
  <2>7. QED
    BY <2>3, <2>4, <2>6 DEF ReadByte
<1>2. HashInit => HashInv
  BY HashAssumption DEF HashInit, HashInv, EncodedLength
<1>3. QED
  BY <1>1, <1>2, HashStep, WrittenBits, PTL DEF HashSpec

-----------------------------------------------------------------------------
(* A node of a lock graph (LockGraph), for any names of inputs and nodes.    *)
(* LockGraphKept compares two documents that a Go node stands between: the   *)
(* invariant says of the node that it still tells what Nix wrote.            *)

\* What UnmarshalJSON made of the edges would be marshalled as the edges of d.
SameEdges(d, nd) ==
    /\ DOMAIN nd.inputs = DOMAIN d.inputs
    /\ \A k \in DOMAIN d.inputs :
         /\ DOMAIN nd.inputs[k] = DOMAIN d.inputs[k]
         /\ \A i \in DOMAIN d.inputs[k] : EdgeJSON(nd.inputs[k][i]) = d.inputs[k][i]

\* The node tells what Nix takes from d.
Tells(d, nd) ==
    /\ SameEdges(d, nd)
    /\ nd.original = d.original
    /\ nd.locked = d.locked
    /\ IF NixFlake(d) THEN nd.flake = TRUE ELSE nd.flake = FALSE
    /\ nd.parent = d.parent

LockInv ==
    /\ doc \in Documents
    /\ lockStep = "read" => Tells(doc, node)
    /\ LockGraphKept

\* A member is absent or has one value.
LEMMA OptionalValue ==
  ASSUME NEW S, NEW x \in Optional(S)
  PROVE  \/ x = <<>> /\ DOMAIN x = {}
         \/ \E y \in S : x = <<y>> /\ DOMAIN x = {1} /\ x[1] = y /\ x # <<>>
BY DEF Optional

\* An edge that is a string or an array comes back as it was, the array of an empty
\* follows path included.
LEMMA EdgeComesBack ==
  ASSUME NEW e \in Edges, e.kind # "other"
  PROVE  EdgeJSON(Edge(e)) = e
<1>1. CASE e.kind = "string"
  <2>1. e = [kind |-> "string", path |-> e.path]
    BY <1>1 DEF Edges
  <2>2. Edge(e).follows = <<>> /\ Edge(e).node = e.path
    BY <1>1 DEF Edge
  <2>3. QED
    BY <2>1, <2>2 DEF EdgeJSON, IsFollows
<1>2. CASE e.kind # "string"
  <2>1. e = [kind |-> "array", path |-> e.path]
    BY <1>2 DEF Edges
  <2>2. Edge(e).follows = <<e.path>>
    BY <1>2 DEF Edge
  <2>3. <<e.path>> # <<>> /\ <<e.path>>[1] = e.path
    OBVIOUS
  <2>4. QED
    BY <2>1, <2>2, <2>3 DEF EdgeJSON, IsFollows
<1>3. QED
  BY <1>1, <1>2

\* The inputs of a document: none, or one function from names to edges.
LEMMA DocumentInputs ==
  ASSUME doc \in Documents
  PROVE  \/ doc.inputs = <<>> /\ DOMAIN doc.inputs = {}
         \/ \E I \in SUBSET InputNames : \E f \in [I -> Edges] :
              /\ doc.inputs = <<f>>
              /\ DOMAIN doc.inputs = {1}
              /\ doc.inputs[1] = f
              /\ doc.inputs # <<>>
<1>1. doc.inputs \in Optional(UNION {[I -> Edges] : I \in SUBSET InputNames})
  BY DEF Documents
<1>2. QED
  BY <1>1, OptionalValue

\* UnmarshalJSON makes a node that tells the document.
LEMMA NodeTells ==
  ASSUME doc \in Documents, ReadNode
  PROVE  Tells(doc, node')
<1> DEFINE nd == node'
<1>1. /\ nd.inputs = [k \in DOMAIN doc.inputs |->
                        [i \in DOMAIN doc.inputs[k] |-> Edge(doc.inputs[k][i])]]
      /\ nd.original = doc.original
      /\ nd.locked = doc.locked
      /\ nd.flake = (IF doc.flake = <<>> THEN FlakeDefault ELSE doc.flake[1])
      /\ nd.parent = doc.parent
  BY DEF ReadNode
<1>2. ASSUME NEW k \in DOMAIN doc.inputs, NEW i \in DOMAIN doc.inputs[k]
      PROVE  EdgeJSON(Edge(doc.inputs[k][i])) = doc.inputs[k][i]
  <2>1. doc.inputs # <<>> /\ k = 1 /\ doc.inputs[1][i] \in Edges
    BY <1>2, DocumentInputs
  <2>2. doc.inputs[1][i].kind # "other"
    BY <1>2, <2>1 DEF ReadNode, Malformed
  <2>3. QED
    BY <2>1, <2>2, EdgeComesBack
<1>3. SameEdges(doc, nd)
  <2> HIDE DEF nd
  <2>1. DOMAIN nd.inputs = DOMAIN doc.inputs
    BY <1>1
  <2>2. ASSUME NEW k \in DOMAIN doc.inputs
        PROVE  nd.inputs[k] = [i \in DOMAIN doc.inputs[k] |-> Edge(doc.inputs[k][i])]
    BY <1>1
  <2>3. ASSUME NEW k \in DOMAIN doc.inputs
        PROVE  /\ DOMAIN nd.inputs[k] = DOMAIN doc.inputs[k]
               /\ \A i \in DOMAIN doc.inputs[k] : EdgeJSON(nd.inputs[k][i]) = doc.inputs[k][i]
    <3>1. DOMAIN nd.inputs[k] = DOMAIN doc.inputs[k]
      BY <2>2
    <3>2. ASSUME NEW i \in DOMAIN doc.inputs[k]
          PROVE  EdgeJSON(nd.inputs[k][i]) = doc.inputs[k][i]
      <4>1. nd.inputs[k][i] = Edge(doc.inputs[k][i])
        BY <2>2
      <4>2. QED
        BY <1>2, <4>1
    <3>3. QED
      BY <3>1, <3>2
  <2>4. QED
    BY <2>1, <2>3 DEF SameEdges
<1>4. IF NixFlake(doc) THEN nd.flake = TRUE ELSE nd.flake = FALSE
  <2>1. doc.flake \in Optional({TRUE, FALSE})
    BY DEF Documents
  <2>2. doc.flake = <<>> \/ doc.flake = <<TRUE>> \/ doc.flake = <<FALSE>>
    BY <2>1 DEF Optional
  <2> DEFINE fl == doc.flake
  <2>3. nd.flake = (IF fl = <<>> THEN TRUE ELSE fl[1])
    BY <1>1 DEF FlakeDefault
  <2>4. NixFlake(doc) <=> fl # <<FALSE>>
    BY DEF NixFlake
  <2> HIDE DEF nd, fl
  <2>5. CASE fl = <<>>
    <3>1. <<>> # <<FALSE>>
      OBVIOUS
    <3>2. nd.flake = TRUE
      BY <2>3, <2>5, Zenon
    <3>3. QED
      BY <2>4, <2>5, <3>1, <3>2
  <2>6. CASE fl = <<TRUE>>
    <3>1. <<TRUE>> # <<FALSE>>
      OBVIOUS
    <3>2. fl # <<>> /\ fl[1] = TRUE
      BY <2>6
    <3>3. nd.flake = TRUE
      BY <2>3, <3>2, Zenon
    <3>4. QED
      BY <2>4, <2>6, <3>1, <3>3
  <2>7. CASE fl = <<FALSE>>
    <3>1. fl # <<>> /\ fl[1] = FALSE
      BY <2>7
    <3>2. nd.flake = FALSE
      BY <2>3, <3>1, Zenon
    <3>3. QED
      BY <2>4, <2>7, <3>2
  <2>8. QED
    BY <2>2, <2>5, <2>6, <2>7 DEF fl
<1>5. QED
  BY <1>1, <1>3, <1>4 DEF Tells

\* What json.Marshal makes of a node that tells the document.
LEMMA MarshalledNode ==
  ASSUME doc \in Documents, Tells(doc, node), MarshalNode
  PROVE  /\ SameButParent(doc, sent')
         /\ sent'.parent = doc.parent \/ doc.parent = <<<<>>>>
<1> DEFINE out == sent'
           J == [k \in DOMAIN node.inputs |->
                   [i \in DOMAIN node.inputs[k] |-> EdgeJSON(node.inputs[k][i])]]
<1>1. /\ out.inputs = OmitEmpty(J)
      /\ out.original = node.original
      /\ out.locked = node.locked
      /\ out.flake = <<node.flake>>
      /\ out.parent = OmitEmpty(node.parent)
  BY DEF MarshalNode
<1>2. J = doc.inputs
  <2>1. CASE doc.inputs = <<>> /\ DOMAIN doc.inputs = {}
    <3>1. DOMAIN node.inputs = {}
      BY <2>1 DEF Tells, SameEdges
    <3>2. QED
      BY <2>1, <3>1
  <2>2. ASSUME NEW I \in SUBSET InputNames, NEW f \in [I -> Edges],
               doc.inputs = <<f>>, DOMAIN doc.inputs = {1}, doc.inputs[1] = f
        PROVE  J = doc.inputs
    <3>1. /\ DOMAIN node.inputs = {1}
          /\ DOMAIN node.inputs[1] = I
          /\ \A i \in I : EdgeJSON(node.inputs[1][i]) = f[i]
      BY <2>2 DEF Tells, SameEdges
    <3>2. [i \in DOMAIN node.inputs[1] |-> EdgeJSON(node.inputs[1][i])] = f
      BY <3>1
    <3>3. J[1] = f /\ DOMAIN J = {1}
      BY <3>1, <3>2
    <3>4. QED
      BY <2>2, <3>3
  <2>3. QED
    BY <2>1, <2>2, DocumentInputs
<1> HIDE DEF out, J
<1>3. NixInputs(doc) = NixInputs(out)
  <2>1. CASE doc.inputs = <<>>
    BY <1>1, <1>2, <2>1 DEF NixInputs, OmitEmpty
  <2>2. CASE doc.inputs # <<>> /\ DOMAIN doc.inputs[1] = {}
    <3>1. out.inputs = <<>>
      BY <1>1, <1>2, <2>2 DEF OmitEmpty
    <3>2. QED
      BY <2>2, <3>1 DEF NixInputs
  <2>3. CASE doc.inputs # <<>> /\ DOMAIN doc.inputs[1] # {}
    <3>1. out.inputs = doc.inputs
      BY <1>1, <1>2, <2>3 DEF OmitEmpty
    <3>2. QED
      BY <3>1 DEF NixInputs
  <2>4. QED
    BY <2>1, <2>2, <2>3
<1>4. NixFlake(doc) = NixFlake(out)
  <2>1. CASE NixFlake(doc)
    <3>1. node.flake = TRUE
      BY <2>1 DEF Tells
    <3>2. <<node.flake>> # <<FALSE>>
      BY <3>1
    <3>3. NixFlake(out)
      BY <1>1, <3>2 DEF NixFlake
    <3>4. QED
      BY <2>1, <3>3 DEF NixFlake
  <2>2. CASE ~NixFlake(doc)
    <3>1. node.flake = FALSE
      BY <2>2 DEF Tells
    <3>2. <<node.flake>> = <<FALSE>>
      BY <3>1
    <3>3. ~NixFlake(out)
      BY <1>1, <3>2 DEF NixFlake
    <3>4. QED
      BY <2>2, <3>3 DEF NixFlake
  <2>3. QED
    BY <2>1, <2>2
<1>5. out.parent = doc.parent \/ doc.parent = <<<<>>>>
  <2>1. doc.parent \in Optional(Paths)
    BY DEF Documents
  <2>2. out.parent = OmitEmpty(doc.parent)
    BY <1>1 DEF Tells
  <2>3. CASE doc.parent = <<>>
    BY <2>2, <2>3 DEF OmitEmpty
  <2>4. ASSUME NEW y \in Paths, doc.parent = <<y>>, doc.parent[1] = y
        PROVE  out.parent = doc.parent \/ doc.parent = <<<<>>>>
    <3>1. DOMAIN y = {} => y = <<>>
      BY DEF Paths
    <3>2. QED
      BY <2>2, <2>4, <3>1 DEF OmitEmpty
  <2>5. QED
    BY <2>1, <2>3, <2>4, OptionalValue
<1>6. SameButParent(doc, out)
  BY <1>1, <1>3, <1>4 DEF SameButParent, Tells
<1>7. QED
  BY <1>5, <1>6 DEF out

\* The two conversions keep the invariant.
LEMMA LockStepKept == LockInv /\ [LockNext]_lockVars => LockInv'
<1> SUFFICES ASSUME LockInv, [LockNext]_lockVars PROVE LockInv'
  OBVIOUS
<1> USE DEF LockInv
<1>1. CASE ReadNode
  <2>1. doc' = doc /\ lockStep' = "read"
    BY <1>1 DEF ReadNode
  <2>2. Tells(doc, node')
    BY <1>1, NodeTells
  <2>3. QED
    BY <2>1, <2>2 DEF LockGraphKept
<1>2. CASE ReadFails
  BY <1>2 DEF ReadFails, LockGraphKept
<1>3. CASE MarshalNode
  <2>1. doc' = doc /\ lockStep' = "returned" /\ Tells(doc, node)
    BY <1>3 DEF MarshalNode
  <2>2. /\ SameButParent(doc, sent')
        /\ sent'.parent = doc.parent \/ doc.parent = <<<<>>>>
    BY <1>3, <2>1, MarshalledNode
  <2>3. LockGraphKept'
    BY <2>1, <2>2 DEF LockGraphKept
  <2>4. QED
    BY <2>1, <2>3
<1>4. CASE UNCHANGED lockVars
  BY <1>4 DEF lockVars, LockGraphKept
<1>5. QED
  BY <1>1, <1>2, <1>3, <1>4 DEF LockNext

\* The lock graph a caller gets from LockInfo and passes to WithReferenceLockInfo
\* reads to Nix as the one Nix wrote, but for an empty parent path.
THEOREM LockGraphComesBack == LockSpec => []LockGraphKept
<1>1. LockInit => LockInv
  BY DEF LockInit, LockInv, LockGraphKept
<1>2. QED
  BY <1>1, LockStepKept, PTL DEF LockSpec, LockInv

-----------------------------------------------------------------------------
(* A number on its way between Nix and Go (GoIntegers), for types of any      *)
(* width.  What the code asks of reflect before it sets a number is compared  *)
(* with the numbers the type has.                                             *)

\* What % makes of a number less than n away from zero.
LEMMA Remainders ==
  ASSUME NEW n \in Nat \ {0}, NEW x \in Int
  PROVE  /\ x % n \in 0..(n - 1)
         /\ x \in 0..(n - 1) => x % n = x
         /\ x \in (-n)..(-1) => x % n = x + n
<1>1. x % n \in 0..(n - 1)
  OBVIOUS
<1>2. x \in 0..(n - 1) => x % n = x
  OBVIOUS
<1>3. x \in (-n)..(-1) => x % n = x + n
  OBVIOUS
<1>4. QED
  BY <1>1, <1>2, <1>3

\* A span is twice the number of its negative values.
LEMMA SpanHalves ==
  ASSUME NEW span \in Span
  PROVE  /\ span \in Nat \ {0}
         /\ span \div 2 \in Nat \ {0}
         /\ span = 2 * (span \div 2)
BY DEF Span

\* Cut to the bits of a signed type, a number is one of the type, and it is the same
\* number exactly when it was one of the type before.
LEMMA CutToType ==
  ASSUME NEW span \in Span, NEW x \in Int
  PROVE  /\ Cut(x, span) \in Signed(span)
         /\ Cut(x, span) = x <=> x \in Signed(span)
<1> DEFINE h == span \div 2
<1>1. h \in Nat \ {0} /\ span = 2 * h /\ span \in Nat \ {0}
  BY SpanHalves
<1>2. /\ Cut(x, span) = IF x % span >= h THEN (x % span) - span ELSE x % span
      /\ Signed(span) = -h..(h - 1)
  BY DEF Cut, Signed
<1>3. /\ x % span \in 0..(span - 1)
      /\ x \in 0..(span - 1) => x % span = x
      /\ x \in (-span)..(-1) => x % span = x + span
  BY <1>1, Remainders
<1> DEFINE low == x % span
<1> HIDE DEF h, low
<1>4. /\ Cut(x, span) = IF low >= h THEN low - span ELSE low
      /\ low \in 0..(span - 1)
      /\ x \in 0..(span - 1) => low = x
      /\ x \in (-span)..(-1) => low = x + span
  BY <1>2, <1>3 DEF low
<1>5. Cut(x, span) \in -h..(h - 1)
  BY <1>1, <1>4
<1>6. x \in -h..(h - 1) => Cut(x, span) = x
  BY <1>1, <1>4
<1>7. QED
  BY <1>2, <1>5, <1>6

\* unmarshalInt accepts a Nix integer exactly when the target's type has it.
THEOREM SignedFieldsExact ==
  \A span \in Span : \A got \in Signed(Word) :
    ~OverflowInt(got, span) <=> got \in Signed(span)
<1> SUFFICES ASSUME NEW span \in Span, NEW got \in Signed(Word)
             PROVE  ~OverflowInt(got, span) <=> got \in Signed(span)
  OBVIOUS
<1>1. got \in Int
  BY WordAssumption, SpanHalves DEF Signed
<1>2. QED
  BY <1>1, CutToType DEF OverflowInt

\* unmarshalUint accepts a Nix integer exactly when the target's type has it, and
\* what it then sets is that integer.
THEOREM UnsignedFieldsExact ==
  \A span \in Span : \A got \in Signed(Word) :
    /\ ~UnsignedOverflow(got, span) <=> got \in Natural(span)
    /\ ~UnsignedOverflow(got, span) => Unsigned(got) = got
<1> SUFFICES ASSUME NEW span \in Span, NEW got \in Signed(Word)
             PROVE  /\ ~UnsignedOverflow(got, span) <=> got \in Natural(span)
                    /\ got >= 0 => Unsigned(got) = got
  BY WordAssumption, SpanHalves DEF UnsignedOverflow, Signed
<1> DEFINE h == Word \div 2
<1>1. h \in Nat \ {0} /\ Word = 2 * h /\ Word \in Nat \ {0} /\ span \in Nat \ {0}
  BY WordAssumption, SpanHalves
<1>2. got \in -h..(h - 1)
  BY DEF Signed
<1> HIDE DEF h
<1>3. got >= 0 => Unsigned(got) = got
  <2>1. SUFFICES ASSUME got >= 0 PROVE got % Word = got
    BY DEF Unsigned
  <2>2. got \in Int /\ got \in 0..(Word - 1)
    BY <1>1, <1>2, <2>1
  <2>3. QED
    BY <1>1, <2>2, Remainders
<1>4. CASE got < 0
  BY <1>1, <1>2, <1>4 DEF UnsignedOverflow, Natural
<1>5. CASE got >= 0
  <2>1. UnsignedOverflow(got, span) <=> got % span # got
    BY <1>2, <1>3, <1>5, <1>1 DEF UnsignedOverflow, OverflowUint
  <2>2. /\ got \in Int
        /\ got % span \in 0..(span - 1)
        /\ got \in 0..(span - 1) => got % span = got
    BY <1>1, <1>2, Remainders
  <2>3. QED
    BY <1>3, <2>1, <2>2 DEF Natural
<1>6. QED
  BY <1>1, <1>2, <1>4, <1>3, <1>5

\* goValueFromReflect refuses an unsigned Go number exactly when Nix has no integer
\* for it.  One it takes becomes the same number in Nix, and decoded into the type it
\* came from it is accepted and is the same again.
THEOREM UnsignedArgumentsKept ==
  \A span \in Span : \A x \in Natural(span) \cap Natural(Word) :
    /\ ~TooLarge(x) <=> x \in Signed(Word)
    /\ ~TooLarge(x) => /\ Cut(x, Word) = x
                       /\ ~UnsignedOverflow(Cut(x, Word), span)
                       /\ Unsigned(Cut(x, Word)) = x
<1> SUFFICES ASSUME NEW span \in Span, NEW x \in Natural(span) \cap Natural(Word)
             PROVE  /\ ~TooLarge(x) <=> x \in Signed(Word)
                    /\ ~TooLarge(x) => /\ Cut(x, Word) = x
                                       /\ ~UnsignedOverflow(Cut(x, Word), span)
                                       /\ Unsigned(Cut(x, Word)) = x
  OBVIOUS
<1>1. x \in Nat /\ Word \in Span
  BY WordAssumption, SpanHalves DEF Natural
<1>2. ~TooLarge(x) <=> x \in Signed(Word)
  <2> DEFINE h == Word \div 2
  <2>1. h \in Nat \ {0}
    BY WordAssumption, SpanHalves
  <2>2. (TooLarge(x) <=> x > h - 1) /\ Signed(Word) = -h..(h - 1)
    BY DEF TooLarge, Signed
  <2> HIDE DEF h
  <2>3. QED
    BY <1>1, <2>1, <2>2
<1>3. ASSUME ~TooLarge(x)
      PROVE  /\ Cut(x, Word) = x
             /\ ~UnsignedOverflow(Cut(x, Word), span)
             /\ Unsigned(Cut(x, Word)) = x
  <2>1. x \in Signed(Word) /\ x \in Natural(span)
    BY <1>2, <1>3
  <2>2. Cut(x, Word) = x
    BY <1>1, <2>1, CutToType
  <2>3. ~UnsignedOverflow(x, span) /\ Unsigned(x) = x
    BY <2>1, UnsignedFieldsExact
  <2>4. QED
    BY <2>2, <2>3
<1>4. QED
  BY <1>2, <1>3

=============================================================================

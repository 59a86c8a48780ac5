--------------------------- MODULE SM4CodecProofs ---------------------------
(***************************************************************************)
(* Theorems about SM4Codec, for texts and data of any length, over bytes and *)
(* digits of any width: no codec writes outside the buffer its caller        *)
(* allocates; the encoders return the text hexadecimal and Base64 define, the *)
(* decoders what a well-formed text stands for and nothing for any other;     *)
(* what was encoded decodes to the bytes it was made of.                      *)
(*                                                                           *)
(* The definition speaks of bits, the code of numbers it shifts and masks.    *)
(* Both are the parts of one number a group: "Holds" says that a sequence     *)
(* holds the parts of some numbers, and two sequences that hold the parts of  *)
(* the same numbers have the same bits ("SameBits").                          *)
(***************************************************************************)
EXTENDS SM4Codec, WellFoundedInduction, TLAPS

-----------------------------------------------------------------------------
(* Induction over natural numbers, from well-foundedness; division *)

LEMMA Below ==
  ASSUME NEW T, T \subseteq Nat, T # {}
  PROVE  \E x \in T : \A y \in T : ~(y < x)
<1> DEFINE R == OpToRel(<, Nat)
<1>1. IsWellFoundedOn(R, Nat)
  BY NatLessThanWellFounded
<1>2. \A x, y \in Nat : <<y, x>> \in R <=> y < x
  BY DEF OpToRel
<1> HIDE DEF R
<1>3. PICK x \in T : \A y \in T : ~(<<y, x>> \in R)
  BY <1>1, WFMin
<1> QED
  BY <1>2, <1>3

LEMMA NatSetInduction ==
  ASSUME NEW S, 0 \in S, \A n \in Nat : n \in S => n + 1 \in S
  PROVE  Nat \subseteq S
<1> DEFINE T == Nat \ S
<1> SUFFICES ASSUME T # {} PROVE FALSE
  OBVIOUS
<1>1. PICK x \in T : \A y \in T : ~(y < x)
  BY Below
<1>2. x \in Nat /\ x # 0
  BY <1>1
<1>3. x - 1 \in Nat /\ x - 1 + 1 = x /\ x - 1 < x
  BY <1>2
<1>4. x - 1 \in S
  BY <1>1, <1>3
<1> QED
  BY <1>1, <1>3, <1>4

LEMMA TimesMonotone ==
  ASSUME NEW a \in Nat, NEW b \in Nat, NEW c \in Nat, a <= b
  PROVE  c * a <= c * b /\ c * a \in Nat
<1>1. PICK d \in Nat : b = a + d
  <2>1. b - a \in Nat /\ b = a + (b - a)
    OBVIOUS
  <2> QED
    BY <2>1
<1>2. c * b = c * a + c * d
  BY <1>1
<1>3. c * d \in Nat /\ c * a \in Nat
  OBVIOUS
<1> QED
  BY <1>2, <1>3

LEMMA Quotient ==
  ASSUME NEW b \in Nat \ {0}, NEW q \in Nat, NEW r \in 0 .. b - 1, NEW n, n = b * q + r
  PROVE  n \div b = q /\ n % b = r
  OBVIOUS

LEMMA DivMod ==
  ASSUME NEW n \in Nat, NEW b \in Nat \ {0}
  PROVE  /\ n \div b \in Nat
         /\ n % b \in 0 .. b - 1
         /\ n = b * (n \div b) + (n % b)
<1> DEFINE S == {m \in Nat : \E q \in Nat, r \in 0 .. b - 1 : m = b * q + r}
<1>1. 0 \in S
  <2>1. 0 \in 0 .. b - 1 /\ 0 = b * 0 + 0
    OBVIOUS
  <2> QED
    BY <2>1
<1>2. ASSUME NEW m \in Nat, m \in S PROVE m + 1 \in S
  <2>1. PICK q \in Nat, r \in 0 .. b - 1 : m = b * q + r
    BY <1>2
  <2>2. CASE r + 1 < b
    <3>1. m + 1 = b * q + (r + 1) /\ r + 1 \in 0 .. b - 1
      <4>1. b * q \in Nat
        OBVIOUS
      <4> QED
        BY <2>1, <2>2, <4>1
    <3> QED
      BY <3>1
  <2>3. CASE r + 1 = b
    <3>1. m + 1 = b * (q + 1) + 0 /\ 0 \in 0 .. b - 1
      <4>1. b * (q + 1) = b * q + b /\ b * q \in Nat
        OBVIOUS
      <4> QED
        BY <2>1, <2>3, <4>1
    <3>2. q + 1 \in Nat
      OBVIOUS
    <3>3. \E u \in Nat, v \in 0 .. b - 1 : m + 1 = b * u + v
      BY <3>1, <3>2, Zenon
    <3> QED
      BY <3>3
  <2> QED
    BY <2>2, <2>3
<1>3. n \in S
  BY <1>1, <1>2, NatSetInduction
<1>4. PICK q \in Nat, r \in 0 .. b - 1 : n = b * q + r
  BY <1>3
<1>5. n \div b = q /\ n % b = r
  BY <1>4, Quotient
<1> QED
  BY <1>4, <1>5

LEMMA Positive ==
  ASSUME NEW a \in Nat \ {0}, NEW b \in Nat \ {0}
  PROVE  a * b \in Nat \ {0} /\ b * a = a * b
<1>1. a * 1 <= a * b /\ a * b \in Nat
  <2>1. b \in Nat /\ 1 \in Nat /\ 1 <= b /\ a \in Nat
    OBVIOUS
  <2> QED
    BY <2>1, TimesMonotone
<1> QED
  BY <1>1

\* Dividing twice: the quotient, and the remainder.
LEMMA DivTwice ==
  ASSUME NEW n \in Nat, NEW b \in Nat \ {0}, NEW p \in Nat \ {0}
  PROVE  n \div (b * p) = (n \div b) \div p
<1> DEFINE q == n \div b
           r == n % b
           d == q \div p
           m == q % p
           s == b * m + r
<1>1. q \in Nat /\ r \in 0 .. b - 1 /\ n = b * q + r
  BY DivMod
<1>2. d \in Nat /\ m \in 0 .. p - 1 /\ q = p * d + m
  BY <1>1, DivMod
<1>3. b * p \in Nat \ {0}
  BY Positive
<1> HIDE DEF q, r, d, m
<1>4. s \in 0 .. b * p - 1
  <2>1. b * (m + 1) <= b * p
    BY <1>2, TimesMonotone
  <2>2. b * (m + 1) = b * m + b /\ b * m \in Nat
    BY <1>2
  <2> QED
    BY <1>1, <1>3, <2>1, <2>2
<1>5. n = (b * p) * d + s
  <2>1. b * q = b * (p * d) + b * m
    BY <1>2
  <2>2. b * (p * d) = (b * p) * d
    BY <1>2
  <2>3. b * m \in Nat /\ (b * p) * d \in Nat
    BY <1>2
  <2> QED
    BY <1>1, <2>1, <2>2, <2>3
<1> HIDE DEF s
<1>6. n \div (b * p) = d /\ n % (b * p) = s
  BY <1>2, <1>3, <1>4, <1>5, Quotient
<1> QED
  BY <1>6 DEF q, r, d, m, s

LEMMA ModTwice ==
  ASSUME NEW n \in Nat, NEW b \in Nat \ {0}, NEW p \in Nat \ {0}
  PROVE  n % (b * p) = b * ((n \div b) % p) + (n % b)
<1> DEFINE q == n \div b
           r == n % b
           d == q \div p
           m == q % p
           s == b * m + r
<1>1. q \in Nat /\ r \in 0 .. b - 1 /\ n = b * q + r
  BY DivMod
<1>2. d \in Nat /\ m \in 0 .. p - 1 /\ q = p * d + m
  BY <1>1, DivMod
<1>3. b * p \in Nat \ {0}
  BY Positive
<1> HIDE DEF q, r, d, m
<1>4. s \in 0 .. b * p - 1
  <2>1. b * (m + 1) <= b * p
    BY <1>2, TimesMonotone
  <2>2. b * (m + 1) = b * m + b /\ b * m \in Nat
    BY <1>2
  <2> QED
    BY <1>1, <1>3, <2>1, <2>2
<1>5. n = (b * p) * d + s
  <2>1. b * q = b * (p * d) + b * m
    BY <1>2
  <2>2. b * (p * d) = (b * p) * d
    BY <1>2
  <2>3. b * m \in Nat /\ (b * p) * d \in Nat
    BY <1>2
  <2> QED
    BY <1>1, <2>1, <2>2, <2>3
<1> HIDE DEF s
<1>6. n \div (b * p) = d /\ n % (b * p) = s
  BY <1>2, <1>3, <1>4, <1>5, Quotient
<1> QED
  BY <1>6 DEF q, r, d, m, s

LEMMA RangeInduction ==
  ASSUME NEW S, NEW w \in Nat, 0 \in S, \A k \in 0 .. w - 1 : k \in S => k + 1 \in S
  PROVE  \A k \in 0 .. w : k \in S
<1> DEFINE T == {k \in Nat : k <= w => k \in S}
<1>1. 0 \in T
  OBVIOUS
<1>2. \A k \in Nat : k \in T => k + 1 \in T
  <2> SUFFICES ASSUME NEW k \in Nat, k \in T, k + 1 <= w PROVE k + 1 \in S
    OBVIOUS
  <2>1. k \in 0 .. w - 1 /\ k \in S
    OBVIOUS
  <2> QED
    BY <2>1
<1>3. Nat \subseteq T
  BY <1>1, <1>2, NatSetInduction
<1> QED
  BY <1>3

-----------------------------------------------------------------------------
(* Powers of two *)

Widest == 3 * ByteBits

LEMMA Powers ==
  /\ Widest \in Nat
  /\ \A a \in 0 .. Widest : 2 ^ a \in Nat \ {0}
<1>1. Widest \in Nat /\ 2 ^ 0 = 1
  BY WidthAssumption, PowerAssumption DEF Widest
<1> DEFINE S == {a \in 0 .. Widest : 2 ^ a \in Nat \ {0}}
<1>2. 0 \in S
  BY <1>1
<1>3. ASSUME NEW a \in 0 .. Widest - 1, a \in S PROVE a + 1 \in S
  <2>1. 2 ^ (a + 1) = 2 * 2 ^ a /\ a + 1 \in 0 .. Widest
    BY <1>1, PowerAssumption DEF Widest
  <2>2. 2 ^ a \in Nat \ {0}
    BY <1>3
  <2> QED
    BY <2>1, <2>2
<1>4. \A a \in 0 .. Widest : a \in S
  BY <1>1, <1>2, <1>3, RangeInduction
<1> QED
  BY <1>1, <1>4

LEMMA PowerSum ==
  ASSUME NEW a \in Nat, NEW b \in Nat, a + b <= Widest
  PROVE  /\ 2 ^ a \in Nat \ {0} /\ 2 ^ b \in Nat \ {0} /\ 2 ^ (a + b) \in Nat \ {0}
         /\ 2 ^ (a + b) = 2 ^ a * 2 ^ b
<1>1. a \in 0 .. Widest /\ b \in 0 .. Widest /\ a + b \in 0 .. Widest
  BY Powers
<1> DEFINE S == {k \in Nat : k <= b => 2 ^ (a + k) = 2 ^ a * 2 ^ k}
<1>2. 0 \in S
  <2>1. 2 ^ 0 = 1 /\ 2 ^ a \in Nat /\ a + 0 = a
    BY <1>1, Powers, PowerAssumption
  <2>2. 2 ^ a * 1 = 2 ^ a
    BY <2>1
  <2> QED
    BY <2>1, <2>2
<1>3. ASSUME NEW k \in Nat, k \in S PROVE k + 1 \in S
  <2> SUFFICES ASSUME k + 1 <= b PROVE 2 ^ (a + (k + 1)) = 2 ^ a * 2 ^ (k + 1)
    OBVIOUS
  <2>1. 2 ^ (a + k) = 2 ^ a * 2 ^ k
    BY <1>3
  <2>2. a + k \in 0 .. Widest - 1 /\ k \in 0 .. Widest - 1 /\ a + (k + 1) = (a + k) + 1
    BY <1>1, Powers
  <2>3. 2 ^ ((a + k) + 1) = 2 * 2 ^ (a + k)
    BY <2>2, PowerAssumption DEF Widest
  <2>4. 2 ^ (k + 1) = 2 * 2 ^ k
    BY <2>2, PowerAssumption DEF Widest
  <2>5. 2 ^ a \in Nat /\ 2 ^ k \in Nat
    BY <1>1, <2>2, Powers
  <2>6. \A x, y \in Nat : 2 * (x * y) = x * (2 * y)
    OBVIOUS
  <2> QED
    BY <2>1, <2>2, <2>3, <2>4, <2>5, <2>6
<1>4. b \in S
  BY <1>2, <1>3, NatSetInduction
<1> QED
  BY <1>1, <1>4, Powers

\* The widths in units of half a hexadecimal digit.
LEMMA Widths ==
  \E m \in Nat \ {0} : NibbleBits = 2 * m /\ DigitBits = 3 * m /\ ByteBits = 4 * m
<1>1. PICK m : m = NibbleBits \div 2
  OBVIOUS
<1>2. m \in Nat \ {0} /\ NibbleBits = 2 * m
  BY <1>1, WidthAssumption
<1> QED
  BY <1>2, WidthAssumption

LEMMA Units ==
  /\ Byte \in Nat \ {0} /\ Digit \in Nat \ {0} /\ Nibble \in Nat \ {0}
  /\ Byte = Nibble * Nibble
  /\ Byte * Byte = 2 ^ (ByteBits * 2) /\ Byte * Byte \in Nat \ {0}
  /\ Digit * Digit = 2 ^ (DigitBits * 2) /\ Digit * Digit \in Nat \ {0}
  /\ Digit * Digit * Digit = 2 ^ (DigitBits * 3) /\ Digit * Digit * Digit \in Nat \ {0}
  /\ Byte * Byte * Byte = Digit * Digit * Digit * Digit
  /\ Byte * Byte * Byte = 2 ^ Widest
<1>1. PICK m \in Nat \ {0} : NibbleBits = 2 * m /\ DigitBits = 3 * m /\ ByteBits = 4 * m
  BY Widths
<1>2. Widest = 12 * m
  BY <1>1 DEF Widest
<1>3. /\ 2 ^ (2 * m) \in Nat \ {0} /\ 2 ^ (3 * m) \in Nat \ {0} /\ 2 ^ (4 * m) \in Nat \ {0}
      /\ 2 ^ (4 * m) = 2 ^ (2 * m) * 2 ^ (2 * m)
  <2>1. 2 * m \in Nat /\ 3 * m \in 0 .. Widest /\ 2 * m + 2 * m = 4 * m /\ 4 * m <= Widest
    BY <1>2
  <2>2. 2 ^ (3 * m) \in Nat \ {0}
    BY <2>1, Powers
  <2>3. PICK k \in Nat : k = 2 * m
    BY <2>1
  <2>4. k + k <= Widest
    BY <2>1, <2>3
  <2>5. 2 ^ k \in Nat \ {0} /\ 2 ^ (k + k) \in Nat \ {0} /\ 2 ^ (k + k) = 2 ^ k * 2 ^ k
    BY <2>4, PowerSum
  <2> QED
    BY <2>1, <2>2, <2>3, <2>5
<1>4. /\ 2 ^ (8 * m) = 2 ^ (4 * m) * 2 ^ (4 * m) /\ 2 ^ (8 * m) \in Nat \ {0}
      /\ 2 ^ (12 * m) = 2 ^ (8 * m) * 2 ^ (4 * m)
  <2>1. PICK k \in Nat, l \in Nat : k = 4 * m /\ l = 8 * m
    OBVIOUS
  <2>2. k + k = l /\ l + k = 12 * m /\ k + k <= Widest /\ l + k <= Widest
    BY <1>2, <2>1
  <2>3. 2 ^ (k + k) = 2 ^ k * 2 ^ k /\ 2 ^ (k + k) \in Nat \ {0}
    BY <2>2, PowerSum
  <2>4. 2 ^ (l + k) = 2 ^ l * 2 ^ k
    BY <2>2, PowerSum
  <2> QED
    BY <2>1, <2>2, <2>3, <2>4
<1>5. /\ 2 ^ (6 * m) = 2 ^ (3 * m) * 2 ^ (3 * m) /\ 2 ^ (6 * m) \in Nat \ {0}
      /\ 2 ^ (9 * m) = 2 ^ (6 * m) * 2 ^ (3 * m) /\ 2 ^ (9 * m) \in Nat \ {0}
      /\ 2 ^ (12 * m) = 2 ^ (9 * m) * 2 ^ (3 * m)
  <2>1. PICK k \in Nat, l \in Nat, p \in Nat : k = 3 * m /\ l = 6 * m /\ p = 9 * m
    OBVIOUS
  <2>2. k + k = l /\ l + k = p /\ p + k = 12 * m
        /\ k + k <= Widest /\ l + k <= Widest /\ p + k <= Widest
    BY <1>2, <2>1
  <2>3. 2 ^ (k + k) = 2 ^ k * 2 ^ k /\ 2 ^ (k + k) \in Nat \ {0}
    BY <2>2, PowerSum
  <2>4. 2 ^ (l + k) = 2 ^ l * 2 ^ k /\ 2 ^ (l + k) \in Nat \ {0}
    BY <2>2, PowerSum
  <2>5. 2 ^ (p + k) = 2 ^ p * 2 ^ k
    BY <2>2, PowerSum
  <2> QED
    BY <2>1, <2>2, <2>3, <2>4, <2>5
<1>6. Nibble = 2 ^ (2 * m) /\ Digit = 2 ^ (3 * m) /\ Byte = 2 ^ (4 * m)
  BY <1>1 DEF Nibble, Digit, Byte
<1>7. ByteBits * 2 = 8 * m /\ DigitBits * 2 = 6 * m /\ DigitBits * 3 = 9 * m
  BY <1>1
<1> QED
  BY <1>2, <1>3, <1>4, <1>5, <1>6, <1>7

-----------------------------------------------------------------------------
(* Bits *)

\* Bit e of a number, the lowest being bit 0.
BitOf(x, e) == (x \div 2 ^ e) % 2

LEMMA BitOfQuotient ==
  ASSUME NEW x \in Nat, NEW a \in Nat, NEW e \in Nat, a + e <= Widest
  PROVE  x \div 2 ^ a \in Nat /\ BitOf(x \div 2 ^ a, e) = BitOf(x, a + e)
<1>1. PICK p \in Nat \ {0}, q \in Nat \ {0} : p = 2 ^ a /\ q = 2 ^ e
  BY PowerSum
<1>2. 2 ^ (a + e) = p * q
  BY <1>1, PowerSum
<1>3. (x \div p) \div q = x \div (p * q)
  BY DivTwice
<1>4. x \div p \in Nat
  BY DivMod
<1> QED
  BY <1>1, <1>2, <1>3, <1>4 DEF BitOf

LEMMA BitOfRemainder ==
  ASSUME NEW x \in Nat, NEW w \in Nat, w <= Widest, NEW e \in 0 .. w - 1
  PROVE  x % 2 ^ w \in 0 .. 2 ^ w - 1 /\ BitOf(x % 2 ^ w, e) = BitOf(x, e)
<1>1. e \in Nat /\ w - (e + 1) \in Nat /\ e + (w - e) = w /\ w - e = (w - (e + 1)) + 1
  OBVIOUS
<1>2. PICK p \in Nat \ {0}, h \in Nat \ {0} : p = 2 ^ e /\ h = 2 ^ (w - (e + 1))
  <2>1. e + (w - e) <= Widest /\ w - e \in Nat
    BY <1>1
  <2>2. 2 ^ e \in Nat \ {0}
    BY <1>1, <2>1, PowerSum
  <2>3. w - (e + 1) \in 0 .. Widest
    BY <1>1, Powers
  <2> QED
    BY <2>2, <2>3, Powers
<1>3. 2 ^ w = p * (2 * h)
  <2>1. 2 ^ (w - e) = 2 * h
    <3>1. w - (e + 1) \in 0 .. Widest - 1
      BY <1>1, Powers
    <3> QED
      BY <1>1, <1>2, <3>1, PowerAssumption DEF Widest
  <2>2. PICK f \in Nat : f = w - e
    BY <1>1
  <2>3. 2 ^ (e + f) = 2 ^ e * 2 ^ f
    BY <1>1, <2>2, PowerSum
  <2> QED
    BY <1>1, <1>2, <2>1, <2>2, <2>3
<1>4. 2 * h \in Nat \ {0}
  OBVIOUS
<1>5. PICK n \in Nat \ {0} : n = 2 * h
  BY <1>4
<1>6. p * n \in Nat \ {0} /\ x % (p * n) = p * ((x \div p) % n) + (x % p)
  BY Positive, ModTwice
<1>7. PICK q \in Nat : q = x \div p
  BY DivMod
<1>8. q % n \in 0 .. n - 1 /\ x % p \in 0 .. p - 1
  BY DivMod
<1>9. (x % (p * n)) \div p = q % n
  <2>1. PICK u \in Nat, r \in 0 .. p - 1 : u = q % n /\ r = x % p
    BY <1>8
  <2>2. x % (p * n) = p * u + r
    BY <1>6, <1>7, <2>1
  <2>3. PICK m \in Nat : m = p * u + r
    <3>1. p * u \in Nat
      OBVIOUS
    <3> QED
      BY <3>1
  <2>4. m \div p = u
    BY <2>3, Quotient
  <2> QED
    BY <2>1, <2>2, <2>3, <2>4
<1>10. (q % n) % 2 = q % 2
  <2>1. n % 2 = 0
    BY <1>5
  <2>2. q % (2 * h) = 2 * ((q \div 2) % h) + (q % 2)
    <3>1. 2 \in Nat \ {0}
      OBVIOUS
    <3> QED
      BY <3>1, ModTwice
  <2>3. PICK u \in Nat : u = (q \div 2) % h
    <3>1. PICK y \in Nat : y = q \div 2
      OBVIOUS
    <3>2. y % h \in 0 .. h - 1
      BY DivMod
    <3> QED
      BY <3>1, <3>2
  <2>4. q % 2 \in 0 .. 1
    OBVIOUS
  <2>5. q % n = 2 * u + (q % 2)
    BY <1>5, <2>2, <2>3
  <2>6. (2 * u + (q % 2)) % 2 = q % 2
    BY <2>4
  <2> QED
    BY <2>5, <2>6
<1>11. x % 2 ^ w \in 0 .. 2 ^ w - 1
  BY <1>3, <1>5, <1>6, DivMod
<1> QED
  BY <1>2, <1>3, <1>5, <1>7, <1>9, <1>10, <1>11 DEF BitOf

\* The first L numbers of a sequence hold w bits each, n of them those of one
\* of the numbers vals, the highest first.
Holds(seq, L, w, n, vals) ==
  \A k \in 0 .. L - 1 :
    /\ vals[k \div n] \in Nat
    /\ seq[k + 1] = (vals[k \div n] \div 2 ^ (w * ((n - 1) - (k % n)))) % 2 ^ w

\* The same with the quotient and the remainder named.
LEMMA Divided ==
  ASSUME NEW n \in Nat, NEW b \in Nat \ {0}
  PROVE  \E q \in Nat, r \in 0 .. b - 1 : q = n \div b /\ r = (n % b) /\ n = b * q + r
<1>1. n \div b \in Nat /\ (n % b) \in 0 .. b - 1 /\ n = b * (n \div b) + (n % b)
  BY DivMod
<1> WITNESS n \div b \in Nat, n % b \in 0 .. b - 1
<1> QED
  BY <1>1

LEMMA GroupBits ==
  ASSUME NEW w \in Nat \ {0}, NEW n \in Nat \ {0}, w * n <= Widest, NEW L \in Nat,
         NEW vals, NEW seq, Holds(seq, L, w, n, vals),
         NEW p \in Nat, p \div w < L
  PROVE  /\ p \div (w * n) \in Nat
         /\ BitAt(seq, w, p) = BitOf(vals[p \div (w * n)], (w * n - 1) - (p % (w * n)))
<1>1. PICK k \in Nat, s \in 0 .. w - 1 : k = p \div w /\ s = (p % w) /\ p = w * k + s
  BY Divided
<1>2. PICK q \in Nat, c \in 0 .. n - 1 : q = k \div n /\ c = (k % n) /\ k = n * q + c
  BY Divided
<1>3. p \div (w * n) = q /\ p % (w * n) = w * c + s
  <2>1. p \div (w * n) = (p \div w) \div n
    BY DivTwice
  <2>2. p % (w * n) = w * ((p \div w) % n) + (p % w)
    BY ModTwice
  <2> QED
    BY <1>1, <1>2, <2>1, <2>2
<1>4. k \in 0 .. L - 1
  BY <1>1
<1>5. PICK v \in Nat : v = vals[q]
  BY <1>2, <1>4 DEF Holds
<1>6. PICK d \in Nat : d = (n - 1) - c
  BY <1>2
<1>7. seq[k + 1] = (v \div 2 ^ (w * d)) % 2 ^ w
  BY <1>2, <1>4, <1>5, <1>6 DEF Holds
<1>8. w * n = w * d + w * c + w /\ w * d \in Nat /\ w * c \in Nat
  BY <1>6
<1>9. w * d + w <= Widest /\ w <= Widest
  <2>1. PICK x \in Nat, y \in Nat : x = w * d /\ y = w * c
    BY <1>8
  <2>2. x + y + w <= Widest
    BY <1>8, <2>1
  <2>3. x + w <= Widest /\ w <= Widest
    BY <2>2, Powers
  <2> QED
    BY <2>1, <2>3
<1>10. PICK e \in 0 .. w - 1 : e = w - 1 - s
  BY <1>1
<1>11. v \div 2 ^ (w * d) \in Nat /\ BitOf(v \div 2 ^ (w * d), e) = BitOf(v, w * d + e)
  <2>1. PICK a \in Nat : a = w * d
    BY <1>8
  <2>2. a + e <= Widest /\ e \in Nat
    <3>1. a + w <= Widest
      BY <1>9, <2>1
    <3> QED
      BY <3>1, Powers
  <2> QED
    BY <2>1, <2>2, BitOfQuotient
<1>12. BitOf(seq[k + 1], e) = BitOf(v, w * d + e)
  <2>1. PICK u \in Nat : u = v \div 2 ^ (w * d)
    BY <1>11
  <2>2. BitOf(u % 2 ^ w, e) = BitOf(u, e)
    BY <1>9, BitOfRemainder
  <2> QED
    BY <1>7, <1>11, <2>1, <2>2
<1>13. BitAt(seq, w, p) = BitOf(seq[k + 1], e)
  BY <1>1, <1>10 DEF BitAt, BitOf
<1>14. w * d + e = (w * n - 1) - (p % (w * n))
  BY <1>3, <1>8, <1>10
<1> QED
  BY <1>3, <1>5, <1>12, <1>13, <1>14

\* A group of as many bits in numbers of another width has the same bits.
LEMMA SameBits ==
  ASSUME NEW w \in Nat \ {0}, NEW n \in Nat \ {0}, NEW v \in Nat \ {0}, NEW m \in Nat \ {0},
         w * n = v * m, w * n <= Widest, NEW L \in Nat, NEW M \in Nat,
         NEW vals, NEW seq, NEW groups,
         Holds(seq, L, w, n, vals), Holds(groups, M, v, m, vals), M * v <= L * w
  PROVE  \A p \in 0 .. M * v - 1 : BitAt(groups, v, p) = BitAt(seq, w, p)
<1> TAKE p \in 0 .. M * v - 1
<1>1. p \in Nat /\ M * v \in Nat /\ L * w \in Nat
  OBVIOUS
<1>2. \A x \in Nat, b \in Nat \ {0}, N \in Nat : x < N * b => x \div b < N
  <2> SUFFICES ASSUME NEW x \in Nat, NEW b \in Nat \ {0}, NEW N \in Nat, x < N * b, N <= x \div b
               PROVE  FALSE
    <3>1. \A x \in Nat, b \in Nat \ {0} : x \div b \in Nat
      BY DivMod
    <3> QED
      BY <3>1
  <2>1. PICK q \in Nat, r \in 0 .. b - 1 : q = x \div b /\ x = b * q + r
    <3>1. x \div b \in Nat /\ x % b \in 0 .. b - 1 /\ x = b * (x \div b) + (x % b)
      BY DivMod
    <3> QED
      BY <3>1
  <2>2. b * N <= b * q /\ b * N \in Nat /\ b * q \in Nat
    BY <2>1, TimesMonotone
  <2>3. b * N = N * b
    OBVIOUS
  <2> QED
    BY <2>1, <2>2, <2>3
<1>3. p \div v < M
  <2>1. p < M * v
    BY <1>1
  <2> QED
    BY <1>1, <1>2, <2>1
<1>4. p \div w < L
  <2>1. p < L * w
    BY <1>1
  <2> QED
    BY <1>1, <1>2, <2>1
<1>5. BitAt(seq, w, p) = BitOf(vals[p \div (w * n)], (w * n - 1) - (p % (w * n)))
  BY <1>1, <1>4, GroupBits
<1>6. BitAt(groups, v, p) = BitOf(vals[p \div (v * m)], (v * m - 1) - (p % (v * m)))
  <2>1. v * m <= Widest
    OBVIOUS
  <2> QED
    BY <1>1, <1>3, <2>1, GroupBits
<1> QED
  BY <1>5, <1>6

-----------------------------------------------------------------------------
(* What the loops have done *)

\* What base64_encode and base64_decode compute of group g: val, where a byte
\* beyond the end of the data and '=' count as 0.
ByteAt(data, k) == IF k < Len(data) THEN data[k + 1] ELSE 0

TripleOf(data, g) ==
  (ByteAt(data, 3*g) * Byte + ByteAt(data, 3*g + 1)) * Byte + ByteAt(data, 3*g + 2)

DigitAt(text, k) == IF text[k + 1] = Pad THEN 0 ELSE text[k + 1]

QuadOf(text, g) ==
  ((DigitAt(text, 4*g) * Digit + DigitAt(text, 4*g + 1)) * Digit + DigitAt(text, 4*g + 2)) * Digit
    + DigitAt(text, 4*g + 3)

\* Character c of group g of the text of some data.
EncodedChar(data, g, c) ==
  IF c < 2 \/ 3*g + c - 1 < Len(data)
  THEN (TripleOf(data, g) \div 2 ^ (DigitBits * (3 - c))) % Digit
  ELSE Pad

\* Byte k of what a text stands for.
DecodedByte(text, k) == (QuadOf(text, k \div 3) \div 2 ^ (ByteBits * (2 - (k % 3)))) % Byte

GoodGroupOf(text, g) ==
  /\ IsDigit(text[4*g + 1]) /\ IsDigit(text[4*g + 2])
  /\ \A k \in 3 .. 4 : text[4*g + k] = Pad \/ IsDigit(text[4*g + k])

\* The first n groups of an argument stand encoded or decoded in a buffer.
HexDone(text, data, n) ==
  \A g \in 1 .. n : text[2*g - 1] = (data[g] \div Nibble) % Nibble /\ text[2*g] = data[g] % Nibble

BytesDone(bytes, text, n) ==
  \A g \in 1 .. n : /\ IsNibble(text[2*g - 1]) /\ IsNibble(text[2*g])
                    /\ bytes[g] = HexByte(text[2*g - 1], text[2*g])

Base64Done(text, data, n) ==
  \A g \in 0 .. n - 1 : \A c \in 0 .. 3 : text[4*g + c + 1] = EncodedChar(data, g, c)

DecodedDone(bytes, text, n) == \A k \in 0 .. n - 1 : bytes[k + 1] = DecodedByte(text, k)

LoopInv ==
  /\ fn = "hex_to_bytes" => BytesDone(out, in, i)
  /\ fn = "bytes_to_hex" => HexDone(out, in, i)
  /\ fn = "base64_encode" => Base64Done(out, in, i)
  /\ fn = "base64_decode" =>
       /\ \A g \in 0 .. i - 1 : GoodGroupOf(in, g)
       /\ IsBase64Text(in) => /\ j = IF 3 * i <= outLen THEN 3 * i ELSE outLen
                              /\ DecodedDone(out, in, j)

IsHexOf(text, data) == Len(text) = 2 * Len(data) /\ HexDone(text, data, Len(data))

IsBase64By(text, data) ==
  /\ Len(text) = 4 * ((Len(data) + 2) \div 3)
  /\ Base64Done(text, data, (Len(data) + 2) \div 3)

IsBytesOf(bytes, text) ==
  /\ bytes \in Seq(Bytes)
  /\ Len(bytes) = DecodedLen(text)
  /\ DecodedDone(bytes, text, Len(bytes))

\* What an encoder left is the text of its data.
CodedInv ==
  coded # Nothing =>
    CASE coded.fn = "bytes_to_hex"  -> IsHexOf(coded.text, coded.data)
      [] coded.fn = "base64_encode" -> IsBase64By(coded.text, coded.data)

\* What is decoded after something was encoded is that text.
SourceInv ==
  /\ ret # Nothing => fn = "idle"
  /\ fn \in {"bytes_to_hex", "base64_encode"} => coded = Nothing
  /\ coded # Nothing =>
       /\ fn = "hex_to_bytes"  => coded.fn = "bytes_to_hex" /\ in = coded.text
       /\ fn = "base64_decode" => coded.fn = "base64_encode" /\ in = coded.text
       /\ ret # Nothing /\ ret.fn = "hex_to_bytes" =>
            coded.fn = "bytes_to_hex" /\ ret.arg = coded.text
       /\ ret # Nothing /\ ret.fn = "base64_decode" =>
            coded.fn = "base64_encode" /\ ret.arg = coded.text

\* How each function answers.
RetInv ==
  ret # Nothing =>
    /\ ret.fn \in Functions /\ ret.arg \in Seq(InChars[ret.fn])
    /\ ret.fn = "bytes_to_hex" => ret.value \in Seq(HexChars) /\ IsHexOf(ret.value, ret.arg)
    /\ ret.fn = "hex_to_bytes" =>
         \/ ret.value = Failure /\ ~IsHexText(ret.arg)
         \/ /\ Len(ret.arg) % 2 = 0 /\ ret.value \in Seq(Bytes)
            /\ Len(ret.value) = Len(ret.arg) \div 2
            /\ BytesDone(ret.value, ret.arg, Len(ret.arg) \div 2)
    /\ ret.fn = "base64_encode" => ret.value \in Seq(Base64Chars) /\ IsBase64By(ret.value, ret.arg)
    /\ ret.fn = "base64_decode" =>
         \/ /\ ret.value = Failure
            /\ Len(ret.arg) % 4 # 0
               \/ \E g \in Nat : 4 * g < Len(ret.arg) /\ ~GoodGroupOf(ret.arg, g)
         \/ /\ Len(ret.arg) % 4 = 0
            /\ \A g \in 0 .. (Len(ret.arg) \div 4) - 1 : GoodGroupOf(ret.arg, g)
            /\ IsBase64Text(ret.arg) => IsBytesOf(ret.value, ret.arg)

-----------------------------------------------------------------------------
(* A group as one number, and its parts *)

\* Numbers below b make up a number from which they can be taken again.
LEMMA TwoParts ==
  ASSUME NEW b \in Nat \ {0}, NEW x \in Nat, NEW y \in 0 .. b - 1
  PROVE  /\ x * b + y \in Nat
         /\ (x * b + y) \div b = x /\ (x * b + y) % b = y
         /\ \A c \in Nat : x < c => x * b + y < c * b
<1>1. PICK v \in Nat : v = x * b + y /\ v = b * x + y
  <2>1. x * b \in Nat /\ x * b = b * x
    OBVIOUS
  <2> QED
    BY <2>1
<1>2. v \div b = x /\ v % b = y
  BY <1>1, Quotient
<1>3. ASSUME NEW c \in Nat, x < c
      PROVE  x * b + y < c * b
  <2>1. b * (x + 1) <= b * c /\ b * (x + 1) \in Nat
    <3>1. PICK z \in Nat : z = x + 1
      OBVIOUS
    <3>2. z <= c
      BY <1>3, <3>1
    <3> QED
      BY <3>1, <3>2, TimesMonotone
  <2>2. b * (x + 1) = b * x + b /\ b * c = c * b /\ b * x \in Nat /\ b * c \in Nat
    OBVIOUS
  <2>3. b * x + y < b * x + b
    BY <2>2
  <2> QED
    BY <1>1, <2>1, <2>2, <2>3
<1> QED
  BY <1>1, <1>2, <1>3

\* Three and four digits as one number.
Three(b, x, y, z) == (x * b + y) * b + z
Four(b, x, y, z, t) == ((x * b + y) * b + z) * b + t

LEMMA PartsOfThree ==
  ASSUME NEW b \in Nat \ {0}, NEW x \in 0 .. b - 1, NEW y \in 0 .. b - 1, NEW z \in 0 .. b - 1,
         NEW v, v = Three(b, x, y, z)
  PROVE  /\ v \in 0 .. b * b * b - 1
         /\ v \div 1 = v
         /\ v \div b = x * b + y /\ v \div (b * b) = x
         /\ (v \div 1) % b = z /\ (v \div b) % b = y /\ (v \div (b * b)) % b = x
<1>1. PICK u \in Nat : u = x * b + y /\ u \div b = x /\ u % b = y /\ u < b * b
  BY TwoParts
<1>2. v = u * b + z /\ b * b \in Nat
  BY <1>1 DEF Three
<1>3. v \in Nat /\ v \div b = u /\ v % b = z /\ v < (b * b) * b
  BY <1>1, <1>2, TwoParts
<1>4. v \div (b * b) = x
  <2>1. v \div (b * b) = (v \div b) \div b
    BY <1>3, DivTwice
  <2> QED
    BY <1>1, <1>3, <2>1
<1>5. v \div 1 = v /\ x % b = x
  BY <1>3
<1>6. b * b * b \in Nat
  OBVIOUS
<1> QED
  BY <1>1, <1>3, <1>4, <1>5, <1>6

LEMMA PartsOfFour ==
  ASSUME NEW b \in Nat \ {0}, NEW x \in 0 .. b - 1, NEW y \in 0 .. b - 1,
         NEW z \in 0 .. b - 1, NEW t \in 0 .. b - 1,
         NEW v, v = Four(b, x, y, z, t)
  PROVE  /\ v \in 0 .. b * b * b * b - 1
         /\ (v \div 1) % b = t /\ (v \div b) % b = z
         /\ (v \div (b * b)) % b = y /\ (v \div (b * b * b)) % b = x
<1>1. PICK u : u = Three(b, x, y, z)
  OBVIOUS
<1>2. /\ u \in 0 .. b * b * b - 1 /\ u \div 1 = u
      /\ u \div b = x * b + y /\ u \div (b * b) = x
      /\ (u \div 1) % b = z /\ (u \div b) % b = y /\ (u \div (b * b)) % b = x
  BY <1>1, PartsOfThree
<1>3. b * b \in Nat \ {0} /\ b * b * b \in Nat \ {0}
  BY Positive
<1>4. u \in Nat /\ u < b * b * b
  BY <1>2, <1>3
<1>5. v = u * b + t
  BY <1>1 DEF Three, Four
<1>6. v \in Nat /\ v \div b = u /\ v % b = t /\ v < (b * b * b) * b
  BY <1>3, <1>4, <1>5, TwoParts
<1>7. v \div (b * b) = u \div b
  <2>1. v \div (b * b) = (v \div b) \div b
    BY <1>6, DivTwice
  <2> QED
    BY <1>6, <2>1
<1>8. v \div (b * b * b) = u \div (b * b)
  <2>1. PICK p \in Nat \ {0} : p = b * b
    BY <1>3
  <2>2. v \div (b * p) = (v \div b) \div p
    BY <1>6, DivTwice
  <2>3. b * p = b * b * b
    BY <2>1
  <2> QED
    BY <1>6, <2>1, <2>2, <2>3
<1>9. v \div 1 = v /\ b * b * b * b \in Nat
  BY <1>3, <1>6
<1> QED
  BY <1>2, <1>4, <1>6, <1>7, <1>8, <1>9

\* The parts taken from a number make it up again.
LEMMA FourParts ==
  ASSUME NEW b \in Nat \ {0}, NEW v \in 0 .. b * b * b * b - 1
  PROVE  v = ((((v \div (b * b * b)) % b) * b + ((v \div (b * b)) % b)) * b
               + ((v \div b) % b)) * b + ((v \div 1) % b)
<1>1. PICK p \in Nat \ {0}, q \in Nat \ {0} : p = b * b /\ q = b * b * b
  BY Positive
<1>2. v \in Nat
  OBVIOUS
<1>3. PICK u \in Nat : u = v \div b /\ v = b * u + (v % b) /\ v % b \in Nat
  <2>1. v \div b \in Nat
    BY <1>2, DivMod
  <2>2. v % b \in 0 .. b - 1
    BY <1>2, DivMod
  <2>3. v = b * (v \div b) + (v % b)
    BY <1>2, DivMod
  <2>4. v % b \in Nat
    BY <2>2
  <2>5. PICK e \in Nat : e = v \div b
    BY <2>1
  <2> QED
    BY <2>3, <2>4, <2>5
<1>4. PICK s \in Nat : s = u \div b /\ u = b * s + (u % b) /\ u % b \in Nat
  <2>1. u \div b \in Nat
    BY DivMod
  <2>2. u % b \in 0 .. b - 1
    BY DivMod
  <2>3. u = b * (u \div b) + (u % b)
    BY DivMod
  <2>4. u % b \in Nat
    BY <2>2
  <2>5. PICK e \in Nat : e = u \div b
    BY <2>1
  <2> QED
    BY <2>3, <2>4, <2>5
<1>5. PICK r \in Nat : r = s \div b /\ s = b * r + (s % b) /\ s % b \in Nat
  <2>1. s \div b \in Nat
    BY DivMod
  <2>2. s % b \in 0 .. b - 1
    BY DivMod
  <2>3. s = b * (s \div b) + (s % b)
    BY DivMod
  <2>4. s % b \in Nat
    BY <2>2
  <2>5. PICK e \in Nat : e = s \div b
    BY <2>1
  <2> QED
    BY <2>3, <2>4, <2>5
<1>6. v \div (b * b) = s
  BY <1>2, <1>3, <1>4, DivTwice
<1>7. v \div (b * b * b) = r
  <2>1. v \div (p * b) = (v \div p) \div b
    BY <1>2, DivTwice
  <2>2. p * b = b * b * b
    BY <1>1
  <2> QED
    BY <1>1, <1>5, <1>6, <2>1, <2>2
<1>8. r % b = r
  <2>1. r < b
    <3> SUFFICES ASSUME b <= r PROVE FALSE
      OBVIOUS
    <3>1. b * b <= b * r
      BY TimesMonotone
    <3>2. b * b <= s
      <4>1. b * b \in Nat /\ b * r \in Nat
        OBVIOUS
      <4> QED
        BY <1>5, <3>1, <4>1
    <3>3. b * p <= b * s
      BY <1>1, <3>2, TimesMonotone
    <3>4. b * p <= u
      <4>1. b * p \in Nat /\ b * s \in Nat
        OBVIOUS
      <4> QED
        BY <1>4, <3>3, <4>1
    <3>5. q = b * p
      BY <1>1
    <3>6. b * q <= b * u
      BY <1>1, <3>4, <3>5, TimesMonotone
    <3>7. b * q <= v
      <4>1. b * q \in Nat /\ b * u \in Nat
        OBVIOUS
      <4> QED
        BY <1>3, <3>6, <4>1
    <3>8. b * q = b * b * b * b /\ b * q \in Nat
      BY <1>1
    <3>9. v < b * b * b * b
      BY <3>8
    <3> QED
      BY <1>2, <3>7, <3>8, <3>9
  <2> QED
    BY <2>1
<1>9. v \div 1 = v
  BY <1>2
<1>10. /\ r * b + (s % b) = s /\ s * b + (u % b) = u /\ u * b + (v % b) = v
  BY <1>3, <1>4, <1>5
<1> QED
  BY <1>3, <1>4, <1>5, <1>6, <1>7, <1>8, <1>9, <1>10

\* The units of the digits of a group.
LEMMA GroupUnits ==
  /\ 2 ^ (NibbleBits * (1 - 0)) = Nibble /\ 2 ^ (NibbleBits * (1 - 1)) = 1
  /\ 2 ^ (ByteBits * (0 - 0)) = 1
  /\ 2 ^ (ByteBits * (2 - 0)) = Byte * Byte /\ 2 ^ (ByteBits * (2 - 1)) = Byte
  /\ 2 ^ (ByteBits * (2 - 2)) = 1
  /\ 2 ^ (DigitBits * (3 - 0)) = Digit * Digit * Digit
  /\ 2 ^ (DigitBits * (3 - 1)) = Digit * Digit /\ 2 ^ (DigitBits * (3 - 2)) = Digit
  /\ 2 ^ (DigitBits * (3 - 3)) = 1
<1>1. ByteBits \in Nat /\ DigitBits \in Nat /\ NibbleBits \in Nat /\ 2 ^ 0 = 1
  BY WidthAssumption, PowerAssumption
<1>2. /\ NibbleBits * (1 - 0) = NibbleBits /\ NibbleBits * (1 - 1) = 0
      /\ ByteBits * (0 - 0) = 0 /\ ByteBits * (2 - 0) = ByteBits * 2
      /\ ByteBits * (2 - 1) = ByteBits /\ ByteBits * (2 - 2) = 0
      /\ DigitBits * (3 - 0) = DigitBits * 3 /\ DigitBits * (3 - 1) = DigitBits * 2
      /\ DigitBits * (3 - 2) = DigitBits /\ DigitBits * (3 - 3) = 0
  BY <1>1
<1> QED
  BY <1>1, <1>2, Units DEF Nibble, Byte, Digit

LEMMA TripleParts ==
  ASSUME NEW data \in Seq(Bytes), NEW g \in Nat
  PROVE  /\ TripleOf(data, g) \in 0 .. Byte * Byte * Byte - 1
         /\ \A c \in 0 .. 2 : /\ ByteAt(data, 3 * g + c) \in Bytes
              /\ (TripleOf(data, g) \div 2 ^ (ByteBits * (2 - c))) % 2 ^ ByteBits = ByteAt(data, 3 * g + c)
<1>1. Byte \in Nat \ {0} /\ 2 ^ ByteBits = Byte
  BY Units DEF Byte
<1>2. \A k \in Nat : ByteAt(data, k) \in Bytes
  BY <1>1 DEF ByteAt, Bytes
<1>3. 3*g \in Nat /\ 3*g + 1 \in Nat /\ 3*g + 2 \in Nat /\ 3*g + 0 = 3*g
  OBVIOUS
<1>4. PICK x \in 0 .. Byte - 1, y \in 0 .. Byte - 1, z \in 0 .. Byte - 1 :
        x = ByteAt(data, 3*g) /\ y = ByteAt(data, 3*g + 1) /\ z = ByteAt(data, 3*g + 2)
  BY <1>2, <1>3 DEF Bytes
<1>5. PICK v : v = Three(Byte, x, y, z)
  OBVIOUS
<1>6. TripleOf(data, g) = v
  BY <1>4, <1>5 DEF TripleOf, Three
<1>7. PICK b \in Nat \ {0} : b = Byte
  BY <1>1
<1>8. v = Three(b, x, y, z) /\ x \in 0 .. b - 1 /\ y \in 0 .. b - 1 /\ z \in 0 .. b - 1
  BY <1>5, <1>7
<1>9. v \in 0 .. b * b * b - 1
  BY <1>8, PartsOfThree
<1>10. (v \div 1) % b = z
  BY <1>8, PartsOfThree
<1>11. (v \div b) % b = y
  BY <1>8, PartsOfThree
<1>12. (v \div (b * b)) % b = x
  BY <1>8, PartsOfThree
<1>13. ASSUME NEW c \in 0 .. 2
       PROVE  (v \div 2 ^ (ByteBits * (2 - c))) % Byte = ByteAt(data, 3 * g + c)
  <2>1. c = 0 \/ c = 1 \/ c = 2
    OBVIOUS
  <2>2. CASE c = 0
    BY <1>3, <1>4, <1>7, <1>12, <2>2, GroupUnits
  <2>3. CASE c = 1
    BY <1>4, <1>7, <1>11, <2>3, GroupUnits
  <2>4. CASE c = 2
    BY <1>4, <1>7, <1>10, <2>4, GroupUnits
  <2> QED
    BY <2>1, <2>2, <2>3, <2>4
<1>14. \A c \in 0 .. 2 : ByteAt(data, 3 * g + c) \in Bytes
  BY <1>2
<1> QED
  BY <1>1, <1>6, <1>7, <1>9, <1>13, <1>14

LEMMA QuadParts ==
  ASSUME NEW text, NEW g \in Nat, \A c \in 0 .. 3 : DigitAt(text, 4 * g + c) \in 0 .. Digit - 1
  PROVE  /\ QuadOf(text, g) \in Nat
         /\ \A c \in 0 .. 3 :
              (QuadOf(text, g) \div 2 ^ (DigitBits * (3 - c))) % 2 ^ DigitBits = DigitAt(text, 4 * g + c)
<1>1. Digit \in Nat \ {0} /\ 2 ^ DigitBits = Digit
  BY Units DEF Digit
<1>2. 4*g + 0 = 4*g
  OBVIOUS
<1>3. 0 \in 0 .. 3 /\ 1 \in 0 .. 3 /\ 2 \in 0 .. 3 /\ 3 \in 0 .. 3
  OBVIOUS
<1>4. /\ DigitAt(text, 4*g) \in 0 .. Digit - 1 /\ DigitAt(text, 4*g + 1) \in 0 .. Digit - 1
      /\ DigitAt(text, 4*g + 2) \in 0 .. Digit - 1 /\ DigitAt(text, 4*g + 3) \in 0 .. Digit - 1
  BY <1>2, <1>3
<1>5. PICK x \in 0 .. Digit - 1, y \in 0 .. Digit - 1, z \in 0 .. Digit - 1, t \in 0 .. Digit - 1 :
        /\ x = DigitAt(text, 4*g) /\ y = DigitAt(text, 4*g + 1)
        /\ z = DigitAt(text, 4*g + 2) /\ t = DigitAt(text, 4*g + 3)
  BY <1>4
<1>6. PICK v : v = Four(Digit, x, y, z, t)
  OBVIOUS
<1>7. QuadOf(text, g) = v
  BY <1>5, <1>6 DEF QuadOf, Four
<1>8. PICK b \in Nat \ {0} : b = Digit
  BY <1>1
<1>9. /\ v = Four(b, x, y, z, t)
      /\ x \in 0 .. b - 1 /\ y \in 0 .. b - 1 /\ z \in 0 .. b - 1 /\ t \in 0 .. b - 1
  BY <1>6, <1>8
<1>10. v \in 0 .. b * b * b * b - 1
  BY <1>9, PartsOfFour
<1>11. (v \div 1) % b = t
  BY <1>9, PartsOfFour
<1>12. (v \div b) % b = z
  BY <1>9, PartsOfFour
<1>13. (v \div (b * b)) % b = y
  BY <1>9, PartsOfFour
<1>14. (v \div (b * b * b)) % b = x
  BY <1>9, PartsOfFour
<1>15. v \in Nat
  BY <1>10
<1>16. ASSUME NEW c \in 0 .. 3
       PROVE  (v \div 2 ^ (DigitBits * (3 - c))) % Digit = DigitAt(text, 4 * g + c)
  <2>1. c = 0 \/ c = 1 \/ c = 2 \/ c = 3
    OBVIOUS
  <2>2. CASE c = 0
    BY <1>2, <1>5, <1>8, <1>14, <2>2, GroupUnits
  <2>3. CASE c = 1
    BY <1>5, <1>8, <1>13, <2>3, GroupUnits
  <2>4. CASE c = 2
    BY <1>5, <1>8, <1>12, <2>4, GroupUnits
  <2>5. CASE c = 3
    BY <1>5, <1>8, <1>11, <2>5, GroupUnits
  <2> QED
    BY <2>1, <2>2, <2>3, <2>4, <2>5
<1> QED
  BY <1>1, <1>7, <1>15, <1>16

-----------------------------------------------------------------------------
(* Hexadecimal *)

LEMMA SmallMod ==
  ASSUME NEW n \in Nat, NEW b \in Nat, n < b
  PROVE  n % b = n
  OBVIOUS

LEMMA HexByteParts ==
  ASSUME NEW hi \in 0 .. Nibble - 1, NEW lo \in 0 .. Nibble - 1
  PROVE  /\ HexByte(hi, lo) \in Bytes
         /\ (HexByte(hi, lo) \div Nibble) % Nibble = hi
         /\ HexByte(hi, lo) % Nibble = lo
<1>1. PICK n \in Nat \ {0} : n = Nibble /\ Byte = n * n
  BY Units
<1>2. hi \in Nat /\ hi < n /\ lo \in 0 .. n - 1 /\ n \in Nat
  BY <1>1
<1>3. PICK x \in Nat : x = hi * n + lo /\ x \div n = hi /\ x % n = lo /\ x < n * n
  BY <1>2, TwoParts
<1>4. PICK b \in Nat : b = n * n
  BY <1>2
<1>5. x % b = x /\ hi % n = hi /\ x \in 0 .. b - 1
  BY <1>2, <1>3, <1>4
<1>6. HexByte(hi, lo) = x
  BY <1>1, <1>3, <1>4, <1>5 DEF HexByte
<1> QED
  BY <1>1, <1>3, <1>4, <1>5, <1>6 DEF Bytes

LEMMA HexByteOfParts ==
  ASSUME NEW x \in Bytes
  PROVE  /\ (x \div Nibble) % Nibble \in 0 .. Nibble - 1 /\ x % Nibble \in 0 .. Nibble - 1
         /\ HexByte((x \div Nibble) % Nibble, x % Nibble) = x
<1>1. PICK n \in Nat \ {0} : n = Nibble /\ Byte = n * n
  BY Units
<1>2. x \in Nat /\ x < n * n
  <2>1. PICK b \in Nat : b = n * n
    OBVIOUS
  <2>2. x \in 0 .. b - 1
    BY <1>1, <2>1 DEF Bytes
  <2> QED
    BY <2>1, <2>2
<1>3. PICK q \in Nat : q = x \div n
  BY <1>2, DivMod
<1>4. x % n \in 0 .. n - 1
  BY <1>2, DivMod
<1>5. x = n * q + (x % n)
  BY <1>2, <1>3, DivMod
<1>6. q < n
  <2> SUFFICES ASSUME n <= q PROVE FALSE
    OBVIOUS
  <2>1. n * n <= n * q
    BY TimesMonotone
  <2> QED
    BY <1>2, <1>4, <1>5, <2>1
<1>7. q % n = q /\ q \in 0 .. n - 1
  BY <1>6
<1>8. q * n + (x % n) = x
  BY <1>4, <1>5
<1>9. x % Byte = x
  <2>1. PICK b \in Nat : b = n * n
    OBVIOUS
  <2> QED
    BY <1>1, <1>2, <2>1
<1> QED
  BY <1>1, <1>3, <1>4, <1>7, <1>8, <1>9 DEF HexByte

LEMMA HexHolds ==
  ASSUME NEW bytes \in Seq(Bytes), NEW text, HexDone(text, bytes, Len(bytes)), NEW vals,
         \A q \in 0 .. Len(bytes) - 1 : vals[q] = bytes[q + 1]
  PROVE  /\ Holds(bytes, Len(bytes), ByteBits, 1, vals)
         /\ Holds(text, 2 * Len(bytes), NibbleBits, 2, vals)
<1>1. Byte \in Nat \ {0} /\ Nibble \in Nat \ {0} /\ 2 ^ ByteBits = Byte /\ 2 ^ NibbleBits = Nibble
  BY Units DEF Byte, Nibble
<1>2. PICK L \in Nat : L = Len(bytes)
  OBVIOUS
<1>3. \A q \in 0 .. L - 1 : vals[q] \in 0 .. Byte - 1
  <2>1. \A q \in 0 .. L - 1 : q + 1 \in 1 .. Len(bytes) /\ vals[q] = bytes[q + 1]
    BY <1>2
  <2>2. \A k \in 1 .. Len(bytes) : bytes[k] \in Bytes
    OBVIOUS
  <2> QED
    BY <2>1, <2>2 DEF Bytes
<1>4. Holds(bytes, L, ByteBits, 1, vals)
  <2> SUFFICES ASSUME NEW k \in 0 .. L - 1
               PROVE  /\ vals[k \div 1] \in Nat
                      /\ bytes[k + 1] = (vals[k \div 1] \div 2 ^ (ByteBits * ((1 - 1) - (k % 1)))) % 2 ^ ByteBits
    BY DEF Holds
  <2>1. k \div 1 = k /\ k % 1 = 0 /\ 1 - 1 = 0
    OBVIOUS
  <2>2. PICK x \in 0 .. Byte - 1 : x = vals[k]
    BY <1>3
  <2>3. (x \div 1) % Byte = x /\ x \in Nat
    <3>1. PICK b \in Nat \ {0} : b = Byte
      BY <1>1
    <3>2. x \in Nat /\ x < b
      BY <3>1
    <3>3. x \div 1 = x
      BY <3>2
    <3>4. x % b = x
      BY <3>2, SmallMod
    <3> QED
      BY <3>1, <3>2, <3>3, <3>4
  <2> QED
    BY <1>1, <1>2, <2>1, <2>2, <2>3, GroupUnits
<1>5. Holds(text, 2 * L, NibbleBits, 2, vals)
  <2> SUFFICES ASSUME NEW k \in 0 .. 2 * L - 1
               PROVE  /\ vals[k \div 2] \in Nat
                      /\ text[k + 1] = (vals[k \div 2] \div 2 ^ (NibbleBits * ((2 - 1) - (k % 2)))) % 2 ^ NibbleBits
    BY DEF Holds
  <2>1. PICK q \in 0 .. L - 1, c \in 0 .. 1 : k \div 2 = q /\ k % 2 = c /\ k = 2 * q + c
    <3>1. k \div 2 \in 0 .. L - 1 /\ k % 2 \in 0 .. 1 /\ k = 2 * (k \div 2) + (k % 2)
      OBVIOUS
    <3> QED
      BY <3>1
  <2>2. PICK x \in 0 .. Byte - 1 : x = vals[q] /\ x = bytes[q + 1]
    BY <1>2, <1>3
  <2>3. text[2 * (q + 1) - 1] = (x \div Nibble) % Nibble /\ text[2 * (q + 1)] = x % Nibble
    <3>1. q + 1 \in 1 .. L
      OBVIOUS
    <3> QED
      BY <1>2, <2>2, <3>1 DEF HexDone
  <2>4. x \div 1 = x /\ x \in Nat /\ 2 - 1 = 1
    BY <1>1
  <2>5. CASE c = 0
    <3>1. k + 1 = 2 * (q + 1) - 1
      BY <2>1, <2>5
    <3> QED
      BY <1>1, <2>1, <2>2, <2>3, <2>4, <2>5, <3>1, GroupUnits
  <2>6. CASE c = 1
    <3>1. k + 1 = 2 * (q + 1)
      BY <2>1, <2>6
    <3> QED
      BY <1>1, <2>1, <2>2, <2>3, <2>4, <2>6, <3>1, GroupUnits
  <2> QED
    BY <2>1, <2>5, <2>6
<1> QED
  BY <1>2, <1>4, <1>5

\* A text of hexadecimal digits and the bytes it stands for are the same bits.
LEMMA HexRegrouped ==
  ASSUME NEW bytes \in Seq(Bytes), NEW C, NEW text \in Seq(C), Len(text) = 2 * Len(bytes),
         HexDone(text, bytes, Len(bytes))
  PROVE  /\ Regrouped(bytes, ByteBits, text, NibbleBits)
         /\ Regrouped(text, NibbleBits, bytes, ByteBits)
<1> DEFINE vals == [q \in 0 .. Len(bytes) - 1 |-> bytes[q + 1]]
<1>1. PICK w \in Nat \ {0} : w = NibbleBits /\ ByteBits = 2 * w
  BY WidthAssumption
<1>2. PICK L \in Nat : L = Len(bytes) /\ Len(text) = 2 * L
  OBVIOUS
<1>3. PICK v \in Nat \ {0} : v = 2 * w
  BY <1>1
<1>4. Holds(bytes, L, v, 1, vals) /\ Holds(text, 2 * L, w, 2, vals)
  BY <1>1, <1>2, <1>3, HexHolds
<1> HIDE DEF vals
<1>5. v * 1 = w * 2 /\ w * 2 = v * 1 /\ v * 1 <= Widest /\ w * 2 <= Widest
  BY <1>1, <1>3 DEF Widest
<1>6. (2 * L) * w = L * v /\ (2 * L) * w <= L * v /\ L * v <= (2 * L) * w /\ L * v \in Nat
  <2>1. L * (2 * w) = (2 * L) * w
    OBVIOUS
  <2>2. L * v \in Nat
    OBVIOUS
  <2> QED
    BY <1>3, <2>1, <2>2
<1>7. PICK M \in Nat : M = 2 * L
  OBVIOUS
<1>8. \A p \in 0 .. M * w - 1 : BitAt(text, w, p) = BitAt(bytes, v, p)
  <2>1. 1 \in Nat \ {0} /\ 2 \in Nat \ {0}
    OBVIOUS
  <2>2. M * w <= L * v
    BY <1>6, <1>7
  <2> QED
    BY <1>4, <1>5, <1>7, <2>1, <2>2, SameBits
<1>9. \A p \in 0 .. L * v - 1 : BitAt(bytes, v, p) = BitAt(text, w, p)
  BY <1>6, <1>7, <1>8
<1>10. (L * v) \div w = 2 * L /\ ((2 * L) * w) \div v = L
  <2>1. PICK n \in Nat : n = L * v /\ n = (2 * L) * w
    BY <1>6
  <2>2. n = w * M + 0 /\ n = v * L + 0 /\ 0 \in 0 .. w - 1 /\ 0 \in 0 .. v - 1
    BY <1>7, <2>1
  <2>3. n \div w = M
    BY <2>2, Quotient
  <2>4. n \div v = L
    BY <2>2, Quotient
  <2> QED
    BY <1>7, <2>1, <2>3, <2>4
<1>11. \A k \in DOMAIN text : text[k] \in 0 .. 2 ^ w - 1
  <2> SUFFICES ASSUME NEW k \in 1 .. 2 * L PROVE text[k] \in 0 .. Nibble - 1
    BY <1>1, <1>2 DEF Nibble
  <2>1. PICK g \in 1 .. L : k = 2 * g - 1 \/ k = 2 * g
    <3>1. (k + 1) \div 2 \in 1 .. L /\ (k = 2 * ((k + 1) \div 2) - 1 \/ k = 2 * ((k + 1) \div 2))
      OBVIOUS
    <3> QED
      BY <3>1
  <2>2. bytes[g] \in Bytes
    BY <1>2
  <2> QED
    BY <1>2, <2>1, <2>2, HexByteOfParts DEF HexDone
<1>12. \A k \in DOMAIN bytes : bytes[k] \in 0 .. 2 ^ v - 1
  BY <1>1, <1>3 DEF Bytes, Byte
<1> QED
  BY <1>1, <1>2, <1>3, <1>7, <1>8, <1>9, <1>10, <1>11, <1>12 DEF Regrouped

-----------------------------------------------------------------------------
(* Base64 *)

\* A byte has one digit more than two thirds of it: b = 2^(m) digits.
LEMMA ByteDigits ==
  \E k \in Nat : Byte = Digit * k
<1>1. PICK m \in Nat \ {0} : NibbleBits = 2 * m /\ DigitBits = 3 * m /\ ByteBits = 4 * m
  BY Widths
<1>2. PICK a \in Nat : a = 3 * m
  OBVIOUS
<1>3. 2 ^ (a + m) = 2 ^ a * 2 ^ m /\ 2 ^ m \in Nat
  <2>1. a + m <= Widest
    BY <1>1, <1>2 DEF Widest
  <2>2. m \in Nat
    OBVIOUS
  <2>3. 2 ^ (a + m) = 2 ^ a * 2 ^ m
    BY <2>1, <2>2, PowerSum
  <2>4. 2 ^ m \in Nat
    BY <2>1, <2>2, PowerSum
  <2> QED
    BY <2>3, <2>4
<1>4. Byte = Digit * 2 ^ m
  <2>1. a + m = 4 * m
    BY <1>2
  <2> QED
    BY <1>1, <1>2, <1>3, <2>1 DEF Byte, Digit
<1> QED
  BY <1>3, <1>4

\* The digits that give way to '=' are zero.
LEMMA PadDigits ==
  ASSUME NEW data \in Seq(Bytes), NEW g \in Nat, NEW c \in 2 .. 3, Len(data) <= 3 * g + c - 1
  PROVE  (TripleOf(data, g) \div 2 ^ (DigitBits * (3 - c))) % Digit = 0
<1>1. PICK k \in Nat : Byte = Digit * k
  BY ByteDigits
<1>2. Byte \in Nat \ {0} /\ Digit \in Nat \ {0}
  BY Units
<1>3. ByteAt(data, 3*g) \in Nat /\ ByteAt(data, 3*g + 1) \in Nat
  <2>1. \A n \in Nat : ByteAt(data, n) \in Nat
    BY <1>2 DEF ByteAt, Bytes
  <2>2. 3*g \in Nat /\ 3*g + 1 \in Nat
    OBVIOUS
  <2> QED
    BY <2>1, <2>2
<1>4. PICK x \in Nat, y \in Nat : x = ByteAt(data, 3*g) /\ y = ByteAt(data, 3*g + 1)
  BY <1>3
<1>5. ByteAt(data, 3*g + 2) = 0
  BY DEF ByteAt
<1>6. PICK d \in Nat \ {0}, b \in Nat : d = Digit /\ b = Byte /\ b = d * k
  BY <1>1, <1>2
<1>7. PICK t \in Nat : t = x * b + y
  <2>1. x * b + y \in Nat
    OBVIOUS
  <2> QED
    BY <2>1
<1>8. PICK v \in Nat : TripleOf(data, g) = v /\ v = t * b
  <2>1. TripleOf(data, g) = (x * b + y) * b + 0
    BY <1>4, <1>5, <1>6 DEF TripleOf
  <2>2. t * b \in Nat /\ t * b + 0 = t * b
    OBVIOUS
  <2> QED
    BY <1>7, <2>1, <2>2
<1>9. v % d = 0
  <2>1. t * (d * k) = d * (t * k) /\ t * k \in Nat
    OBVIOUS
  <2>2. PICK u \in Nat : u = t * k
    BY <2>1
  <2>3. v = d * u + 0 /\ 0 \in 0 .. d - 1
    BY <1>6, <1>8, <2>1, <2>2
  <2> QED
    BY <2>3, Quotient
<1>10. CASE c = 3
  <2>1. v \div 1 = v
    OBVIOUS
  <2> QED
    BY <1>6, <1>8, <1>9, <1>10, <2>1, GroupUnits
<1>11. CASE c = 2
  <2>1. y = 0 /\ t = x * b
    <3>1. y = 0
      BY <1>4, <1>11 DEF ByteAt
    <3> QED
      BY <1>7, <3>1
  <2>2. v = d * (d * ((x * k) * k))
    <3>1. (x * (d * k)) * (d * k) = d * (d * ((x * k) * k))
      OBVIOUS
    <3> QED
      BY <1>6, <1>8, <2>1, <3>1
  <2>3. PICK u \in Nat : u = (x * k) * k
    <3>1. (x * k) * k \in Nat
      OBVIOUS
    <3> QED
      BY <3>1
  <2>4. PICK w \in Nat : w = d * u
    <3>1. d * u \in Nat
      OBVIOUS
    <3> QED
      BY <3>1
  <2>5. v = d * w + 0 /\ w = d * u + 0 /\ 0 \in 0 .. d - 1
    BY <2>2, <2>3, <2>4
  <2>6. v \div d = w
    BY <2>5, Quotient
  <2>7. w % d = 0
    BY <2>5, Quotient
  <2> QED
    BY <1>6, <1>8, <1>11, <2>6, <2>7, GroupUnits
<1> QED
  BY <1>10, <1>11

DigitPart(v, c) == (v \div 2 ^ (DigitBits * (3 - c))) % Digit

LEMMA EncodedDigit ==
  ASSUME NEW data \in Seq(Bytes), NEW G \in Nat, NEW text, Base64Done(text, data, G),
         NEW q \in 0 .. G - 1, NEW c \in 0 .. 3
  PROVE  DigitAt(text, 4 * q + c) = DigitPart(TripleOf(data, q), c)
<1>1. q \in Nat
  OBVIOUS
<1>2. TripleOf(data, q) \in Nat
  <2>1. TripleOf(data, q) \in 0 .. Byte * Byte * Byte - 1
    BY <1>1, TripleParts
  <2>2. Byte * Byte * Byte \in Nat
    BY Units
  <2> QED
    BY <2>1, <2>2
<1>3. PICK k \in Nat : k = 4 * q + c
  OBVIOUS
<1>4. PICK d : d = (TripleOf(data, q) \div 2 ^ (DigitBits * (3 - c))) % Digit
  OBVIOUS
<1>5. text[k + 1] = EncodedChar(data, q, c)
  BY <1>3 DEF Base64Done
<1>6. DigitAt(text, k) = d
  <2>1. CASE c < 2 \/ 3 * q + c - 1 < Len(data)
    <3>1. text[k + 1] = d
      BY <1>4, <1>5, <2>1 DEF EncodedChar
    <3>2. d \in 0 .. Digit - 1
      <4>1. 2 ^ (DigitBits * (3 - c)) \in Nat \ {0}
        <5>1. c = 0 \/ c = 1 \/ c = 2 \/ c = 3
          OBVIOUS
        <5>2. 1 \in Nat \ {0}
          OBVIOUS
        <5> QED
          BY <5>1, <5>2, GroupUnits, Units
      <4>2. PICK u \in Nat \ {0}, t \in Nat : u = 2 ^ (DigitBits * (3 - c)) /\ t = TripleOf(data, q)
        BY <1>2, <4>1
      <4>3. t \div u \in Nat
        BY DivMod
      <4>4. PICK s \in Nat : s = t \div u
        BY <4>3
      <4>5. s % Digit \in 0 .. Digit - 1
        BY DivMod, Units
      <4> QED
        BY <1>4, <4>2, <4>4, <4>5
    <3>3. d # Pad
      BY <3>2, CharAssumption
    <3> QED
      BY <3>1, <3>3 DEF DigitAt
  <2>2. CASE ~(c < 2 \/ 3 * q + c - 1 < Len(data))
    <3>1. text[k + 1] = Pad
      BY <1>5, <2>2 DEF EncodedChar
    <3>2. c \in 2 .. 3 /\ Len(data) <= 3 * q + c - 1
      BY <2>2
    <3>3. d = 0
      BY <1>1, <1>4, <3>2, PadDigits
    <3> QED
      BY <3>1, <3>3 DEF DigitAt
  <2> QED
    BY <2>1, <2>2
<1>7. DigitPart(TripleOf(data, q), c) = d
  BY <1>4 DEF DigitPart
<1> QED
  BY <1>3, <1>6, <1>7

LEMMA EncodedHolds ==
  ASSUME NEW data \in Seq(Bytes), NEW G \in Nat, NEW vals,
         \A q \in 0 .. G - 1 : vals[q] = TripleOf(data, q),
         NEW padded, \A k \in 0 .. 3 * G - 1 : padded[k + 1] = ByteAt(data, k),
         NEW digits, NEW text, Base64Done(text, data, G),
         \A k \in 0 .. 4 * G - 1 : digits[k + 1] = DigitAt(text, k)
  PROVE  Holds(padded, 3 * G, ByteBits, 3, vals) /\ Holds(digits, 4 * G, DigitBits, 4, vals)
<1>1. ASSUME NEW k \in 0 .. 3 * G - 1
      PROVE  /\ vals[k \div 3] \in Nat
             /\ padded[k + 1] = (vals[k \div 3] \div 2 ^ (ByteBits * ((3 - 1) - (k % 3)))) % 2 ^ ByteBits
  <2>1. PICK q \in 0 .. G - 1, c \in 0 .. 2 : k \div 3 = q /\ k % 3 = c /\ k = 3 * q + c
    <3>1. k \div 3 \in 0 .. G - 1 /\ k % 3 \in 0 .. 2 /\ k = 3 * (k \div 3) + (k % 3)
      OBVIOUS
    <3> QED
      BY <3>1
  <2>2. vals[q] = TripleOf(data, q) /\ padded[k + 1] = ByteAt(data, k) /\ q \in Nat /\ 3 - 1 = 2
    OBVIOUS
  <2>3. TripleOf(data, q) \in 0 .. Byte * Byte * Byte - 1
    BY <2>2, TripleParts
  <2>4. (TripleOf(data, q) \div 2 ^ (ByteBits * (2 - c))) % 2 ^ ByteBits = ByteAt(data, 3 * q + c)
    BY <2>2, TripleParts
  <2>5. TripleOf(data, q) \in Nat
    <3>1. Byte * Byte * Byte \in Nat
      BY Units
    <3> QED
      BY <2>3, <3>1
  <2> QED
    BY <2>1, <2>2, <2>4, <2>5
<1>2. ASSUME NEW k \in 0 .. 4 * G - 1
      PROVE  /\ vals[k \div 4] \in Nat
             /\ digits[k + 1] = (vals[k \div 4] \div 2 ^ (DigitBits * ((4 - 1) - (k % 4)))) % 2 ^ DigitBits
  <2>1. PICK q \in 0 .. G - 1, c \in 0 .. 3 : k \div 4 = q /\ k % 4 = c /\ k = 4 * q + c
    <3>1. k \div 4 \in 0 .. G - 1 /\ k % 4 \in 0 .. 3 /\ k = 4 * (k \div 4) + (k % 4)
      OBVIOUS
    <3> QED
      BY <3>1
  <2>2. vals[q] = TripleOf(data, q) /\ digits[k + 1] = DigitAt(text, k) /\ q \in Nat /\ 4 - 1 = 3
    OBVIOUS
  <2>3. TripleOf(data, q) \in Nat
    <3>1. TripleOf(data, q) \in 0 .. Byte * Byte * Byte - 1
      BY <2>2, TripleParts
    <3>2. Byte * Byte * Byte \in Nat
      BY Units
    <3> QED
      BY <3>1, <3>2
  <2>5. DigitAt(text, k) = DigitPart(TripleOf(data, q), c)
    BY <2>1, EncodedDigit
  <2>4. DigitAt(text, k) = (TripleOf(data, q) \div 2 ^ (DigitBits * (3 - c))) % Digit
    BY <2>5 DEF DigitPart
  <2>7. Digit = 2 ^ DigitBits
    BY DEF Digit
  <2> QED
    BY <2>1, <2>2, <2>3, <2>4, <2>7
<1> QED
  BY <1>1, <1>2 DEF Holds

\* How many '=' end the text of some data.
PadsOf(data) == (3 - (Len(data) % 3)) % 3

LEMMA PadCount ==
  ASSUME NEW n \in Nat
  PROVE  /\ (3 - (n % 3)) % 3 \in 0 .. 2
         /\ (n + 2) \div 3 \in Nat
         /\ n + ((3 - (n % 3)) % 3) = 3 * ((n + 2) \div 3)
<1>1. PICK q \in Nat, r \in 0 .. 2 : n = 3 * q + r /\ n % 3 = r
  <2>1. n \div 3 \in Nat /\ n % 3 \in 0 .. 2 /\ n = 3 * (n \div 3) + (n % 3)
    OBVIOUS
  <2> QED
    BY <2>1
<1>2. CASE r = 0
  <2>1. (n + 2) \div 3 = q
    BY <1>1, <1>2
  <2>2. (3 - (n % 3)) % 3 = 0
    BY <1>1, <1>2
  <2> QED
    BY <1>1, <1>2, <2>1, <2>2
<1>3. CASE r = 1
  <2>1. (n + 2) \div 3 = q + 1
    BY <1>1, <1>3
  <2>2. (3 - (n % 3)) % 3 = 2
    BY <1>1, <1>3
  <2> QED
    BY <1>1, <1>3, <2>1, <2>2
<1>4. CASE r = 2
  <2>1. (n + 2) \div 3 = q + 1
    BY <1>1, <1>4
  <2>2. (3 - (n % 3)) % 3 = 1
    BY <1>1, <1>4
  <2> QED
    BY <1>1, <1>4, <2>1, <2>2
<1> QED
  BY <1>1, <1>2, <1>3, <1>4

LEMMA EncodedChars ==
  ASSUME NEW data \in Seq(Bytes), NEW text, NEW G \in Nat, NEW n \in 0 .. 2,
         Len(data) + n = 3 * G, Base64Done(text, data, G)
  PROVE  \A k \in 0 .. 4 * G - 1 : /\ text[k + 1] = Pad <=> 4 * G - n <= k
                                   /\ text[k + 1] = Pad \/ text[k + 1] \in 0 .. Digit - 1
<1> TAKE k \in 0 .. 4 * G - 1
<1>1. PICK q \in 0 .. G - 1, c \in 0 .. 3 : k = 4 * q + c
  <2>1. k \div 4 \in 0 .. G - 1 /\ k % 4 \in 0 .. 3 /\ k = 4 * (k \div 4) + (k % 4)
    OBVIOUS
  <2> QED
    BY <2>1
<1>2. text[k + 1] = EncodedChar(data, q, c)
  <2>1. 4 * q + c + 1 = k + 1
    BY <1>1
  <2> QED
    BY <2>1 DEF Base64Done
<1>3. CASE c < 2 \/ 3 * q + c - 1 < Len(data)
  <2>1. text[k + 1] = (TripleOf(data, q) \div 2 ^ (DigitBits * (3 - c))) % Digit
    BY <1>2, <1>3 DEF EncodedChar
  <2>2. text[k + 1] \in 0 .. Digit - 1
    <3>1. 2 ^ (DigitBits * (3 - c)) \in Nat \ {0}
      <4>1. c = 0 \/ c = 1 \/ c = 2 \/ c = 3
        OBVIOUS
      <4>2. 1 \in Nat \ {0}
        OBVIOUS
      <4> QED
        BY <4>1, <4>2, GroupUnits, Units
    <3>2. TripleOf(data, q) \in Nat
      <4>1. TripleOf(data, q) \in 0 .. Byte * Byte * Byte - 1
        <5>1. q \in Nat
          OBVIOUS
        <5> QED
          BY <5>1, TripleParts
      <4>2. Byte * Byte * Byte \in Nat
        BY Units
      <4> QED
        BY <4>1, <4>2
    <3>3. PICK u \in Nat \ {0}, t \in Nat : u = 2 ^ (DigitBits * (3 - c)) /\ t = TripleOf(data, q)
      BY <3>1, <3>2
    <3>4. PICK s \in Nat : s = t \div u
      <4>1. t \div u \in Nat
        BY DivMod
      <4> QED
        BY <4>1
    <3>5. s % Digit \in 0 .. Digit - 1
      BY DivMod, Units
    <3> QED
      BY <2>1, <3>3, <3>4, <3>5
  <2>3. text[k + 1] # Pad
    BY <2>2, CharAssumption
  <2>4. k < 4 * G - n
    <3>1. CASE n = 0
      BY <3>1
    <3>2. CASE n = 1
      BY <1>1, <1>3, <3>2
    <3>3. CASE n = 2
      BY <1>1, <1>3, <3>3
    <3> QED
      BY <3>1, <3>2, <3>3
  <2> QED
    BY <2>2, <2>3, <2>4
<1>4. CASE ~(c < 2 \/ 3 * q + c - 1 < Len(data))
  <2>1. text[k + 1] = Pad
    BY <1>2, <1>4 DEF EncodedChar
  <2>2. 4 * G - n <= k
    <3>1. 3 * G - n <= 3 * q + c - 1 /\ c \in 2 .. 3
      BY <1>4
    <3>2. CASE n = 0
      BY <1>1, <3>1, <3>2
    <3>3. CASE n = 1
      BY <1>1, <3>1, <3>3
    <3>4. CASE n = 2
      BY <1>1, <3>1, <3>4
    <3> QED
      BY <3>2, <3>3, <3>4
  <2> QED
    BY <2>1, <2>2
<1> QED
  BY <1>3, <1>4

\* The text base64_encode leaves is a Base64 text, with '=' for the bytes that
\* fill the last group.
LEMMA EncodedIsText ==
  ASSUME NEW data \in Seq(Bytes), NEW C, NEW text \in Seq(C), IsBase64By(text, data)
  PROVE  /\ IsBase64Text(text)
         /\ PadsOf(data) \in 0 .. 2
         /\ Pads(text) = Len(text) - PadsOf(data) + 1 .. Len(text)
<1>1. PICK G \in Nat, n \in 0 .. 2 : G = (Len(data) + 2) \div 3 /\ n = PadsOf(data) /\ Len(data) + n = 3 * G
  <2>1. Len(data) \in Nat
    OBVIOUS
  <2> QED
    BY <2>1, PadCount DEF PadsOf
<1>2. Len(text) = 4 * G /\ Base64Done(text, data, G)
  BY <1>1 DEF IsBase64By
<1>3. /\ \A p \in 0 .. 4 * G - 1 : text[p + 1] = Pad <=> 4 * G - n <= p
      /\ \A p \in 0 .. 4 * G - 1 : text[p + 1] = Pad \/ text[p + 1] \in 0 .. Digit - 1
  BY <1>1, <1>2, EncodedChars
<1>4. ASSUME NEW k \in 1 .. 4 * G
      PROVE  /\ text[k] = Pad <=> 4 * G - n + 1 <= k
             /\ text[k] = Pad \/ text[k] \in 0 .. Digit - 1
  <2>1. PICK p \in 0 .. 4 * G - 1 : p + 1 = k
    <3>1. k - 1 \in 0 .. 4 * G - 1 /\ (k - 1) + 1 = k
      OBVIOUS
    <3> QED
      BY <3>1
  <2>2. text[p + 1] = Pad <=> 4 * G - n <= p
    BY <1>3
  <2>4. text[p + 1] = Pad \/ text[p + 1] \in 0 .. Digit - 1
    BY <1>3
  <2>3. 4 * G - n <= p <=> 4 * G - n + 1 <= k
    BY <2>1
  <2> QED
    BY <2>1, <2>2, <2>3, <2>4
<1>5. DOMAIN text = 1 .. 4 * G /\ (G = 0 => n = 0)
  <2>1. DOMAIN text = 1 .. Len(text)
    OBVIOUS
  <2>2. Len(data) \in Nat
    OBVIOUS
  <2> QED
    BY <1>1, <1>2, <2>1, <2>2
<1>6. Pads(text) = 4 * G - n + 1 .. 4 * G
  <2>1. 4 * G - n + 1 .. 4 * G \subseteq 1 .. 4 * G
    BY <1>5
  <2> QED
    BY <1>4, <1>5, <2>1 DEF Pads
<1>7. \A k \in DOMAIN text \ Pads(text) : IsDigit(text[k])
  BY <1>4, <1>5 DEF Pads, IsDigit
<1>8. (4 * G) % 4 = 0
  OBVIOUS
<1> QED
  BY <1>1, <1>2, <1>6, <1>7, <1>8 DEF IsBase64Text

LEMMA PaddingIs ==
  ASSUME NEW C, NEW text \in Seq(C), Len(text) % 4 = 0, NEW n \in 0 .. 2,
         Pads(text) = Len(text) - n + 1 .. Len(text)
  PROVE  Padding(text) = n /\ n <= Len(text)
<1>1. PICK L \in Nat : L = Len(text) /\ DOMAIN text = 1 .. L /\ L % 4 = 0
  OBVIOUS
<1>2. \A k \in 1 .. L : text[k] = Pad <=> L - n + 1 <= k
  BY <1>1 DEF Pads
<1>3. L = 0 => n = 0
  <2> SUFFICES ASSUME L = 0, n # 0 PROVE FALSE
    OBVIOUS
  <2>1. 0 \in L - n + 1 .. L
    OBVIOUS
  <2>2. 0 \in Pads(text)
    BY <1>1, <2>1
  <2> QED
    BY <1>1, <2>2 DEF Pads
<1>4. CASE L = 0
  BY <1>1, <1>3, <1>4 DEF Padding
<1>5. CASE L # 0
  <2>1. 2 <= L /\ L - 0 \in 1 .. L /\ L - 1 \in 1 .. L
    BY <1>1, <1>5
  <2>2. (text[L - 0] = Pad <=> 1 <= n) /\ (text[L - 1] = Pad <=> 2 <= n)
    BY <1>2, <2>1
  <2>3. n = 0 \/ n = 1 \/ n = 2
    OBVIOUS
  <2> QED
    BY <1>1, <2>1, <2>2, <2>3 DEF Padding
<1> QED
  BY <1>4, <1>5

\* Three bytes are four digits wide.
LEMMA GroupWidth ==
  ASSUME NEW G \in Nat, NEW n \in 0 .. 2, n <= 4 * G
  PROVE  /\ ByteBits \in Nat \ {0} /\ DigitBits \in Nat \ {0}
         /\ ByteBits * 3 = DigitBits * 4 /\ ByteBits * 3 <= Widest
         /\ (3 * G) * ByteBits = (4 * G) * DigitBits
         /\ 3 * G - n \in Nat
         /\ (3 * G - n) * ByteBits <= (4 * G - n) * DigitBits
         /\ ((4 * G - n) * DigitBits) \div ByteBits = 3 * G - n
         /\ ((3 * G) * ByteBits) \div DigitBits = 4 * G
<1>1. PICK m \in Nat \ {0} : DigitBits = 3 * m /\ ByteBits = 4 * m
  BY Widths
<1>2. 3 * G - n \in Nat /\ 4 * G - n \in Nat
  OBVIOUS
<1>3. PICK x \in Nat : x = G * m
  <2>1. G * m \in Nat
    OBVIOUS
  <2> QED
    BY <2>1
<1>4. (3 * G) * ByteBits = 12 * x /\ (4 * G) * DigitBits = 12 * x
  <2>1. (3 * G) * (4 * m) = 12 * (G * m) /\ (4 * G) * (3 * m) = 12 * (G * m)
    OBVIOUS
  <2> QED
    BY <1>1, <1>3, <2>1
<1>5. /\ (3 * G - n) * ByteBits = 12 * x - 4 * (n * m)
      /\ (4 * G - n) * DigitBits = 12 * x - 3 * (n * m)
  <2>1. (3 * G - n) * (4 * m) = 12 * (G * m) - 4 * (n * m)
    OBVIOUS
  <2>2. (4 * G - n) * (3 * m) = 12 * (G * m) - 3 * (n * m)
    OBVIOUS
  <2> QED
    BY <1>1, <1>3, <2>1, <2>2
<1>6. n * m \in Nat /\ n * m < 4 * m
  <2>1. n = 0 \/ n = 1 \/ n = 2
    OBVIOUS
  <2> QED
    BY <2>1
<1>7. PICK y \in Nat : y = n * m /\ y < 4 * m
  BY <1>6
<1>8. PICK b \in Nat \ {0}, d \in Nat \ {0} : b = ByteBits /\ d = DigitBits /\ b = 4 * m /\ d = 3 * m
  BY <1>1
<1>9. PICK N \in Nat : N = 3 * G - n
  BY <1>2
<1>10. ((4 * G - n) * DigitBits) \div ByteBits = 3 * G - n
  <2>1. b * N \in Nat /\ b * N = N * b
    OBVIOUS
  <2>2. PICK z \in Nat : z = b * N + y
    BY <2>1
  <2>3. (4 * G - n) * DigitBits = z
    <3>1. N * b = 12 * x - 4 * y
      BY <1>5, <1>7, <1>8, <1>9
    <3>2. (4 * G - n) * DigitBits = 12 * x - 3 * y
      BY <1>5, <1>7
    <3> QED
      BY <2>1, <2>2, <3>1, <3>2
  <2>4. y \in 0 .. b - 1
    BY <1>7, <1>8
  <2>5. z \div b = N
    BY <2>2, <2>4, Quotient
  <2> QED
    BY <1>8, <1>9, <2>3, <2>5
<1>11. ((3 * G) * ByteBits) \div DigitBits = 4 * G
  <2>1. PICK M \in Nat : M = 4 * G
    OBVIOUS
  <2>2. PICK z \in Nat : z = d * M + 0
    <3>1. d * M \in Nat
      OBVIOUS
    <3> QED
      BY <3>1
  <2>3. (3 * G) * ByteBits = z
    <3>1. M * d = d * M /\ d * M \in Nat
      OBVIOUS
    <3> QED
      BY <1>4, <1>8, <2>1, <2>2, <3>1
  <2>4. 0 \in 0 .. d - 1
    OBVIOUS
  <2>5. z \div d = M
    BY <2>2, <2>4, Quotient
  <2> QED
    BY <1>8, <2>1, <2>3, <2>5
<1>12. (3 * G - n) * ByteBits <= (4 * G - n) * DigitBits
  BY <1>5, <1>7
<1>13. ByteBits * 3 = DigitBits * 4 /\ ByteBits * 3 <= Widest
  BY <1>1 DEF Widest
<1> QED
  BY <1>2, <1>4, <1>8, <1>10, <1>11, <1>12, <1>13

LEMMA AsSequence ==
  ASSUME NEW S, NEW n \in Nat, NEW f \in [1 .. n -> S]
  PROVE  f \in Seq(S) /\ Len(f) = n
  OBVIOUS

LEMMA WiderSequence ==
  ASSUME NEW S, NEW T, S \subseteq T, NEW s \in Seq(S)
  PROVE  s \in Seq(T)
<1>1. Len(s) \in Nat /\ s \in [1 .. Len(s) -> T]
  OBVIOUS
<1> QED
  BY <1>1, AsSequence

LEMMA EncodedRegrouped ==
  ASSUME NEW data \in Seq(Bytes), NEW C, NEW text \in Seq(C), IsBase64By(text, data)
  PROVE  IsBase64Of(text, data)
<1>1. PICK G \in Nat, n \in 0 .. 2 : G = (Len(data) + 2) \div 3 /\ n = PadsOf(data) /\ Len(data) + n = 3 * G
  <2>1. Len(data) \in Nat
    OBVIOUS
  <2> QED
    BY <2>1, PadCount DEF PadsOf
<1>2. Len(text) = 4 * G /\ Base64Done(text, data, G) /\ DOMAIN text = 1 .. 4 * G
  BY <1>1 DEF IsBase64By
<1>3. Pads(text) = Len(text) - n + 1 .. Len(text)
  BY <1>1, EncodedIsText
<1>4. \A k \in 0 .. 4 * G - 1 : text[k + 1] = Pad \/ text[k + 1] \in 0 .. Digit - 1
  BY <1>1, <1>2, EncodedChars
<1> DEFINE zeros == [k \in 1 .. n |-> 0]
           padded == data \o zeros
           digits == DigitsWithPads(text)
           vals == [q \in 0 .. G - 1 |-> TripleOf(data, q)]
<1>5. padded \in Seq(Nat) /\ Len(padded) = 3 * G
  <2>1. zeros \in Seq(Nat) /\ Len(zeros) = n
    OBVIOUS
  <2>2. data \in Seq(Nat)
    <3>1. Bytes \subseteq Nat
      BY Units DEF Bytes
    <3> QED
      BY <3>1, WiderSequence
  <2> QED
    BY <1>1, <2>1, <2>2
<1>6. \A k \in 0 .. 3 * G - 1 : padded[k + 1] = ByteAt(data, k)
  <2> TAKE k \in 0 .. 3 * G - 1
  <2>1. CASE k < Len(data)
    BY <2>1 DEF ByteAt
  <2>2. CASE ~(k < Len(data))
    <3>1. padded[k + 1] = zeros[k + 1 - Len(data)]
      BY <1>1, <2>2
    <3>2. k + 1 - Len(data) \in 1 .. n
      BY <1>1, <2>2
    <3> QED
      BY <2>2, <3>1, <3>2 DEF ByteAt
  <2> QED
    BY <2>1, <2>2
<1>7. digits \in Seq(0 .. Digit - 1) /\ Len(digits) = 4 * G
  <2>1. \A k \in 1 .. 4 * G : digits[k] \in 0 .. Digit - 1
    <3> TAKE k \in 1 .. 4 * G
    <3>1. k - 1 \in 0 .. 4 * G - 1 /\ (k - 1) + 1 = k
      OBVIOUS
    <3>2. text[k] = Pad \/ text[k] \in 0 .. Digit - 1
      BY <1>4, <3>1
    <3>3. 0 \in 0 .. Digit - 1
      BY Units
    <3> QED
      BY <1>2, <3>2, <3>3 DEF DigitsWithPads
  <2>2. DOMAIN digits = 1 .. 4 * G /\ digits = [k \in 1 .. 4 * G |-> digits[k]]
    BY <1>2 DEF DigitsWithPads
  <2>3. digits \in [1 .. 4 * G -> 0 .. Digit - 1]
    BY <2>1, <2>2
  <2>4. PICK N \in Nat : N = 4 * G
    OBVIOUS
  <2> HIDE DEF digits
  <2>5. digits \in [1 .. N -> 0 .. Digit - 1]
    BY <2>3, <2>4
  <2>6. digits \in Seq(0 .. Digit - 1) /\ Len(digits) = N
    BY <2>5, AsSequence
  <2> QED
    BY <2>4, <2>6
<1>8. \A k \in 0 .. 4 * G - 1 : digits[k + 1] = DigitAt(text, k)
  <2> TAKE k \in 0 .. 4 * G - 1
  <2>1. k + 1 \in DOMAIN text
    BY <1>2
  <2> QED
    BY <2>1 DEF DigitsWithPads, DigitAt
<1>9. \A q \in 0 .. G - 1 : vals[q] = TripleOf(data, q)
  OBVIOUS
<1> HIDE DEF padded, digits, vals
<1>10. Holds(padded, 3 * G, ByteBits, 3, vals) /\ Holds(digits, 4 * G, DigitBits, 4, vals)
  BY <1>2, <1>6, <1>8, <1>9, EncodedHolds
<1>11. /\ ByteBits \in Nat \ {0} /\ DigitBits \in Nat \ {0}
       /\ ByteBits * 3 = DigitBits * 4 /\ ByteBits * 3 <= Widest
       /\ (3 * G) * ByteBits = (4 * G) * DigitBits
       /\ ((3 * G) * ByteBits) \div DigitBits = 4 * G
  <2>1. 0 \in 0 .. 2 /\ 0 <= 4 * G
    OBVIOUS
  <2> QED
    BY <2>1, GroupWidth
<1>12. PICK L \in Nat, M \in Nat : L = 3 * G /\ M = 4 * G
  OBVIOUS
<1>13. PICK w \in Nat \ {0}, v \in Nat \ {0} : w = ByteBits /\ v = DigitBits
  BY <1>11
<1>14. M * v <= L * w
  <2>1. L * w \in Nat
    OBVIOUS
  <2> QED
    BY <1>11, <1>12, <1>13, <2>1
<1>15. \A p \in 0 .. M * v - 1 : BitAt(digits, v, p) = BitAt(padded, w, p)
  <2>1. 3 \in Nat \ {0} /\ 4 \in Nat \ {0}
    OBVIOUS
  <2>2. w * 3 = v * 4 /\ w * 3 <= Widest /\ Holds(padded, L, w, 3, vals) /\ Holds(digits, M, v, 4, vals)
    BY <1>10, <1>11, <1>12, <1>13
  <2> QED
    BY <1>14, <2>1, <2>2, SameBits
<1>16. \A k \in DOMAIN digits : digits[k] \in 0 .. 2 ^ v - 1
  BY <1>7, <1>13 DEF Digit
<1>17. Regrouped(padded, ByteBits, digits, DigitBits)
  BY <1>5, <1>7, <1>11, <1>12, <1>13, <1>15, <1>16 DEF Regrouped
<1> QED
  BY <1>1, <1>3, <1>17 DEF IsBase64Of, PadsOf, padded, digits

\* The length base64_decode announces: three bytes a group, less one for each '='.
LEMMA DecodedLenIs ==
  ASSUME NEW C, NEW text \in Seq(C), NEW G \in Nat, Len(text) = 4 * G, NEW n \in 0 .. 2,
         Pads(text) = Len(text) - n + 1 .. Len(text)
  PROVE  DecodedLen(text) = 3 * G - n /\ n <= 4 * G
<1>1. Len(text) % 4 = 0 /\ Len(text) \div 4 = G
  OBVIOUS
<1>2. Padding(text) = n /\ n <= Len(text)
  BY <1>1, PaddingIs
<1> QED
  BY <1>1, <1>2 DEF DecodedLen

\* The bytes base64_decode returns of a Base64 text and its digits are the same
\* bits.
LEMMA DecodedRegrouped ==
  ASSUME NEW C, NEW text \in Seq(C), IsBase64Text(text), NEW bytes, IsBytesOf(bytes, text)
  PROVE  Regrouped(DigitsOf(text), DigitBits, bytes, ByteBits)
<1>1. PICK n \in 0 .. 2 : Pads(text) = Len(text) - n + 1 .. Len(text)
  BY DEF IsBase64Text
<1>2. PICK G \in Nat : Len(text) = 4 * G /\ DOMAIN text = 1 .. 4 * G
  <2>1. Len(text) \in Nat /\ Len(text) % 4 = 0 /\ DOMAIN text = 1 .. Len(text)
    BY DEF IsBase64Text
  <2>3. PICK L \in Nat : L = Len(text)
    BY <2>1
  <2>4. L % 4 = 0
    BY <2>1, <2>3
  <2>5. L \div 4 \in Nat /\ L = 4 * (L \div 4)
    BY <2>4
  <2>2. Len(text) \div 4 \in Nat /\ Len(text) = 4 * (Len(text) \div 4)
    BY <2>3, <2>5
  <2> QED
    BY <2>1, <2>2
<1>3. DecodedLen(text) = 3 * G - n /\ n <= 4 * G
  BY <1>1, <1>2, DecodedLenIs
<1>4. /\ ByteBits \in Nat \ {0} /\ DigitBits \in Nat \ {0}
      /\ ByteBits * 3 = DigitBits * 4 /\ ByteBits * 3 <= Widest
      /\ 3 * G - n \in Nat
      /\ (3 * G - n) * ByteBits <= (4 * G - n) * DigitBits
      /\ ((4 * G - n) * DigitBits) \div ByteBits = 3 * G - n
  BY <1>3, GroupWidth
<1> DEFINE digits == DigitsOf(text)
           vals == [q \in 0 .. G - 1 |-> QuadOf(text, q)]
<1>5. \A k \in 1 .. 4 * G : /\ k \in Pads(text) <=> 4 * G - n + 1 <= k
                            /\ k \notin Pads(text) => text[k] \in 0 .. Digit - 1
  BY <1>1, <1>2 DEF IsBase64Text, IsDigit
<1>6. digits \in Seq(0 .. Digit - 1) /\ Len(digits) = 4 * G - n
      /\ \A k \in 1 .. 4 * G - n : digits[k] = text[k]
  <2>1. DOMAIN text \ Pads(text) = 1 .. 4 * G - n
    BY <1>1, <1>2
  <2>2. digits = [k \in 1 .. 4 * G - n |-> text[k]]
    BY <2>1 DEF DigitsOf
  <2>3. \A k \in 1 .. 4 * G - n : text[k] \in 0 .. Digit - 1
    <3> TAKE k \in 1 .. 4 * G - n
    <3>1. k \in 1 .. 4 * G /\ ~(4 * G - n + 1 <= k)
      OBVIOUS
    <3> QED
      BY <1>5, <3>1
  <2>4. digits \in [1 .. 4 * G - n -> 0 .. Digit - 1]
    BY <2>2, <2>3
  <2>5. PICK N \in Nat : N = 4 * G - n
    <3>1. 4 * G - n \in Nat
      BY <1>3
    <3> QED
      BY <3>1
  <2> HIDE DEF digits
  <2>6. digits \in [1 .. N -> 0 .. Digit - 1]
    BY <2>4, <2>5
  <2>7. digits \in Seq(0 .. Digit - 1) /\ Len(digits) = N
    BY <2>6, AsSequence
  <2> QED
    BY <2>2, <2>5, <2>7
<1>7. \A k \in 0 .. 4 * G - 1 : /\ DigitAt(text, k) \in 0 .. Digit - 1
                                /\ k < 4 * G - n => text[k + 1] = DigitAt(text, k)
  <2> TAKE k \in 0 .. 4 * G - 1
  <2>1. k + 1 \in 1 .. 4 * G /\ (k < 4 * G - n <=> ~(4 * G - n + 1 <= k + 1))
    OBVIOUS
  <2>2. 0 \in 0 .. Digit - 1
    BY Units
  <2>3. CASE k < 4 * G - n
    <3>1. text[k + 1] \in 0 .. Digit - 1
      BY <1>5, <2>1, <2>3
    <3>2. text[k + 1] # Pad
      BY <3>1, CharAssumption
    <3> QED
      BY <3>1, <3>2 DEF DigitAt
  <2>4. CASE ~(k < 4 * G - n)
    <3>1. k + 1 \in Pads(text)
      BY <1>5, <2>1, <2>4
    <3>2. text[k + 1] = Pad
      BY <3>1 DEF Pads
    <3> QED
      BY <2>2, <2>4, <3>2 DEF DigitAt
  <2> QED
    BY <2>3, <2>4
<1>8. ASSUME NEW q \in 0 .. G - 1
      PROVE  /\ vals[q] = QuadOf(text, q) /\ QuadOf(text, q) \in Nat
             /\ \A c \in 0 .. 3 :
                  (QuadOf(text, q) \div 2 ^ (DigitBits * (3 - c))) % 2 ^ DigitBits = DigitAt(text, 4 * q + c)
  <2>1. q \in Nat
    OBVIOUS
  <2>2. \A c \in 0 .. 3 : DigitAt(text, 4 * q + c) \in 0 .. Digit - 1
    <3> TAKE c \in 0 .. 3
    <3>1. 4 * q + c \in 0 .. 4 * G - 1
      OBVIOUS
    <3> QED
      BY <1>7, <3>1
  <2> QED
    BY <2>1, <2>2, QuadParts
<1> HIDE DEF vals, digits
<1>9. Holds(bytes, 3 * G - n, ByteBits, 3, vals)
  <2> SUFFICES ASSUME NEW k \in 0 .. 3 * G - n - 1
               PROVE  /\ vals[k \div 3] \in Nat
                      /\ bytes[k + 1] = (vals[k \div 3] \div 2 ^ (ByteBits * ((3 - 1) - (k % 3)))) % 2 ^ ByteBits
    BY DEF Holds
  <2>1. PICK q \in 0 .. G - 1 : q = k \div 3
    <3>1. k \div 3 \in 0 .. G - 1
      OBVIOUS
    <3> QED
      BY <3>1
  <2>2. bytes[k + 1] = DecodedByte(text, k)
    <3>1. Len(bytes) = 3 * G - n
      BY <1>3 DEF IsBytesOf
    <3> QED
      BY <3>1 DEF IsBytesOf, DecodedDone
  <2>3. 3 - 1 = 2 /\ Byte = 2 ^ ByteBits
    BY DEF Byte
  <2> QED
    BY <1>8, <2>1, <2>2, <2>3 DEF DecodedByte
<1>10. Holds(digits, 4 * G - n, DigitBits, 4, vals)
  <2> SUFFICES ASSUME NEW k \in 0 .. 4 * G - n - 1
               PROVE  /\ vals[k \div 4] \in Nat
                      /\ digits[k + 1] = (vals[k \div 4] \div 2 ^ (DigitBits * ((4 - 1) - (k % 4)))) % 2 ^ DigitBits
    BY DEF Holds
  <2>1. PICK q \in 0 .. G - 1, c \in 0 .. 3 : k \div 4 = q /\ k % 4 = c /\ k = 4 * q + c
    <3>1. k \div 4 \in 0 .. G - 1 /\ k % 4 \in 0 .. 3 /\ k = 4 * (k \div 4) + (k % 4)
      OBVIOUS
    <3> QED
      BY <3>1
  <2>2. digits[k + 1] = DigitAt(text, k)
    <3>1. k + 1 \in 1 .. 4 * G - n /\ k \in 0 .. 4 * G - 1 /\ k < 4 * G - n
      OBVIOUS
    <3>2. digits[k + 1] = text[k + 1]
      BY <1>6, <3>1
    <3> QED
      BY <1>7, <3>1, <3>2
  <2>3. 4 - 1 = 3
    OBVIOUS
  <2> QED
    BY <1>8, <2>1, <2>2, <2>3
<1>11. PICK L \in Nat, M \in Nat : L = 4 * G - n /\ M = 3 * G - n
  <2>1. 4 * G - n \in Nat
    BY <1>3
  <2> QED
    BY <1>4, <2>1
<1>12. PICK w \in Nat \ {0}, v \in Nat \ {0} : w = DigitBits /\ v = ByteBits
  BY <1>4
<1>13. \A p \in 0 .. M * v - 1 : BitAt(bytes, v, p) = BitAt(digits, w, p)
  <2>1. 3 \in Nat \ {0} /\ 4 \in Nat \ {0}
    OBVIOUS
  <2>2. w * 4 = v * 3 /\ w * 4 <= Widest /\ Holds(digits, L, w, 4, vals) /\ Holds(bytes, M, v, 3, vals)
    BY <1>4, <1>9, <1>10, <1>11, <1>12
  <2>3. M * v <= L * w
    BY <1>4, <1>11, <1>12
  <2> QED
    BY <2>1, <2>2, <2>3, SameBits
<1>14. bytes \in Seq(Bytes) /\ Len(bytes) = M
  BY <1>3, <1>11 DEF IsBytesOf
<1>15. \A k \in DOMAIN bytes : bytes[k] \in 0 .. 2 ^ v - 1
  <2>1. \A k \in DOMAIN bytes : bytes[k] \in Bytes
    BY <1>14
  <2> QED
    BY <1>12, <2>1 DEF Bytes, Byte
<1>16. Len(digits) = L
  BY <1>6, <1>11
<1> QED
  BY <1>4, <1>11, <1>12, <1>13, <1>14, <1>15, <1>16 DEF Regrouped, digits

\* base64_decode gives back the bytes base64_encode was given.
LEMMA Base64RoundTrip ==
  ASSUME NEW data \in Seq(Bytes), NEW C, NEW text \in Seq(C), IsBase64By(text, data),
         NEW bytes, IsBytesOf(bytes, text)
  PROVE  bytes = data
<1>1. PICK G \in Nat, n \in 0 .. 2 : G = (Len(data) + 2) \div 3 /\ n = PadsOf(data) /\ Len(data) + n = 3 * G
  <2>1. Len(data) \in Nat
    OBVIOUS
  <2> QED
    BY <2>1, PadCount DEF PadsOf
<1>2. Len(text) = 4 * G /\ Base64Done(text, data, G)
  BY <1>1 DEF IsBase64By
<1>3. Pads(text) = Len(text) - n + 1 .. Len(text)
  BY <1>1, EncodedIsText
<1>4. DecodedLen(text) = 3 * G - n
  BY <1>2, <1>3, DecodedLenIs
<1>5. bytes \in Seq(Bytes) /\ Len(bytes) = Len(data)
  BY <1>1, <1>4 DEF IsBytesOf
<1>6. ASSUME NEW k \in 0 .. Len(data) - 1
      PROVE  bytes[k + 1] = data[k + 1]
  <2>1. PICK q \in 0 .. G - 1, c \in 0 .. 2 : k \div 3 = q /\ k % 3 = c /\ k = 3 * q + c
    <3>1. k \div 3 \in 0 .. G - 1 /\ k % 3 \in 0 .. 2 /\ k = 3 * (k \div 3) + (k % 3)
      BY <1>1
    <3> QED
      BY <3>1
  <2>2. q \in Nat
    OBVIOUS
  <2>3. PICK d \in Nat \ {0} : d = Digit /\ Byte * Byte * Byte = d * d * d * d
    BY Units
  <2>4. PICK v : v = TripleOf(data, q)
    OBVIOUS
  <2>5. v \in 0 .. d * d * d * d - 1
    BY <2>2, <2>3, <2>4, TripleParts
  <2>6. QuadOf(text, q) = v
    <3>1. \A e \in 0 .. 3 : DigitAt(text, 4 * q + e) = (v \div 2 ^ (DigitBits * (3 - e))) % Digit
      <4> TAKE e \in 0 .. 3
      <4>1. Base64Done(text, data, G)
        BY <1>2
      <4>2. DigitAt(text, 4 * q + e) = DigitPart(v, e)
        BY <2>4, <4>1, EncodedDigit
      <4> QED
        BY <4>2 DEF DigitPart
    <3>2. 4 * q + 0 = 4 * q /\ 0 \in 0 .. 3 /\ 1 \in 0 .. 3 /\ 2 \in 0 .. 3 /\ 3 \in 0 .. 3
      OBVIOUS
    <3>3. /\ DigitAt(text, 4 * q) = (v \div (d * d * d)) % d
          /\ DigitAt(text, 4 * q + 1) = (v \div (d * d)) % d
          /\ DigitAt(text, 4 * q + 2) = (v \div d) % d
          /\ DigitAt(text, 4 * q + 3) = (v \div 1) % d
      BY <2>3, <3>1, <3>2, GroupUnits
    <3>4. v = ((((v \div (d * d * d)) % d) * d + ((v \div (d * d)) % d)) * d
               + ((v \div d) % d)) * d + ((v \div 1) % d)
      BY <2>5, FourParts
    <3> QED
      BY <2>3, <3>3, <3>4 DEF QuadOf
  <2>7. bytes[k + 1] = DecodedByte(text, k)
    BY <1>5 DEF IsBytesOf, DecodedDone
  <2>8. (v \div 2 ^ (ByteBits * (2 - c))) % 2 ^ ByteBits = ByteAt(data, k)
    <3>1. (TripleOf(data, q) \div 2 ^ (ByteBits * (2 - c))) % 2 ^ ByteBits = ByteAt(data, 3 * q + c)
      BY <2>2, TripleParts
    <3> QED
      BY <2>1, <2>4, <3>1
  <2>9. bytes[k + 1] = ByteAt(data, k)
    BY <2>1, <2>6, <2>7, <2>8 DEF DecodedByte, Byte
  <2> QED
    BY <2>9 DEF ByteAt
<1>7. \A k \in 1 .. Len(data) : bytes[k] = data[k]
  <2> TAKE k \in 1 .. Len(data)
  <2>1. PICK p \in 0 .. Len(data) - 1 : p + 1 = k
    <3>1. k - 1 \in 0 .. Len(data) - 1 /\ (k - 1) + 1 = k
      OBVIOUS
    <3> QED
      BY <3>1
  <2> QED
    BY <1>6, <2>1
<1> QED
  BY <1>5, <1>7

\* hex_to_bytes gives back the bytes bytes_to_hex was given.
LEMMA HexRoundTrip ==
  ASSUME NEW data \in Seq(Bytes), NEW text, HexDone(text, data, Len(data)),
         NEW bytes \in Seq(Bytes), Len(bytes) = Len(data), BytesDone(bytes, text, Len(data))
  PROVE  bytes = data
<1>1. ASSUME NEW g \in 1 .. Len(data)
      PROVE  bytes[g] = data[g]
  <2>1. data[g] \in Bytes
    OBVIOUS
  <2> QED
    BY <2>1, HexByteOfParts DEF HexDone, BytesDone
<1> QED
  BY <1>1

\* Hexadecimal digits and the bytes they are decoded to.
LEMMA HexDoneOfBytes ==
  ASSUME NEW bytes, NEW text, NEW n \in Nat, BytesDone(bytes, text, n)
  PROVE  HexDone(text, bytes, n)
<1> SUFFICES ASSUME NEW g \in 1 .. n
             PROVE  text[2*g - 1] = (bytes[g] \div Nibble) % Nibble /\ text[2*g] = bytes[g] % Nibble
  BY DEF HexDone
<1>1. /\ text[2*g - 1] \in 0 .. Nibble - 1 /\ text[2*g] \in 0 .. Nibble - 1
      /\ bytes[g] = HexByte(text[2*g - 1], text[2*g])
  BY DEF BytesDone, IsNibble
<1> QED
  BY <1>1, HexByteParts

-----------------------------------------------------------------------------
(* Buffers *)

\* A block from palloc has its length and nothing but unwritten bytes.
LEMMA FreshBuffer ==
  ASSUME NEW n \in Nat, NEW C
  PROVE  /\ Fresh(n) \in Seq(C \cup {Junk})
         /\ Len(Fresh(n)) = n
  BY DEF Fresh

\* Bytes stored at index n leave the length alone and close the gap up to the
\* index after them.
LEMMA Written ==
  ASSUME NEW C, NEW o \in Seq(C \cup {Junk}), NEW b \in Seq(C), NEW n \in Nat,
         \A k \in 1 .. Len(o) : k <= n => o[k] \in C,
         NEW w,
         w = [k \in 1 .. Len(o) |-> IF k - n \in 1 .. Len(b) THEN b[k - n] ELSE o[k]]
  PROVE  /\ w \in Seq(C \cup {Junk})
         /\ Len(w) = Len(o)
         /\ \A k \in 1 .. Len(w) : k <= n + Len(b) => w[k] \in C
<1>1. \A k \in 1 .. Len(o) : w[k] \in C \cup {Junk}
  OBVIOUS
<1>2. w \in [1 .. Len(o) -> C \cup {Junk}] /\ Len(o) \in Nat
  BY <1>1
<1>3. w \in Seq(C \cup {Junk}) /\ Len(w) = Len(o)
  BY <1>2
<1>4. \A k \in 1 .. Len(o) : k <= n + Len(b) => w[k] \in C
  OBVIOUS
<1> QED
  BY <1>3, <1>4

-----------------------------------------------------------------------------
(* The invariant *)

\* How far reading and writing are from each other in each loop.
Progress ==
  /\ fn = "hex_to_bytes" =>
       Len(out) = Len(in) \div 2 /\ j = i /\ i <= Len(in) \div 2
  /\ fn = "bytes_to_hex" =>
       Len(out) = 2 * Len(in) + 1 /\ j = 2 * i /\ i <= Len(in)
  /\ fn = "base64_encode" =>
       Len(out) = EncodedLen(Len(in)) + 1 /\ j = 4 * i /\ i <= (Len(in) + 2) \div 3
  /\ fn = "base64_decode" =>
       /\ Len(in) % 4 = 0 /\ 4 * i <= Len(in) /\ j <= 3 * i
       /\ outLen = DecodedLen(in) /\ Len(out) = outLen

IInv == TypeOK /\ Progress /\ InBounds

LEMMA UnitsPositive == Byte \in Nat \ {0} /\ Digit \in Nat \ {0} /\ Nibble \in Nat \ {0}
  BY Units

USE WidthAssumption, UnitsPositive

LEMMA InitEstablishes == Init => IInv
<1> SUFFICES ASSUME Init PROVE IInv
  OBVIOUS
<1>1. TypeOK
  BY Zenon DEF Init, TypeOK
<1>2. Progress
  BY DEF Init, Progress
<1>3. InBounds
  BY DEF Init, InBounds
<1> QED
  BY <1>1, <1>2, <1>3 DEF IInv

\* *out_len of base64_decode does not wrap, and leaves room for the first byte
\* of the last group.
LEMMA DecodedLenBound ==
  ASSUME NEW C, NEW text \in Seq(C), Len(text) % 4 = 0
  PROVE  /\ DecodedLen(text) \in Nat
         /\ \A g \in Nat : 4 * g < Len(text) => 3 * g < DecodedLen(text)
<1>1. Padding(text) \in 0 .. 2 /\ (Len(text) = 0 => Padding(text) = 0)
  BY DEF Padding
<1>2. PICK q \in Nat : Len(text) = 4 * q /\ Len(text) \div 4 = q
  BY Z3
<1> QED
  BY <1>1, <1>2 DEF DecodedLen

-----------------------------------------------------------------------------
(* What the functions store *)

LEMMA HexByteType ==
  ASSUME NEW hi \in 0 .. Nibble - 1, NEW lo \in 0 .. Nibble - 1
  PROVE  HexByte(hi, lo) \in Bytes
<1>1. hi * Nibble + lo \in Int
  OBVIOUS
<1> QED
  BY <1>1 DEF HexByte, Bytes

LEMMA DigitType ==
  ASSUME NEW val \in Int, NEW unit \in Nat \ {0}
  PROVE  DigitOf(val, unit) \in 0 .. Digit - 1
<1>1. val \div unit \in Int
  OBVIOUS
<1> QED
  BY <1>1 DEF DigitOf

LEMMA UnitType ==
  /\ Digit * Digit \in Nat \ {0} /\ Digit * Digit * Digit \in Nat \ {0}
  /\ Byte * Byte \in Nat \ {0}
<1>1. \A a, b \in Nat \ {0} : a * b \in Nat \ {0}
  OBVIOUS
<1> QED
  BY <1>1

LEMMA TripleType ==
  ASSUME in \in Seq(Bytes), i \in Nat, 3 * i < Len(in)
  PROVE  Triple \in Int
<1> DEFINE byte(k) == IF k < Len(in) THEN At(k) ELSE 0
<1>1. \A k \in Nat : byte(k) \in Int
  BY DEF At, Bytes
<1>2. byte(3*i) \in Int /\ byte(3*i + 1) \in Int /\ byte(3*i + 2) \in Int
  BY <1>1
<1> HIDE DEF byte
<1>3. byte(3*i) * Byte + byte(3*i + 1) \in Int
  BY <1>2
<1>4. (byte(3*i) * Byte + byte(3*i + 1)) * Byte + byte(3*i + 2) \in Int
  BY <1>2, <1>3
<1> QED
  BY <1>4 DEF Triple, byte

LEMMA ByteType ==
  ASSUME i \in Nat, GoodGroup, NEW unit \in Nat \ {0}
  PROVE  ByteOf(unit) \in Bytes
<1> DEFINE d(k) == IF At(4*i + k) = Pad THEN 0 ELSE At(4*i + k)
<1>1. \A k \in 0 .. 3 : d(k) \in Int
  BY DEF GoodGroup, IsDigit, At
<1>2. d(0) \in Int /\ d(1) \in Int /\ d(2) \in Int /\ d(3) \in Int
  BY <1>1
<1> HIDE DEF d
<1>3. d(0) * Digit + d(1) \in Int
  BY <1>2
<1>4. (d(0) * Digit + d(1)) * Digit + d(2) \in Int
  BY <1>2, <1>3
<1>5. ((d(0) * Digit + d(1)) * Digit + d(2)) * Digit + d(3) \in Int
  BY <1>2, <1>4
<1>6. GroupValue \in Int
  BY <1>5 DEF GroupValue, d
<1>7. GroupValue \div unit \in Int
  BY <1>6
<1> QED
  BY <1>7 DEF ByteOf, Bytes

\* Two sequences of one kind make a sequence of it as long as both.
LEMMA Concat ==
  ASSUME NEW C, NEW s \in Seq(C), NEW t \in Seq(C)
  PROVE  s \o t \in Seq(C) /\ Len(s \o t) = Len(s) + Len(t)
  OBVIOUS

\* A group gives one to three bytes, and no byte beyond *out_len but the first.
LEMMA GroupType ==
  ASSUME i \in Nat, j \in Nat, outLen \in Nat, GoodGroup
  PROVE  /\ GroupBytes \in Seq(Bytes)
         /\ Len(GroupBytes) \in 1 .. 3
         /\ j < outLen => j + Len(GroupBytes) <= outLen
<1> DEFINE first  == <<ByteOf(Byte * Byte)>>
           second == IF At(4*i + 2) # Pad /\ j + 1 < outLen THEN <<ByteOf(Byte)>> ELSE <<>>
           third  == IF At(4*i + 3) # Pad /\ j + 1 + Len(second) < outLen
                     THEN <<ByteOf(1)>> ELSE <<>>
<1>1. ByteOf(Byte * Byte) \in Bytes /\ ByteOf(Byte) \in Bytes /\ ByteOf(1) \in Bytes
  BY ByteType, UnitType
<1>2. first \in Seq(Bytes) /\ Len(first) = 1
  BY <1>1
<1>3. /\ second \in Seq(Bytes)
      /\ Len(second) = 0 \/ (Len(second) = 1 /\ j + 1 < outLen)
  BY <1>1
<1> HIDE DEF second
<1>4. /\ third \in Seq(Bytes)
      /\ Len(third) = 0 \/ (Len(third) = 1 /\ j + 1 + Len(second) < outLen)
  BY <1>1
<1> HIDE DEF first, third
<1>5. /\ first \o second \o third \in Seq(Bytes)
      /\ Len(first \o second \o third) = Len(first) + Len(second) + Len(third)
  <2>1. first \o second \in Seq(Bytes) /\ Len(first \o second) = Len(first) + Len(second)
    BY <1>2, <1>3, Concat
  <2> DEFINE both == first \o second
  <2> HIDE DEF both
  <2>2. both \o third \in Seq(Bytes) /\ Len(both \o third) = Len(both) + Len(third)
    BY <1>4, <2>1, Concat DEF both
  <2> QED
    BY <2>1, <2>2 DEF both
<1>6. GroupBytes = first \o second \o third
  BY DEF GroupBytes, first, second, third
<1> QED
  BY <1>2, <1>3, <1>4, <1>5, <1>6

-----------------------------------------------------------------------------
(* Every step preserves the invariant *)

\* A call starts with an empty buffer of the right size.
LEMMA CallPreserves ==
  ASSUME IInv,
         NEW f \in Functions, NEW argument \in Seq(InChars[f]),
         NEW buffer \in Nat, NEW len \in Nat \cup {Junk},
         Call(f, argument, buffer, len),
         /\ f = "hex_to_bytes" => buffer = Len(argument) \div 2
         /\ f = "bytes_to_hex" => buffer = 2 * Len(argument) + 1
         /\ f = "base64_encode" => buffer = EncodedLen(Len(argument)) + 1
         /\ f = "base64_decode" =>
              /\ Len(argument) % 4 = 0
              /\ len = DecodedLen(argument) /\ buffer = len
  PROVE  IInv'
<1>1. /\ fn' = f /\ in' = argument /\ i' = 0 /\ out' = Fresh(buffer) /\ j' = 0
      /\ outLen' = len /\ overrun' = overrun /\ coded' = coded
  BY DEF Call
<1>2. out' \in Seq(OutChars[f] \cup {Junk}) /\ Len(out') = buffer
  BY <1>1, FreshBuffer
<1>3. TypeOK'
  <2>1. fn' \in Functions \cup {"idle"} /\ in' \in Seq(InChars[fn'])
    BY <1>1
  <2>2. \A k \in 1 .. Len(out') : ~(k <= j')
    BY <1>1, <1>2
  <2> QED
    BY <1>1, <1>2, <2>1, <2>2 DEF IInv, TypeOK
<1>4. Progress'
  <2>1. Len(argument) \in Nat
    OBVIOUS
  <2>2. 0 <= Len(argument) \div 2 /\ 0 <= (Len(argument) + 2) \div 3
    BY <2>1
  <2> QED
    BY <1>1, <1>2, <2>1, <2>2 DEF Progress
<1> QED
  BY <1>1, <1>3, <1>4 DEF IInv, InBounds

\* A store of bytes or digits of the right kind keeps the types.
LEMMA WritePreservesType ==
  ASSUME TypeOK, fn # "idle", Step,
         NEW bytes \in Seq(OutChars[fn]), Write(bytes)
  PROVE  TypeOK' /\ Len(out') = Len(out) /\ j' = j + Len(bytes) /\ i' = i + 1
<1> DEFINE C == OutChars[fn]
<1>1. /\ out \in Seq(C \cup {Junk}) /\ j \in Nat /\ i \in Nat /\ bytes \in Seq(C)
      /\ \A k \in 1 .. Len(out) : k <= j => out[k] \in C
  BY DEF TypeOK
<1>2. /\ j' = j + Len(bytes) /\ i' = i + 1
      /\ out' = [k \in 1 .. Len(out) |-> IF k - j \in 1 .. Len(bytes) THEN bytes[k - j] ELSE out[k]]
      /\ overrun' \in BOOLEAN
      /\ fn' = fn /\ in' = in /\ outLen' = outLen /\ coded' = coded
  BY DEF Write, Step
<1> HIDE DEF C
<1>3. /\ out' \in Seq(C \cup {Junk}) /\ Len(out') = Len(out)
      /\ \A k \in 1 .. Len(out') : k <= j + Len(bytes) => out'[k] \in C
  BY <1>1, <1>2, Written
<1>4. i' \in Nat /\ j' \in Nat
  BY <1>1, <1>2
<1> USE DEF C
<1> QED
  BY <1>2, <1>3, <1>4 DEF TypeOK

\* When a function returns nothing is left of its frame.
LEMMA ReturnPreserves ==
  ASSUME IInv, NEW value, NEW len, Return(value, len),
         UNCHANGED <<overrun, coded>>
  PROVE  IInv'
<1>1. /\ fn' = "idle" /\ i' = 0 /\ j' = 0 /\ outLen' = 0
      /\ overrun' = overrun /\ coded' = coded
  BY DEF Return
<1>2. TypeOK'
  BY <1>1, Zenon DEF IInv, TypeOK
<1>3. Progress'
  BY <1>1 DEF Progress
<1> QED
  BY <1>1, <1>2, <1>3 DEF IInv, InBounds

\* The text an encoder leaves has no gap.
LEMMA TextType ==
  ASSUME TypeOK, fn # "idle", j < Len(out)
  PROVE  SubSeq(out, 1, j) \in Seq(OutChars[fn])
<1> DEFINE C == OutChars[fn]
           text == SubSeq(out, 1, j)
<1>1. /\ out \in Seq(C \cup {Junk}) /\ j \in Nat
      /\ \A k \in 1 .. Len(out) : k <= j => out[k] \in C
  BY DEF TypeOK
<1> HIDE DEF C
<1>2. \A k \in 1 .. j : text[k] \in C
  BY <1>1
<1>3. text \in Seq(C \cup {Junk}) /\ Len(text) = j
  BY <1>1
<1> HIDE DEF text
<1>4. text \in [1 .. j -> C]
  BY <1>2, <1>3
<1>5. text \in Seq(C)
  <2>1. Len(text) \in Nat /\ \A k \in 1 .. Len(text) : text[k] \in C
    BY <1>1, <1>2, <1>3
  <2> QED
    BY <1>1, <1>4, AsSequence
<1> QED
  BY <1>5 DEF C, text

\* The '\\0' after the text an encoder leaves fits.
LEMMA EncodedPreserves ==
  ASSUME IInv, fn \in {"bytes_to_hex", "base64_encode"}, j < Len(out), Encoded
  PROVE  IInv'
<1> DEFINE C == OutChars[fn]
           text == SubSeq(out, 1, j)
<1>1. /\ fn' = "idle" /\ i' = 0 /\ j' = 0 /\ outLen' = 0
      /\ overrun' = (overrun \/ j + 1 > Len(out))
      /\ coded' = [fn |-> fn, data |-> in, text |-> text]
  BY DEF Encoded, Return
<1>2. /\ out \in Seq(C \cup {Junk}) /\ j \in Nat
      /\ \A k \in 1 .. Len(out) : k <= j => out[k] \in C
      /\ in \in Seq(InChars[fn]) /\ InChars[fn] = Bytes
  <2>1. fn # "idle"
    OBVIOUS
  <2>2. InChars[fn] = Bytes
    BY DEF InChars
  <2>3. /\ out \in Seq(C \cup {Junk}) /\ j \in Nat /\ in \in Seq(InChars[fn])
        /\ \A k \in 1 .. Len(out) : k <= j => out[k] \in C
    BY <2>1 DEF IInv, TypeOK
  <2> QED
    BY <2>2, <2>3
<1> HIDE DEF C
<1>3. text \in Seq(C)
  <2>1. TypeOK /\ fn # "idle"
    BY DEF IInv
  <2> QED
    BY <2>1, TextType DEF C
<1>4. ~overrun'
  <2>1. ~(j + 1 > Len(out))
    BY <1>2
  <2> QED
    BY <1>1, <2>1, Zenon DEF IInv, InBounds
<1> USE DEF C
<1>5. TypeOK'
  <2>1. coded'.fn = fn /\ coded'.data = in /\ coded'.text = text
    BY <1>1
  <2>2. coded'.text \in Seq(OutChars[coded'.fn])
    BY <1>3, <2>1
  <2>3. overrun' \in BOOLEAN
    BY <1>1
  <2> QED
    BY <1>1, <1>2, <2>1, <2>2, <2>3 DEF TypeOK
<1>6. Progress'
  BY <1>1 DEF Progress
<1> QED
  BY <1>4, <1>5, <1>6 DEF IInv, InBounds

LEMMA StartPreserves ==
  ASSUME IInv, Free, Start
  PROVE  IInv'
<1>1. \A s \in Seq(Bytes) : EncodedLen(Len(s)) + 1 \in Nat
  <2> SUFFICES ASSUME NEW s \in Seq(Bytes) PROVE EncodedLen(Len(s)) + 1 \in Nat
    OBVIOUS
  <2>1. Len(s) \in Nat
    OBVIOUS
  <2> QED
    BY <2>1 DEF EncodedLen
<1>2. ASSUME NEW data \in Data, CallBytesToHex(data)
      PROVE  IInv'
  <2>1. data \in Seq(InChars["bytes_to_hex"]) /\ 2 * Len(data) + 1 \in Nat
    BY InputAssumption DEF InChars
  <2> QED
    BY <1>2, <2>1, CallPreserves DEF CallBytesToHex, Functions
<1>3. ASSUME NEW data \in Data, CallBase64Encode(data)
      PROVE  IInv'
  <2>1. data \in Seq(InChars["base64_encode"]) /\ EncodedLen(Len(data)) + 1 \in Nat
    BY <1>1, InputAssumption DEF InChars
  <2> QED
    BY <1>3, <2>1, CallPreserves DEF CallBase64Encode, Functions
<1>4. ASSUME NEW text \in Presented("bytes_to_hex", HexTexts), CallHexToBytes(text)
      PROVE  IInv'
  <2>1. text \in Seq(HexChars)
    BY <1>4, InputAssumption DEF IInv, TypeOK, Presented, OutChars
  <2>2. text \in Seq(InChars["hex_to_bytes"])
    BY <2>1 DEF InChars
  <2>3. Len(text) \div 2 \in Nat
    BY <2>1
  <2> QED
    BY <1>4, <2>2, <2>3, CallPreserves DEF CallHexToBytes, Functions
<1>5. ASSUME NEW text \in Presented("base64_encode", Base64Texts), CallBase64Decode(text)
      PROVE  IInv'
  <2>1. text \in Seq(Base64Chars)
    BY <1>5, InputAssumption DEF IInv, TypeOK, Presented, OutChars
  <2>2. text \in Seq(InChars["base64_decode"])
    BY <2>1 DEF InChars
  <2>3. Len(text) % 4 = 0 /\ Call("base64_decode", text, DecodedLen(text), DecodedLen(text))
    BY <1>5 DEF CallBase64Decode
  <2>4. DecodedLen(text) \in Nat
    BY <2>1, <2>3, DecodedLenBound
  <2> QED
    BY <2>2, <2>3, <2>4, CallPreserves DEF Functions
<1>6. ASSUME NEW text \in Presented("base64_encode", Base64Texts), RefuseLength(text)
      PROVE  IInv'
  BY <1>6 DEF RefuseLength, IInv, TypeOK, Progress, InBounds
<1> QED
  BY <1>2, <1>3, <1>4, <1>5, <1>6 DEF Start

LEMMA HexPairPreserves ==
  ASSUME IInv, HexPair
  PROVE  IInv'
<1> DEFINE b == HexByte(At(2 * i), At(2 * i + 1))
<1>1. /\ fn = "hex_to_bytes" /\ i < Len(in) \div 2 /\ Write(<<b>>) /\ Step
      /\ fn' = fn /\ in' = in /\ outLen' = outLen
  BY DEF HexPair, Step
<1>2. b \in Bytes
  BY HexByteType DEF HexPair, IsNibble
<1> HIDE DEF b
<1>3. <<b>> \in Seq(OutChars[fn]) /\ Len(<<b>>) = 1
  BY <1>1, <1>2 DEF OutChars
<1>4. TypeOK' /\ Len(out') = Len(out) /\ j' = j + 1 /\ i' = i + 1
  BY <1>1, <1>3, WritePreservesType DEF IInv
<1>5. /\ i \in Nat /\ j = i /\ Len(out) = Len(in) \div 2 /\ Len(in) \in Nat
  BY <1>1 DEF IInv, TypeOK, Progress
<1>6. Progress'
  BY <1>1, <1>4, <1>5 DEF Progress
<1>7. InBounds'
  <2>1. ~(j + Len(<<b>>) > Len(out))
    BY <1>1, <1>3, <1>5
  <2> QED
    BY <1>1, <2>1, Zenon DEF Write, IInv, InBounds
<1> QED
  BY <1>4, <1>6, <1>7 DEF IInv

LEMMA ByteToHexPreserves ==
  ASSUME IInv, ByteToHex
  PROVE  IInv'
<1> DEFINE b == <<(At(i) \div Nibble) % Nibble, At(i) % Nibble>>
<1>1. /\ fn = "bytes_to_hex" /\ i < Len(in) /\ Write(b) /\ Step
      /\ fn' = fn /\ in' = in /\ outLen' = outLen
  BY DEF ByteToHex, Step
<1>2. /\ i \in Nat /\ j = 2 * i /\ Len(out) = 2 * Len(in) + 1
      /\ Len(in) \in Nat /\ in \in Seq(Bytes)
  BY <1>1 DEF IInv, TypeOK, Progress, InChars
<1>3. b \in Seq(OutChars[fn]) /\ Len(b) = 2
  <2>1. At(i) \in Int
    BY <1>1, <1>2 DEF At, Bytes
  <2>2. At(i) \div Nibble \in Int
    BY <2>1
  <2>3. (At(i) \div Nibble) % Nibble \in HexChars /\ At(i) % Nibble \in HexChars
    BY <2>1, <2>2 DEF HexChars
  <2> QED
    BY <1>1, <2>3 DEF OutChars
<1> HIDE DEF b
<1>4. TypeOK' /\ Len(out') = Len(out) /\ j' = j + 2 /\ i' = i + 1
  BY <1>1, <1>3, WritePreservesType DEF IInv
<1>5. Progress'
  BY <1>1, <1>2, <1>4 DEF Progress
<1>6. InBounds'
  <2>1. ~(j + Len(b) > Len(out))
    BY <1>1, <1>2, <1>3
  <2> QED
    BY <1>1, <2>1, Zenon DEF Write, IInv, InBounds
<1> QED
  BY <1>4, <1>5, <1>6 DEF IInv

LEMMA EncodeTriplePreserves ==
  ASSUME IInv, EncodeTriple
  PROVE  IInv'
<1> DEFINE b == <<DigitOf(Triple, Digit * Digit * Digit),
                  DigitOf(Triple, Digit * Digit),
                  IF 3*i + 1 < Len(in) THEN DigitOf(Triple, Digit) ELSE Pad,
                  IF 3*i + 2 < Len(in) THEN DigitOf(Triple, 1) ELSE Pad>>
<1>1. /\ fn = "base64_encode" /\ 3 * i < Len(in) /\ Write(b) /\ Step
      /\ fn' = fn /\ in' = in /\ outLen' = outLen
  BY DEF EncodeTriple, Step
<1>2. /\ i \in Nat /\ j = 4 * i /\ Len(out) = EncodedLen(Len(in)) + 1
      /\ Len(in) \in Nat /\ in \in Seq(Bytes)
  BY <1>1 DEF IInv, TypeOK, Progress, InChars
<1>3. b \in Seq(OutChars[fn]) /\ Len(b) = 4
  <2>1. Triple \in Int
    BY <1>1, <1>2, TripleType
  <2>2. \A unit \in Nat \ {0} : DigitOf(Triple, unit) \in Base64Chars
    BY <2>1, DigitType DEF Base64Chars
  <2>3. /\ DigitOf(Triple, Digit * Digit * Digit) \in Base64Chars
        /\ DigitOf(Triple, Digit * Digit) \in Base64Chars
        /\ DigitOf(Triple, Digit) \in Base64Chars
        /\ DigitOf(Triple, 1) \in Base64Chars
        /\ Pad \in Base64Chars
    BY <2>2, UnitType DEF Base64Chars
  <2>4. OutChars[fn] = Base64Chars
    BY <1>1 DEF OutChars
  <2> QED
    BY <2>3, <2>4
<1> HIDE DEF b
<1>4. TypeOK' /\ Len(out') = Len(out) /\ j' = j + 4 /\ i' = i + 1
  BY <1>1, <1>3, WritePreservesType DEF IInv
<1>5. i + 1 <= (Len(in) + 2) \div 3
  BY <1>1, <1>2
<1>6. Progress'
  BY <1>1, <1>2, <1>4, <1>5 DEF Progress
<1>7. InBounds'
  <2>1. ~(j + Len(b) > Len(out))
    BY <1>2, <1>3, <1>5 DEF EncodedLen
  <2> QED
    BY <1>1, <2>1, Zenon DEF Write, IInv, InBounds
<1> QED
  BY <1>4, <1>6, <1>7 DEF IInv

\* The first byte of a group is stored unconditionally: there is room for it
\* because the groups before gave at most three bytes each and at most two
\* bytes are missing at the end.
LEMMA DecodeGroupPreserves ==
  ASSUME IInv, DecodeGroup
  PROVE  IInv'
<1>1. /\ fn = "base64_decode" /\ 4 * i < Len(in) /\ GoodGroup
      /\ Write(GroupBytes) /\ Step
      /\ fn' = fn /\ in' = in /\ outLen' = outLen
  BY DEF DecodeGroup, Step
<1>2. /\ i \in Nat /\ j \in Nat /\ j <= 3 * i /\ Len(in) % 4 = 0
      /\ outLen = DecodedLen(in) /\ Len(out) = outLen
      /\ Len(in) \in Nat /\ in \in Seq(Base64Chars)
  BY <1>1 DEF IInv, TypeOK, Progress, InChars
<1>3. outLen \in Nat /\ j < outLen
  BY <1>1, <1>2, DecodedLenBound
<1>4. /\ GroupBytes \in Seq(Bytes) /\ Len(GroupBytes) \in 1 .. 3
      /\ j + Len(GroupBytes) <= outLen
  BY <1>1, <1>2, <1>3, GroupType
<1>5. GroupBytes \in Seq(OutChars[fn])
  BY <1>1, <1>4 DEF OutChars
<1>6. TypeOK' /\ Len(out') = Len(out) /\ j' = j + Len(GroupBytes) /\ i' = i + 1
  BY <1>1, <1>5, WritePreservesType DEF IInv
<1>7. 4 * (i + 1) <= Len(in)
  BY <1>1, <1>2
<1>8. j' <= 3 * (i + 1)
  <2>1. \A n \in 1 .. 3 : j + n <= 3 * (i + 1)
    BY <1>2
  <2> QED
    BY <1>4, <1>6, <2>1
<1>9. Progress'
  BY <1>1, <1>2, <1>6, <1>7, <1>8 DEF Progress
<1>10. InBounds'
  <2>1. ~(j + Len(GroupBytes) > Len(out))
    BY <1>2, <1>3, <1>4
  <2> QED
    BY <1>1, <2>1, Zenon DEF Write, IInv, InBounds
<1> QED
  BY <1>6, <1>9, <1>10 DEF IInv

LEMMA NextPreserves == IInv /\ [Next]_vars => IInv'
<1> SUFFICES ASSUME IInv, [Next]_vars PROVE IInv'
  OBVIOUS
<1>1. CASE Free /\ Start
  BY <1>1, StartPreserves
<1>2. CASE RefuseHex
  BY <1>2, ReturnPreserves DEF RefuseHex
<1>3. CASE HexPair
  BY <1>3, HexPairPreserves
<1>4. CASE ReturnBytes
  BY <1>4, ReturnPreserves DEF ReturnBytes
<1>5. CASE ByteToHex
  BY <1>5, ByteToHexPreserves
<1>6. CASE ReturnHex
  <2>1. fn = "bytes_to_hex" /\ i = Len(in) /\ Encoded
    BY <1>6 DEF ReturnHex
  <2>2. j < Len(out)
    BY <2>1 DEF IInv, TypeOK, Progress
  <2> QED
    BY <2>1, <2>2, EncodedPreserves
<1>7. CASE EncodeTriple
  BY <1>7, EncodeTriplePreserves
<1>8. CASE ReturnBase64
  <2>1. fn = "base64_encode" /\ Encoded
    BY <1>8 DEF ReturnBase64
  <2>2. Len(in) \in Nat /\ i \in Nat
    BY <2>1 DEF IInv, TypeOK
  <2>3. j < Len(out)
    BY <2>1, <2>2 DEF IInv, Progress, EncodedLen
  <2> QED
    BY <2>1, <2>3, EncodedPreserves
<1>9. CASE RefuseGroup
  BY <1>9, ReturnPreserves DEF RefuseGroup
<1>10. CASE DecodeGroup
  BY <1>10, DecodeGroupPreserves
<1>11. CASE ReturnDecoded
  BY <1>11, ReturnPreserves DEF ReturnDecoded
<1>12. CASE Consume
  BY <1>12 DEF Consume, IInv, TypeOK, Progress, InBounds
<1>13. CASE UNCHANGED vars
  BY <1>13 DEF vars, IInv, TypeOK, Progress, InBounds
<1> QED
  BY <1>1, <1>2, <1>3, <1>4, <1>5, <1>6, <1>7, <1>8, <1>9, <1>10, <1>11, <1>12, <1>13 DEF Next

-----------------------------------------------------------------------------
(* What the loops have done is an invariant *)

AnswersInv == IInv /\ LoopInv /\ CodedInv /\ SourceInv /\ RetInv

\* What a store changes and what it leaves.
LEMMA Stored ==
  ASSUME j \in Nat, NEW b, Len(b) \in Nat, Write(b)
  PROVE  /\ \A k \in 1 .. Len(out) : k <= j => out'[k] = out[k]
         /\ \A m \in 1 .. Len(b) : j + m \in 1 .. Len(out) => out'[j + m] = b[m]
<1>1. out' = [k \in 1 .. Len(out) |-> IF k - j \in 1 .. Len(b) THEN b[k - j] ELSE out[k]]
  BY DEF Write
<1>2. ASSUME NEW k \in 1 .. Len(out), k <= j
      PROVE  out'[k] = out[k]
  <2>1. ~(k - j \in 1 .. Len(b))
    BY <1>2
  <2> QED
    BY <1>1, <2>1
<1>3. ASSUME NEW m \in 1 .. Len(b), j + m \in 1 .. Len(out)
      PROVE  out'[j + m] = b[m]
  <2>1. (j + m) - j = m
    OBVIOUS
  <2> QED
    BY <1>1, <1>3, <2>1
<1> QED
  BY <1>2, <1>3

\* What the loops compute of a group is what the definitions above say.
LEMMA GroupNumbers ==
  ASSUME i \in Nat
  PROVE  Triple = TripleOf(in, i) /\ GroupValue = QuadOf(in, i) /\ (GoodGroup <=> GoodGroupOf(in, i))
<1>1. Triple = TripleOf(in, i)
  BY DEF Triple, TripleOf, ByteAt, At
<1>2. GroupValue = QuadOf(in, i)
  <2>1. 4*i + 0 = 4*i
    OBVIOUS
  <2> QED
    BY <2>1 DEF GroupValue, QuadOf, DigitAt, At
<1>3. GoodGroup <=> GoodGroupOf(in, i)
  <2>1. (4*i + 1) + 1 = 4*i + 2 /\ (4*i + 2) + 1 = 4*i + 3 /\ (4*i + 3) + 1 = 4*i + 4
    OBVIOUS
  <2>2. GoodGroup <=> /\ IsDigit(in[4*i + 1]) /\ IsDigit(in[4*i + 2])
                      /\ in[4*i + 3] = Pad \/ IsDigit(in[4*i + 3])
                      /\ in[4*i + 4] = Pad \/ IsDigit(in[4*i + 4])
    <3>1. 2 .. 3 = {2, 3}
      OBVIOUS
    <3> QED
      BY <2>1, <3>1 DEF GoodGroup, At
  <2>3. 3 .. 4 = {3, 4}
    OBVIOUS
  <2> QED
    BY <2>2, <2>3 DEF GoodGroupOf
<1> QED
  BY <1>1, <1>2, <1>3

LEMMA HexPairDone ==
  ASSUME IInv, LoopInv, HexPair
  PROVE  BytesDone(out', in, i + 1)
<1> DEFINE b == <<HexByte(At(2 * i), At(2 * i + 1))>>
<1>1. /\ fn = "hex_to_bytes" /\ i < Len(in) \div 2
      /\ IsNibble(At(2 * i)) /\ IsNibble(At(2 * i + 1))
      /\ Write(b)
  BY DEF HexPair
<1>2. i \in Nat /\ j = i /\ Len(out) = Len(in) \div 2 /\ Len(in) \in Nat
  BY <1>1 DEF IInv, TypeOK, Progress
<1>4. Len(b) = 1 /\ b[1] = HexByte(in[2 * i + 1], in[2 * i + 2])
  <2>1. (2 * i + 1) + 1 = 2 * i + 2
    BY <1>2
  <2> QED
    BY <2>1 DEF At
<1> HIDE DEF b
<1>3. i + 1 \in 1 .. Len(out)
  BY <1>1, <1>2
<1>5. /\ \A k \in 1 .. Len(out) : k <= i => out'[k] = out[k]
      /\ out'[i + 1] = b[1]
  <2>1. \A k \in 1 .. Len(out) : k <= j => out'[k] = out[k]
    BY <1>1, <1>2, <1>4, Stored
  <2>2. \A m \in 1 .. Len(b) : j + m \in 1 .. Len(out) => out'[j + m] = b[m]
    BY <1>1, <1>2, <1>4, Stored
  <2> QED
    BY <1>2, <1>3, <1>4, <2>1, <2>2
<1>7. BytesDone(out, in, i)
  BY <1>1 DEF LoopInv
<1>8. ASSUME NEW g \in 1 .. i + 1
      PROVE  /\ IsNibble(in[2*g - 1]) /\ IsNibble(in[2*g])
             /\ out'[g] = HexByte(in[2*g - 1], in[2*g])
  <2>1. CASE g <= i
    <3>1. g \in 1 .. i /\ g \in 1 .. Len(out)
      BY <1>2, <1>3, <2>1
    <3> QED
      BY <1>5, <1>7, <2>1, <3>1 DEF BytesDone
  <2>2. CASE g = i + 1
    <3>1. 2*g - 1 = 2 * i + 1 /\ 2*g = 2 * i + 2 /\ (2 * i + 1) + 1 = 2 * i + 2
      BY <1>2, <2>2
    <3> QED
      BY <1>1, <1>4, <1>5, <1>3, <2>2, <3>1 DEF At
  <2> QED
    BY <1>2, <2>1, <2>2
<1> QED
  BY <1>8 DEF BytesDone

LEMMA ByteToHexDone ==
  ASSUME IInv, LoopInv, ByteToHex
  PROVE  HexDone(out', in, i + 1)
<1> DEFINE b == <<(At(i) \div Nibble) % Nibble, At(i) % Nibble>>
<1>1. /\ fn = "bytes_to_hex" /\ i < Len(in)
      /\ Write(b)
  BY DEF ByteToHex
<1>2. i \in Nat /\ j = 2 * i /\ Len(out) = 2 * Len(in) + 1 /\ Len(in) \in Nat
  BY <1>1 DEF IInv, TypeOK, Progress
<1>4. Len(b) = 2 /\ b[1] = (in[i + 1] \div Nibble) % Nibble /\ b[2] = in[i + 1] % Nibble
  BY DEF At
<1> HIDE DEF b
<1>5. j + 1 \in 1 .. Len(out) /\ j + 2 \in 1 .. Len(out) /\ j \in Nat
  BY <1>1, <1>2
<1>6. /\ \A k \in 1 .. Len(out) : k <= j => out'[k] = out[k]
      /\ out'[j + 1] = b[1] /\ out'[j + 2] = b[2]
  <2>1. Len(b) \in Nat /\ j \in Nat /\ Write(b)
    BY <1>1, <1>4, <1>5
  <2>2. \A k \in 1 .. Len(out) : k <= j => out'[k] = out[k]
    BY <2>1, Stored
  <2>3. \A m \in 1 .. Len(b) : j + m \in 1 .. Len(out) => out'[j + m] = b[m]
    BY <2>1, Stored
  <2> QED
    BY <1>4, <1>5, <2>2, <2>3
<1>7. HexDone(out, in, i)
  BY <1>1 DEF LoopInv
<1>8. ASSUME NEW g \in 1 .. i + 1
      PROVE  out'[2*g - 1] = (in[g] \div Nibble) % Nibble /\ out'[2*g] = in[g] % Nibble
  <2>1. CASE g <= i
    <3>1. /\ g \in 1 .. i /\ 2*g - 1 \in 1 .. Len(out) /\ 2*g \in 1 .. Len(out)
          /\ 2*g - 1 <= j /\ 2*g <= j
      BY <1>1, <1>2, <2>1
    <3> QED
      BY <1>6, <1>7, <3>1 DEF HexDone
  <2>2. CASE g = i + 1
    <3>1. 2*g - 1 = j + 1 /\ 2*g = j + 2
      BY <1>2, <2>2
    <3> QED
      BY <1>4, <1>6, <2>2, <3>1
  <2> QED
    BY <1>2, <2>1, <2>2
<1> QED
  BY <1>8 DEF HexDone

LEMMA EncodeTripleDone ==
  ASSUME IInv, LoopInv, EncodeTriple
  PROVE  Base64Done(out', in, i + 1)
<1> DEFINE stored == <<DigitOf(Triple, Digit * Digit * Digit),
                       DigitOf(Triple, Digit * Digit),
                       IF 3*i + 1 < Len(in) THEN DigitOf(Triple, Digit) ELSE Pad,
                       IF 3*i + 2 < Len(in) THEN DigitOf(Triple, 1) ELSE Pad>>
<1>1. fn = "base64_encode" /\ 3 * i < Len(in) /\ Write(stored)
  BY DEF EncodeTriple
<1>2. i \in Nat /\ j = 4 * i /\ Len(out) = EncodedLen(Len(in)) + 1 /\ Len(in) \in Nat
  BY <1>1 DEF IInv, TypeOK, Progress
<1>3. ASSUME NEW c \in 0 .. 3
      PROVE  stored[c + 1] = EncodedChar(in, i, c)
  <2>1. Triple = TripleOf(in, i)
    BY <1>2, GroupNumbers
  <2>2. c = 0 \/ c = 1 \/ c = 2 \/ c = 3
    OBVIOUS
  <2>3. CASE c = 0
    <3>1. stored[1] = (TripleOf(in, i) \div (Digit * Digit * Digit)) % Digit
      BY <2>1 DEF DigitOf
    <3> QED
      BY <2>3, <3>1, GroupUnits DEF EncodedChar
  <2>4. CASE c = 1
    <3>1. stored[2] = (TripleOf(in, i) \div (Digit * Digit)) % Digit
      BY <2>1 DEF DigitOf
    <3> QED
      BY <2>4, <3>1, GroupUnits DEF EncodedChar
  <2>5. CASE c = 2
    <3>1. stored[3] = IF 3*i + 1 < Len(in) THEN (TripleOf(in, i) \div Digit) % Digit ELSE Pad
      BY <2>1 DEF DigitOf
    <3>2. 3*i + 2 - 1 = 3*i + 1
      BY <1>2
    <3> QED
      BY <2>5, <3>1, <3>2, GroupUnits DEF EncodedChar
  <2>6. CASE c = 3
    <3>1. stored[4] = IF 3*i + 2 < Len(in) THEN (TripleOf(in, i) \div 1) % Digit ELSE Pad
      BY <2>1 DEF DigitOf
    <3>2. 3*i + 3 - 1 = 3*i + 2
      BY <1>2
    <3> QED
      BY <2>6, <3>1, <3>2, GroupUnits DEF EncodedChar
  <2> QED
    BY <2>2, <2>3, <2>4, <2>5, <2>6
<1>4. Len(stored) = 4
  OBVIOUS
<1> HIDE DEF stored
<1>5. i + 1 <= (Len(in) + 2) \div 3
  BY <1>1, <1>2
<1>6. \A m \in 1 .. 4 : j + m \in 1 .. Len(out)
  BY <1>2, <1>5 DEF EncodedLen
<1>7. /\ \A k \in 1 .. Len(out) : k <= j => out'[k] = out[k]
      /\ \A m \in 1 .. 4 : out'[j + m] = stored[m]
  <2>1. j \in Nat
    BY <1>2
  <2>2. \A k \in 1 .. Len(out) : k <= j => out'[k] = out[k]
    BY <1>1, <1>4, <2>1, Stored
  <2>3. \A m \in 1 .. Len(stored) : j + m \in 1 .. Len(out) => out'[j + m] = stored[m]
    BY <1>1, <1>4, <2>1, Stored
  <2> QED
    BY <1>4, <1>6, <2>2, <2>3
<1>8. Base64Done(out, in, i)
  BY <1>1 DEF LoopInv
<1>9. ASSUME NEW g \in 0 .. i, NEW c \in 0 .. 3
      PROVE  out'[4*g + c + 1] = EncodedChar(in, g, c)
  <2>1. CASE g < i
    <3>1. g \in 0 .. i - 1 /\ 4*g + c + 1 \in 1 .. Len(out) /\ 4*g + c + 1 <= j
      <4>1. g \in 0 .. i - 1 /\ 4*g + c + 1 <= j
        BY <1>2, <2>1
      <4>2. j + 1 \in 1 .. Len(out)
        BY <1>6
      <4>3. 4*g + c + 1 \in 1 .. Len(out)
        BY <1>2, <4>1, <4>2
      <4> QED
        BY <4>1, <4>3
    <3>2. out[4*g + c + 1] = EncodedChar(in, g, c)
      BY <1>8, <3>1 DEF Base64Done
    <3> QED
      BY <1>7, <3>1, <3>2
  <2>2. CASE g = i
    <3>1. PICK m \in 1 .. 4 : m = c + 1
      OBVIOUS
    <3>2. 4*g + c + 1 = j + m
      BY <1>2, <2>2, <3>1
    <3> QED
      BY <1>3, <1>7, <2>2, <3>1, <3>2
  <2> QED
    BY <1>2, <2>1, <2>2
<1>10. (i + 1) - 1 = i
  BY <1>2
<1> QED
  BY <1>9, <1>10 DEF Base64Done

LEMMA Joined ==
  ASSUME NEW x, NEW y, NEW z
  PROVE  /\ LET s == <<x>> \o <<y>> \o <<z>> IN Len(s) = 3 /\ s[1] = x /\ s[2] = y /\ s[3] = z
         /\ LET s == <<x>> \o <<y>> \o <<>> IN Len(s) = 2 /\ s[1] = x /\ s[2] = y
         /\ LET s == <<x>> \o <<>> \o <<>> IN Len(s) = 1 /\ s[1] = x
<1> DEFINE S == {x, y, z}
<1>1. /\ <<x>> \in Seq(S) /\ <<y>> \in Seq(S) /\ <<z>> \in Seq(S) /\ <<>> \in Seq(S)
      /\ Len(<<x>>) = 1 /\ Len(<<y>>) = 1 /\ Len(<<z>>) = 1
  OBVIOUS
<1> HIDE DEF S
<1>2. PICK t \in Seq(S) : t = <<x>> \o <<y>> /\ Len(t) = 2 /\ t[1] = x /\ t[2] = y
  <2>1. <<x>> \o <<y>> \in Seq(S)
    BY <1>1
  <2>2. Len(<<x>> \o <<y>>) = 2 /\ (<<x>> \o <<y>>)[1] = x /\ (<<x>> \o <<y>>)[2] = y
    BY <1>1
  <2> QED
    BY <2>1, <2>2
<1>3. PICK u \in Seq(S) : u = <<x>> \o <<>> /\ Len(u) = 1 /\ u[1] = x
  <2>1. <<x>> \o <<>> \in Seq(S)
    BY <1>1
  <2>2. Len(<<x>> \o <<>>) = 1 /\ (<<x>> \o <<>>)[1] = x
    BY <1>1
  <2> QED
    BY <2>1, <2>2
<1>4. LET s == t \o <<z>> IN Len(s) = 3 /\ s[1] = x /\ s[2] = y /\ s[3] = z
  BY <1>1, <1>2
<1>5. LET s == t \o <<>> IN Len(s) = 2 /\ s[1] = x /\ s[2] = y
  BY <1>1, <1>2
<1>6. LET s == u \o <<>> IN Len(s) = 1 /\ s[1] = x
  BY <1>1, <1>3
<1> QED
  BY <1>2, <1>3, <1>4, <1>5, <1>6

\* What base64_decode stores of a group of a Base64 text: three bytes, or as many
\* as are left.
LEMMA GroupStored ==
  ASSUME i \in Nat, in \in Seq(Base64Chars), IsBase64Text(in), 4 * i < Len(in),
         j = 3 * i, outLen = DecodedLen(in)
  PROVE  /\ outLen \in Nat
         /\ Len(GroupBytes) = IF 3 * (i + 1) <= outLen THEN 3 ELSE outLen - 3 * i
         /\ \A k \in 1 .. Len(GroupBytes) : GroupBytes[k] = DecodedByte(in, 3 * i + k - 1)
<1>1. PICK n \in 0 .. 2 : Pads(in) = Len(in) - n + 1 .. Len(in)
  BY DEF IsBase64Text
<1>2. PICK G \in Nat : Len(in) = 4 * G
  <2>1. PICK L \in Nat : L = Len(in)
    OBVIOUS
  <2>2. L % 4 = 0
    BY <2>1 DEF IsBase64Text
  <2>3. L \div 4 \in Nat /\ L = 4 * (L \div 4)
    BY <2>2
  <2> QED
    BY <2>1, <2>3
<1>3. outLen = 3 * G - n /\ i < G
  <2>1. DecodedLen(in) = 3 * G - n
    BY <1>1, <1>2, DecodedLenIs
  <2> QED
    BY <1>2, <2>1
<1>4. ASSUME NEW k \in 1 .. 4 * G
      PROVE  in[k] = Pad <=> 4 * G - n + 1 <= k
  <2>1. k \in DOMAIN in
    BY <1>2
  <2>2. in[k] = Pad <=> k \in Pads(in)
    BY <2>1 DEF Pads
  <2> QED
    BY <1>1, <1>2, <2>2
<1>5. (At(4*i + 2) # Pad <=> 3 * i + 1 < outLen) /\ (At(4*i + 3) # Pad <=> 3 * i + 2 < outLen)
  <2>1. 4*i + 2 + 1 \in 1 .. 4 * G /\ 4*i + 3 + 1 \in 1 .. 4 * G
    BY <1>3
  <2>2. PICK k \in 1 .. 4 * G, l \in 1 .. 4 * G : k = 4*i + 2 + 1 /\ l = 4*i + 3 + 1
    BY <2>1
  <2>3. (in[k] = Pad <=> 4 * G - n + 1 <= k) /\ (in[l] = Pad <=> 4 * G - n + 1 <= l)
    BY <1>4
  <2>4. n = 0 \/ n = 1 \/ n = 2
    OBVIOUS
  <2>5. 4 * G - n + 1 <= k <=> ~(3 * i + 1 < outLen)
    BY <1>3, <2>2, <2>4
  <2>6. 4 * G - n + 1 <= l <=> ~(3 * i + 2 < outLen)
    BY <1>3, <2>2, <2>4
  <2> QED
    BY <2>2, <2>3, <2>5, <2>6 DEF At
<1> DEFINE first  == <<ByteOf(Byte * Byte)>>
           second == IF At(4*i + 2) # Pad /\ j + 1 < outLen THEN <<ByteOf(Byte)>> ELSE <<>>
           third  == IF At(4*i + 3) # Pad /\ j + 1 + Len(second) < outLen
                     THEN <<ByteOf(1)>> ELSE <<>>
<1>6. GroupBytes = first \o second \o third
  BY DEF GroupBytes
<1>7. PICK x, y, z : x = ByteOf(Byte * Byte) /\ y = ByteOf(Byte) /\ z = ByteOf(1)
  OBVIOUS
<1>8. x = DecodedByte(in, 3 * i) /\ y = DecodedByte(in, 3 * i + 1) /\ z = DecodedByte(in, 3 * i + 2)
  <2>1. /\ (3 * i) \div 3 = i /\ (3 * i) % 3 = 0
        /\ (3 * i + 1) \div 3 = i /\ (3 * i + 1) % 3 = 1
        /\ (3 * i + 2) \div 3 = i /\ (3 * i + 2) % 3 = 2
    OBVIOUS
  <2>2. GroupValue = QuadOf(in, i)
    BY GroupNumbers
  <2> QED
    BY <1>7, <2>1, <2>2, GroupUnits DEF DecodedByte, ByteOf
<1>9. 3 * i + 1 - 1 = 3 * i /\ 3 * i + 2 - 1 = 3 * i + 1 /\ 3 * i + 3 - 1 = 3 * i + 2
  OBVIOUS
<1>10. outLen \in Nat /\ 3 * i < outLen
  BY <1>3
<1>11. CASE 3 * i + 2 < outLen
  <2>1. second = <<y>> /\ Len(second) = 1 /\ j + 1 + 1 < outLen
    BY <1>5, <1>7, <1>10, <1>11
  <2>2. third = <<z>>
    BY <1>5, <1>7, <1>11, <2>1
  <2>3. Len(GroupBytes) = 3 /\ GroupBytes[1] = x /\ GroupBytes[2] = y /\ GroupBytes[3] = z
    BY <1>6, <1>7, <2>1, <2>2, Joined
  <2>4. 3 * (i + 1) <= outLen
    BY <1>10, <1>11
  <2>5. 1 .. 3 = {1, 2, 3}
    OBVIOUS
  <2> QED
    BY <1>8, <1>9, <1>10, <2>3, <2>4, <2>5
<1>12. CASE 3 * i + 1 < outLen /\ ~(3 * i + 2 < outLen)
  <2>1. second = <<y>>
    BY <1>5, <1>7, <1>12
  <2>2. third = <<>>
    BY <1>5, <1>12
  <2>3. Len(GroupBytes) = 2 /\ GroupBytes[1] = x /\ GroupBytes[2] = y
    BY <1>6, <1>7, <2>1, <2>2, Joined
  <2>4. ~(3 * (i + 1) <= outLen) /\ outLen - 3 * i = 2
    BY <1>10, <1>12
  <2>5. 1 .. 2 = {1, 2}
    OBVIOUS
  <2> QED
    BY <1>8, <1>9, <1>10, <2>3, <2>4, <2>5
<1>13. CASE ~(3 * i + 1 < outLen)
  <2>1. second = <<>> /\ Len(second) = 0
    BY <1>5, <1>13
  <2>2. third = <<>>
    <3>1. ~(3 * i + 2 < outLen)
      BY <1>10, <1>13
    <3> QED
      BY <1>5, <3>1
  <2>3. Len(GroupBytes) = 1 /\ GroupBytes[1] = x
    BY <1>6, <1>7, <2>1, <2>2, Joined
  <2>4. ~(3 * (i + 1) <= outLen) /\ outLen - 3 * i = 1
    BY <1>10, <1>13
  <2>5. 1 .. 1 = {1}
    OBVIOUS
  <2> QED
    BY <1>8, <1>9, <1>10, <2>3, <2>4, <2>5
<1> QED
  BY <1>11, <1>12, <1>13

LEMMA DecodeGroupDone ==
  ASSUME IInv, LoopInv, DecodeGroup
  PROVE  /\ \A g \in 0 .. i : GoodGroupOf(in, g)
         /\ IsBase64Text(in) => /\ j' = IF 3 * (i + 1) <= outLen THEN 3 * (i + 1) ELSE outLen
                                /\ DecodedDone(out', in, j')
<1>1. fn = "base64_decode" /\ 4 * i < Len(in) /\ GoodGroup /\ Write(GroupBytes)
  BY DEF DecodeGroup
<1>2. /\ i \in Nat /\ j \in Nat /\ in \in Seq(Base64Chars)
      /\ Len(in) % 4 = 0 /\ outLen = DecodedLen(in) /\ Len(out) = outLen
  BY <1>1 DEF IInv, TypeOK, Progress, InChars
<1>3. ASSUME NEW g \in 0 .. i
      PROVE  GoodGroupOf(in, g)
  <2>1. CASE g < i
    <3>1. g \in 0 .. i - 1
      BY <1>2, <2>1
    <3> QED
      BY <1>1, <3>1 DEF LoopInv
  <2>2. CASE g = i
    BY <1>1, <1>2, <2>2, GroupNumbers
  <2> QED
    BY <1>2, <2>1, <2>2
<1>4. ASSUME IsBase64Text(in)
      PROVE  /\ j' = IF 3 * (i + 1) <= outLen THEN 3 * (i + 1) ELSE outLen
             /\ DecodedDone(out', in, j')
  <2>1. /\ j = IF 3 * i <= outLen THEN 3 * i ELSE outLen
        /\ DecodedDone(out, in, j)
    BY <1>1, <1>4 DEF LoopInv
  <2>2. outLen \in Nat /\ 3 * i < outLen
    BY <1>1, <1>2, DecodedLenBound
  <2>3. j = 3 * i
    BY <1>2, <2>1, <2>2
  <2>4. Len(GroupBytes) = IF 3 * (i + 1) <= outLen THEN 3 ELSE outLen - 3 * i
    BY <1>1, <1>2, <1>4, <2>3, GroupStored
  <2>5. \A k \in 1 .. Len(GroupBytes) : GroupBytes[k] = DecodedByte(in, 3 * i + k - 1)
    BY <1>1, <1>2, <1>4, <2>3, GroupStored
  <2>6. PICK N \in Nat : N = Len(GroupBytes) /\ j' = j + N /\ j + N <= outLen
        /\ j + N = IF 3 * (i + 1) <= outLen THEN 3 * (i + 1) ELSE outLen
    <3>1. j' = j + Len(GroupBytes)
      BY <1>1 DEF Write
    <3>2. CASE 3 * (i + 1) <= outLen
      BY <1>2, <2>2, <2>3, <2>4, <3>1, <3>2
    <3>3. CASE ~(3 * (i + 1) <= outLen)
      <4>1. outLen - 3 * i \in Nat /\ 3 * i + (outLen - 3 * i) = outLen
        BY <1>2, <2>2
      <4> QED
        BY <1>2, <2>2, <2>3, <2>4, <3>1, <3>3, <4>1
    <3> QED
      BY <3>2, <3>3
  <2>7. Len(GroupBytes) \in Nat
    BY <2>6
  <2>8. \A k \in 1 .. Len(out) : k <= j => out'[k] = out[k]
    BY <1>1, <1>2, <2>7, Stored
  <2>9. \A m \in 1 .. Len(GroupBytes) : j + m \in 1 .. Len(out) => out'[j + m] = GroupBytes[m]
    BY <1>1, <1>2, <2>7, Stored
  <2>10. \A k \in 0 .. (j + N) - 1 : out'[k + 1] = DecodedByte(in, k)
    <3> TAKE k \in 0 .. (j + N) - 1
    <3>1. CASE k < j
      <4>1. k \in 0 .. j - 1 /\ k + 1 \in 1 .. Len(out) /\ k + 1 <= j
        BY <1>2, <2>6, <3>1
      <4>2. out[k + 1] = DecodedByte(in, k)
        BY <2>1, <4>1 DEF DecodedDone
      <4> QED
        BY <2>8, <4>1, <4>2
    <3>2. CASE ~(k < j)
      <4>1. PICK m \in 1 .. N : k + 1 = j + m /\ j + m \in 1 .. Len(out)
        <5>1. k + 1 - j \in 1 .. N /\ k + 1 = j + (k + 1 - j) /\ k + 1 \in 1 .. Len(out)
          BY <1>2, <2>6, <3>2
        <5> QED
          BY <5>1
      <4>2. out'[k + 1] = GroupBytes[m]
        BY <2>6, <2>9, <4>1
      <4>3. GroupBytes[m] = DecodedByte(in, 3 * i + m - 1)
        BY <2>5, <2>6
      <4>4. 3 * i + m - 1 = k
        BY <1>2, <2>3, <4>1
      <4> QED
        BY <4>2, <4>3, <4>4
    <3> QED
      BY <3>1, <3>2
  <2>11. DecodedDone(out', in, j + N)
    BY <2>10 DEF DecodedDone
  <2>12. j' = j + N
    BY <2>6
  <2>13. DecodedDone(out', in, j')
    BY <2>11, <2>12
  <2> QED
    BY <2>6, <2>13
<1> QED
  BY <1>3, <1>4

LEMMA InitAnswers == Init => AnswersInv
<1> SUFFICES ASSUME Init PROVE AnswersInv
  OBVIOUS
<1>1. fn = "idle" /\ ret = Nothing /\ coded = Nothing
  BY DEF Init
<1>2. IInv
  BY InitEstablishes
<1>3. LoopInv
  BY <1>1 DEF LoopInv
<1>4. CodedInv /\ SourceInv /\ RetInv
  BY <1>1 DEF CodedInv, SourceInv, RetInv
<1> QED
  BY <1>2, <1>3, <1>4 DEF AnswersInv

\* A call has done nothing yet.
LEMMA CallAnswers ==
  ASSUME AnswersInv, IInv', NEW f \in Functions, NEW argument, NEW buffer, NEW len \in Nat \cup {Junk},
         f = "base64_decode" => len \in Nat,
         Call(f, argument, buffer, len),
         f \in {"bytes_to_hex", "base64_encode"} => coded = Nothing,
         f = "hex_to_bytes" /\ coded # Nothing => coded.fn = "bytes_to_hex" /\ argument = coded.text,
         f = "base64_decode" /\ coded # Nothing => coded.fn = "base64_encode" /\ argument = coded.text
  PROVE  AnswersInv'
<1>1. /\ fn' = f /\ in' = argument /\ i' = 0 /\ j' = 0 /\ outLen' = len
      /\ ret' = ret /\ coded' = coded /\ ret = Nothing
  BY DEF Call, Free
<1>2. LoopInv'
  <2>1. BytesDone(out', in', 0) /\ HexDone(out', in', 0) /\ Base64Done(out', in', 0)
        /\ DecodedDone(out', in', 0)
    BY DEF BytesDone, HexDone, Base64Done, DecodedDone
  <2>2. f = "base64_decode" => (0 = IF 3 * 0 <= len THEN 3 * 0 ELSE len)
    OBVIOUS
  <2>3. \A g \in 0 .. 0 - 1 : GoodGroupOf(in', g)
    OBVIOUS
  <2> QED
    BY <1>1, <2>1, <2>2, <2>3 DEF LoopInv
<1>3. CodedInv'
  BY <1>1 DEF CodedInv, AnswersInv
<1>4. SourceInv'
  BY <1>1 DEF SourceInv, Functions
<1>5. RetInv'
  BY <1>1 DEF RetInv
<1> QED
  BY <1>2, <1>3, <1>4, <1>5 DEF AnswersInv

LEMMA StartAnswers ==
  ASSUME AnswersInv, IInv', Free, Start
  PROVE  AnswersInv'
<1>1. ASSUME NEW data \in Data, coded = Nothing, CallBytesToHex(data)
      PROVE  AnswersInv'
  BY <1>1, CallAnswers DEF CallBytesToHex, Functions
<1>2. ASSUME NEW data \in Data, coded = Nothing, CallBase64Encode(data)
      PROVE  AnswersInv'
  BY <1>2, CallAnswers DEF CallBase64Encode, Functions
<1>3. ASSUME NEW text \in Presented("bytes_to_hex", HexTexts), CallHexToBytes(text)
      PROVE  AnswersInv'
  <2>1. coded # Nothing => coded.fn = "bytes_to_hex" /\ text = coded.text
    BY <1>3 DEF Presented
  <2> QED
    BY <1>3, <2>1, CallAnswers DEF CallHexToBytes, Functions
<1>4. ASSUME NEW text \in Presented("base64_encode", Base64Texts)
      PROVE  /\ text \in Seq(Base64Chars)
             /\ coded # Nothing => coded.fn = "base64_encode" /\ text = coded.text
  BY InputAssumption DEF Presented, AnswersInv, IInv, TypeOK, OutChars
<1>5. ASSUME NEW text \in Presented("base64_encode", Base64Texts), CallBase64Decode(text)
      PROVE  AnswersInv'
  <2>1. DecodedLen(text) \in Nat
    BY <1>4, <1>5, DecodedLenBound DEF CallBase64Decode
  <2> QED
    BY <1>4, <1>5, <2>1, CallAnswers DEF CallBase64Decode, Functions
<1>6. ASSUME NEW text \in Presented("base64_encode", Base64Texts), RefuseLength(text)
      PROVE  AnswersInv'
  <2>1. /\ ret' = [fn |-> "base64_decode", arg |-> text, value |-> Failure, len |-> 0]
        /\ fn' = fn /\ fn = "idle" /\ coded' = coded /\ Len(text) % 4 # 0
    BY <1>6 DEF RefuseLength, Free
  <2>2. ret'.fn = "base64_decode" /\ ret'.arg = text /\ ret'.value = Failure
    BY <2>1
  <2>3. LoopInv'
    BY <2>1 DEF LoopInv
  <2>4. CodedInv'
    BY <2>1 DEF CodedInv, AnswersInv
  <2>5. SourceInv'
    BY <1>4, <2>1, <2>2 DEF SourceInv
  <2>6. RetInv'
    <3>1. ret'.arg \in Seq(InChars[ret'.fn]) /\ ret'.fn \in Functions
      BY <1>4, <2>2 DEF InChars, Functions
    <3> QED
      BY <2>1, <2>2, <3>1 DEF RetInv
  <2> QED
    BY <2>3, <2>4, <2>5, <2>6 DEF AnswersInv
<1> QED
  BY <1>1, <1>2, <1>3, <1>5, <1>6 DEF Start

\* A group more is done.
LEMMA StepAnswers ==
  ASSUME AnswersInv, IInv', Step, LoopInv'
  PROVE  AnswersInv'
<1>1. fn' = fn /\ in' = in /\ ret' = ret /\ coded' = coded
  BY DEF Step
<1>2. CodedInv' /\ SourceInv' /\ RetInv'
  BY <1>1 DEF CodedInv, SourceInv, RetInv, AnswersInv
<1> QED
  BY <1>2 DEF AnswersInv

\* A decoder answers.
LEMMA DecoderAnswers ==
  ASSUME AnswersInv, IInv', NEW value, NEW len, Return(value, len), coded' = coded,
         fn \in {"hex_to_bytes", "base64_decode"},
         fn = "hex_to_bytes" =>
           \/ value = Failure /\ ~IsHexText(in)
           \/ /\ Len(in) % 2 = 0 /\ value \in Seq(Bytes)
              /\ Len(value) = Len(in) \div 2
              /\ BytesDone(value, in, Len(in) \div 2),
         fn = "base64_decode" =>
           \/ /\ value = Failure
              /\ \/ Len(in) % 4 # 0
                 \/ \E g \in Nat : 4 * g < Len(in) /\ ~GoodGroupOf(in, g)
           \/ /\ Len(in) % 4 = 0
              /\ \A g \in 0 .. (Len(in) \div 4) - 1 : GoodGroupOf(in, g)
              /\ IsBase64Text(in) => IsBytesOf(value, in)
  PROVE  AnswersInv'
<1>1. /\ fn' = "idle" /\ ret' = [fn |-> fn, arg |-> in, value |-> value, len |-> len]
  BY DEF Return
<1>2. ret'.fn = fn /\ ret'.arg = in /\ ret'.value = value
  BY <1>1
<1>3. LoopInv'
  BY <1>1 DEF LoopInv
<1>4. CodedInv'
  BY DEF CodedInv, AnswersInv
<1>5. SourceInv'
  BY <1>1, <1>2 DEF SourceInv, AnswersInv
<1>6. RetInv'
  <2>1. fn \in Functions /\ in \in Seq(InChars[fn])
    BY DEF AnswersInv, IInv, TypeOK, Functions
  <2>2. CASE fn = "hex_to_bytes"
    BY <1>2, <2>1, <2>2 DEF RetInv
  <2>3. CASE fn = "base64_decode"
    BY <1>2, <2>1, <2>3 DEF RetInv
  <2> QED
    BY <2>2, <2>3
<1> QED
  BY <1>3, <1>4, <1>5, <1>6 DEF AnswersInv

\* An encoder answers.
LEMMA EncoderAnswers ==
  ASSUME AnswersInv, IInv', Encoded, fn \in {"bytes_to_hex", "base64_encode"},
         SubSeq(out, 1, j) \in Seq(OutChars[fn]),
         fn = "bytes_to_hex" => IsHexOf(SubSeq(out, 1, j), in),
         fn = "base64_encode" => IsBase64By(SubSeq(out, 1, j), in)
  PROVE  AnswersInv'
<1>1. PICK text : text = SubSeq(out, 1, j)
  OBVIOUS
<1>2. /\ fn' = "idle" /\ ret' = [fn |-> fn, arg |-> in, value |-> text, len |-> j]
      /\ coded' = [fn |-> fn, data |-> in, text |-> text]
  BY <1>1 DEF Encoded, Return
<1>3. /\ ret'.fn = fn /\ ret'.arg = in /\ ret'.value = text
      /\ coded'.fn = fn /\ coded'.data = in /\ coded'.text = text
  BY <1>2
<1>4. LoopInv'
  BY <1>2 DEF LoopInv
<1>5. CodedInv'
  BY <1>1, <1>3 DEF CodedInv
<1>6. SourceInv'
  BY <1>2, <1>3 DEF SourceInv
<1>7. RetInv'
  <2>1. fn \in Functions /\ in \in Seq(InChars[fn])
    BY DEF AnswersInv, IInv, TypeOK, Functions
  <2>2. /\ fn = "bytes_to_hex" => text \in Seq(HexChars)
        /\ fn = "base64_encode" => text \in Seq(Base64Chars)
    <3>1. text \in Seq(OutChars[fn])
      BY <1>1
    <3>2. OutChars["bytes_to_hex"] = HexChars /\ OutChars["base64_encode"] = Base64Chars
      BY DEF OutChars
    <3> QED
      BY <3>1, <3>2
  <2> QED
    BY <1>1, <1>3, <2>1, <2>2 DEF RetInv
<1> QED
  BY <1>4, <1>5, <1>6, <1>7 DEF AnswersInv

LEMMA RefuseHexAnswers ==
  ASSUME AnswersInv, IInv', RefuseHex
  PROVE  AnswersInv'
<1>1. fn = "hex_to_bytes" /\ Return(Failure, Junk) /\ coded' = coded
  BY DEF RefuseHex
<1>2. i \in Nat /\ Len(in) \in Nat /\ DOMAIN in = 1 .. Len(in)
  BY <1>1 DEF AnswersInv, IInv, TypeOK, InChars
<1>3. ~IsHexText(in)
  <2>1. CASE OddLength
    BY <2>1 DEF OddLength, IsHexText
  <2>2. CASE i < Len(in) \div 2 /\ ~(IsNibble(At(2 * i)) /\ IsNibble(At(2 * i + 1)))
    <3>1. 2 * i + 1 \in DOMAIN in /\ (2 * i + 1) + 1 \in DOMAIN in
      BY <1>2, <2>2
    <3> QED
      BY <2>2, <3>1 DEF IsHexText, At
  <2> QED
    BY <2>1, <2>2 DEF RefuseHex
<1> QED
  BY <1>1, <1>3, DecoderAnswers

LEMMA ReturnBytesAnswers ==
  ASSUME AnswersInv, IInv', ReturnBytes
  PROVE  AnswersInv'
<1>1. /\ fn = "hex_to_bytes" /\ Len(in) % 2 = 0 /\ i = Len(in) \div 2
      /\ Return(SubSeq(out, 1, j), j) /\ coded' = coded
  BY DEF ReturnBytes, OddLength
<1>2. /\ j = i /\ j \in Nat /\ Len(out) = Len(in) \div 2 /\ BytesDone(out, in, i)
      /\ out \in Seq(Bytes \cup {Junk}) /\ \A k \in 1 .. Len(out) : k <= j => out[k] \in Bytes
  BY <1>1 DEF AnswersInv, IInv, TypeOK, Progress, LoopInv, OutChars
<1>3. PICK value : value = SubSeq(out, 1, j)
  OBVIOUS
<1>4. Len(value) = j /\ value \in Seq(Bytes \cup {Junk}) /\ \A k \in 1 .. j : value[k] = out[k]
  BY <1>1, <1>2, <1>3
<1>5. value \in Seq(Bytes)
  <2>1. \A k \in 1 .. j : value[k] \in Bytes
    BY <1>1, <1>2, <1>4
  <2>2. value \in [1 .. j -> Bytes]
    BY <1>4, <2>1
  <2> QED
    BY <1>2, <2>2, AsSequence
<1>6. BytesDone(value, in, i)
  BY <1>1, <1>2, <1>4 DEF BytesDone
<1> QED
  BY <1>1, <1>2, <1>3, <1>4, <1>5, <1>6, DecoderAnswers

LEMMA ReturnHexAnswers ==
  ASSUME AnswersInv, IInv', ReturnHex
  PROVE  AnswersInv'
<1>1. fn = "bytes_to_hex" /\ i = Len(in) /\ Encoded
  BY DEF ReturnHex
<1>2. /\ j = 2 * i /\ i \in Nat /\ Len(out) = 2 * i + 1 /\ HexDone(out, in, i)
      /\ out \in Seq(HexChars \cup {Junk})
  BY <1>1 DEF AnswersInv, IInv, TypeOK, Progress, LoopInv, OutChars
<1>3. PICK value : value = SubSeq(out, 1, j)
  OBVIOUS
<1>4. Len(value) = j /\ \A k \in 1 .. j : value[k] = out[k]
  BY <1>2, <1>3
<1>5. HexDone(value, in, i)
  <2> SUFFICES ASSUME NEW g \in 1 .. i
               PROVE  value[2*g - 1] = (in[g] \div Nibble) % Nibble /\ value[2*g] = in[g] % Nibble
    BY DEF HexDone
  <2>1. 2*g - 1 \in 1 .. j /\ 2*g \in 1 .. j
    BY <1>2
  <2> QED
    BY <1>2, <1>4, <2>1 DEF HexDone
<1>6. IsHexOf(value, in)
  BY <1>1, <1>2, <1>4, <1>5 DEF IsHexOf
<1>7. value \in Seq(OutChars[fn])
  <2>1. TypeOK /\ fn # "idle" /\ j < Len(out)
    BY <1>1, <1>2 DEF AnswersInv, IInv
  <2> QED
    BY <1>3, <2>1, TextType
<1> QED
  BY <1>1, <1>3, <1>6, <1>7, EncoderAnswers

LEMMA ReturnBase64Answers ==
  ASSUME AnswersInv, IInv', ReturnBase64
  PROVE  AnswersInv'
<1>1. fn = "base64_encode" /\ 3 * i >= Len(in) /\ Encoded
  BY DEF ReturnBase64
<1>2. /\ j = 4 * i /\ i \in Nat /\ Len(out) = EncodedLen(Len(in)) + 1
      /\ i <= (Len(in) + 2) \div 3 /\ Len(in) \in Nat
      /\ Base64Done(out, in, i) /\ out \in Seq(Base64Chars \cup {Junk})
  BY <1>1 DEF AnswersInv, IInv, TypeOK, Progress, LoopInv, OutChars
<1>3. i = (Len(in) + 2) \div 3
  BY <1>1, <1>2
<1>4. j <= Len(out) /\ j \in Nat
  BY <1>2, <1>3 DEF EncodedLen
<1>5. PICK value : value = SubSeq(out, 1, j)
  OBVIOUS
<1>6. Len(value) = j /\ \A k \in 1 .. j : value[k] = out[k]
  BY <1>2, <1>4, <1>5
<1>7. Base64Done(value, in, i)
  <2> SUFFICES ASSUME NEW g \in 0 .. i - 1, NEW c \in 0 .. 3
               PROVE  value[4*g + c + 1] = EncodedChar(in, g, c)
    BY DEF Base64Done
  <2>1. 4*g + c + 1 \in 1 .. j
    BY <1>2
  <2>2. out[4*g + c + 1] = EncodedChar(in, g, c)
    BY <1>2 DEF Base64Done
  <2> QED
    BY <1>6, <2>1, <2>2
<1>8. IsBase64By(value, in)
  BY <1>2, <1>3, <1>6, <1>7 DEF IsBase64By
<1>9. value \in Seq(OutChars[fn])
  <2>1. j < Len(out)
    BY <1>2, <1>3 DEF EncodedLen
  <2>2. TypeOK /\ fn # "idle"
    BY <1>1 DEF AnswersInv, IInv
  <2> QED
    BY <1>5, <2>1, <2>2, TextType
<1> QED
  BY <1>1, <1>5, <1>8, <1>9, EncoderAnswers

LEMMA RefuseGroupAnswers ==
  ASSUME AnswersInv, IInv', RefuseGroup
  PROVE  AnswersInv'
<1>1. fn = "base64_decode" /\ 4 * i < Len(in) /\ ~GoodGroup /\ Return(Failure, 0) /\ coded' = coded
  BY DEF RefuseGroup
<1>2. i \in Nat
  BY DEF AnswersInv, IInv, TypeOK
<1>3. ~GoodGroupOf(in, i)
  BY <1>1, <1>2, GroupNumbers
<1> QED
  BY <1>1, <1>2, <1>3, DecoderAnswers

LEMMA ReturnDecodedAnswers ==
  ASSUME AnswersInv, IInv', ReturnDecoded
  PROVE  AnswersInv'
<1>1. /\ fn = "base64_decode" /\ 4 * i = Len(in)
      /\ Return(SubSeq(out, 1, outLen), outLen) /\ coded' = coded
  BY DEF ReturnDecoded
<1>2. /\ i \in Nat /\ Len(in) % 4 = 0 /\ outLen = DecodedLen(in) /\ Len(out) = outLen
      /\ in \in Seq(Base64Chars) /\ \A g \in 0 .. i - 1 : GoodGroupOf(in, g)
      /\ out \in Seq(Bytes \cup {Junk}) /\ \A k \in 1 .. Len(out) : k <= j => out[k] \in Bytes
  BY <1>1 DEF AnswersInv, IInv, TypeOK, Progress, LoopInv, OutChars, InChars
<1>3. PICK value : value = SubSeq(out, 1, outLen)
  OBVIOUS
<1>4. outLen \in Nat
  BY <1>2, DecodedLenBound
<1>5. Len(value) = outLen /\ \A k \in 1 .. outLen : value[k] = out[k]
  BY <1>2, <1>3, <1>4
<1>6. ASSUME IsBase64Text(in)
      PROVE  IsBytesOf(value, in)
  <2>1. PICK n \in 0 .. 2 : Pads(in) = Len(in) - n + 1 .. Len(in)
    BY <1>6 DEF IsBase64Text
  <2>2. outLen = 3 * i - n
    <3>1. Len(in) = 4 * i
      BY <1>1
    <3> QED
      BY <1>2, <2>1, <3>1, DecodedLenIs
  <2>3. j = outLen /\ DecodedDone(out, in, outLen)
    <3>1. /\ j = IF 3 * i <= outLen THEN 3 * i ELSE outLen
          /\ DecodedDone(out, in, j)
      BY <1>1, <1>6 DEF AnswersInv, LoopInv
    <3>2. j = outLen
      BY <1>2, <1>4, <2>2, <3>1
    <3> QED
      BY <3>1, <3>2
  <2>4. value \in Seq(Bytes)
    <3>1. \A k \in 1 .. outLen : value[k] \in Bytes
      BY <1>2, <1>4, <1>5, <2>3
    <3>2. value \in Seq(Bytes \cup {Junk})
      BY <1>2, <1>3, <1>4
    <3>3. value \in [1 .. outLen -> Bytes]
      BY <1>5, <3>1, <3>2
    <3> QED
      BY <1>4, <3>3, AsSequence
  <2>5. DecodedDone(value, in, outLen)
    <3> SUFFICES ASSUME NEW k \in 0 .. outLen - 1 PROVE value[k + 1] = DecodedByte(in, k)
      BY DEF DecodedDone
    <3>1. k + 1 \in 1 .. outLen
      BY <1>4
    <3> QED
      BY <1>5, <2>3, <3>1 DEF DecodedDone
  <2> QED
    BY <1>2, <1>5, <2>4, <2>5 DEF IsBytesOf
<1>7. Len(in) \div 4 = i
  BY <1>1, <1>2
<1> QED
  BY <1>1, <1>2, <1>3, <1>6, <1>7, DecoderAnswers

LEMMA NextAnswers == AnswersInv /\ [Next]_vars => AnswersInv'
<1> SUFFICES ASSUME AnswersInv, [Next]_vars PROVE AnswersInv'
  OBVIOUS
<1>1. IInv /\ LoopInv /\ IInv'
  BY NextPreserves DEF AnswersInv
<1>2. CASE Free /\ Start
  BY <1>1, <1>2, StartAnswers
<1>3. CASE RefuseHex
  BY <1>1, <1>3, RefuseHexAnswers
<1>4. CASE HexPair
  <2>1. Step /\ fn = "hex_to_bytes" /\ fn' = fn /\ in' = in /\ i' = i + 1
    BY <1>4 DEF HexPair, Step
  <2>2. BytesDone(out', in', i')
    BY <1>1, <1>4, <2>1, HexPairDone
  <2>3. LoopInv'
    BY <2>1, <2>2 DEF LoopInv
  <2> QED
    BY <1>1, <2>1, <2>3, StepAnswers
<1>5. CASE ReturnBytes
  BY <1>1, <1>5, ReturnBytesAnswers
<1>6. CASE ByteToHex
  <2>1. Step /\ fn = "bytes_to_hex" /\ fn' = fn /\ in' = in /\ i' = i + 1
    BY <1>6 DEF ByteToHex, Step
  <2>2. HexDone(out', in', i')
    BY <1>1, <1>6, <2>1, ByteToHexDone
  <2>3. LoopInv'
    BY <2>1, <2>2 DEF LoopInv
  <2> QED
    BY <1>1, <2>1, <2>3, StepAnswers
<1>7. CASE ReturnHex
  BY <1>1, <1>7, ReturnHexAnswers
<1>8. CASE EncodeTriple
  <2>1. Step /\ fn = "base64_encode" /\ fn' = fn /\ in' = in /\ i' = i + 1
    BY <1>8 DEF EncodeTriple, Step
  <2>2. Base64Done(out', in', i')
    BY <1>1, <1>8, <2>1, EncodeTripleDone
  <2>3. LoopInv'
    BY <2>1, <2>2 DEF LoopInv
  <2> QED
    BY <1>1, <2>1, <2>3, StepAnswers
<1>9. CASE ReturnBase64
  BY <1>1, <1>9, ReturnBase64Answers
<1>10. CASE RefuseGroup
  BY <1>1, <1>10, RefuseGroupAnswers
<1>11. CASE DecodeGroup
  <2>1. /\ Step /\ fn = "base64_decode" /\ fn' = fn /\ in' = in /\ i' = i + 1 /\ outLen' = outLen
        /\ i \in Nat
    BY <1>1, <1>11 DEF DecodeGroup, Step, IInv, TypeOK
  <2>2. /\ \A g \in 0 .. i' - 1 : GoodGroupOf(in', g)
        /\ IsBase64Text(in') => /\ j' = IF 3 * i' <= outLen' THEN 3 * i' ELSE outLen'
                                /\ DecodedDone(out', in', j')
    <3>1. (i + 1) - 1 = i
      BY <2>1
    <3>2. \A g \in 0 .. i : GoodGroupOf(in, g)
      BY <1>1, <1>11, DecodeGroupDone
    <3>3. IsBase64Text(in) => /\ j' = IF 3 * (i + 1) <= outLen THEN 3 * (i + 1) ELSE outLen
                              /\ DecodedDone(out', in, j')
      BY <1>1, <1>11, DecodeGroupDone
    <3> QED
      BY <2>1, <3>1, <3>2, <3>3
  <2>3. LoopInv'
    BY <2>1, <2>2 DEF LoopInv
  <2> QED
    BY <1>1, <2>1, <2>3, StepAnswers
<1>12. CASE ReturnDecoded
  BY <1>1, <1>12, ReturnDecodedAnswers
<1>13. CASE Consume
  <2>1. /\ ret' = Nothing /\ fn' = fn /\ in' = in /\ i' = i /\ out' = out /\ j' = j
        /\ outLen' = outLen /\ coded' = coded
    BY <1>13 DEF Consume
  <2> QED
    BY <1>1, <2>1 DEF AnswersInv, LoopInv, CodedInv, SourceInv, RetInv
<1>14. CASE UNCHANGED vars
  BY <1>1, <1>14 DEF vars, AnswersInv, LoopInv, CodedInv, SourceInv, RetInv
<1> QED
  BY <1>2, <1>3, <1>4, <1>5, <1>6, <1>7, <1>8, <1>9, <1>10, <1>11, <1>12, <1>13, <1>14 DEF Next

-----------------------------------------------------------------------------
(* What was done is what is defined *)

\* The text bytes_to_hex leaves has two digits for each byte.
LEMMA HexIsText ==
  ASSUME NEW data \in Seq(Bytes), NEW C, NEW text \in Seq(C), IsHexOf(text, data)
  PROVE  IsHexText(text)
<1>1. PICK L \in Nat : L = Len(data) /\ Len(text) = 2 * L /\ DOMAIN text = 1 .. 2 * L
  BY DEF IsHexOf
<1>2. ASSUME NEW k \in 1 .. 2 * L
      PROVE  IsNibble(text[k])
  <2>1. PICK g \in 1 .. L : k = 2 * g - 1 \/ k = 2 * g
    <3>1. (k + 1) \div 2 \in 1 .. L /\ (k = 2 * ((k + 1) \div 2) - 1 \/ k = 2 * ((k + 1) \div 2))
      OBVIOUS
    <3> QED
      BY <3>1
  <2>2. data[g] \in Bytes
    BY <1>1
  <2> QED
    BY <1>1, <2>1, <2>2, HexByteOfParts DEF IsHexOf, HexDone, IsNibble
<1>3. (2 * L) % 2 = 0
  OBVIOUS
<1> QED
  BY <1>1, <1>2, <1>3 DEF IsHexText

LEMMA GoodGroups ==
  ASSUME NEW C, NEW text \in Seq(C), IsBase64Text(text)
  PROVE  \A g \in Nat : 4 * g < Len(text) => GoodGroupOf(text, g)
<1> SUFFICES ASSUME NEW g \in Nat, 4 * g < Len(text) PROVE GoodGroupOf(text, g)
  OBVIOUS
<1>1. PICK n \in 0 .. 2 : Pads(text) = Len(text) - n + 1 .. Len(text)
  BY DEF IsBase64Text
<1>2. PICK G \in Nat : Len(text) = 4 * G /\ DOMAIN text = 1 .. 4 * G
  <2>1. PICK L \in Nat : L = Len(text) /\ DOMAIN text = 1 .. L
    OBVIOUS
  <2>2. L % 4 = 0
    BY <2>1 DEF IsBase64Text
  <2>3. L \div 4 \in Nat /\ L = 4 * (L \div 4)
    BY <2>2
  <2> QED
    BY <2>1, <2>3
<1>3. ASSUME NEW k \in 1 .. 4 * G
      PROVE  /\ text[k] = Pad \/ IsDigit(text[k])
             /\ k <= 4 * G - n => IsDigit(text[k])
  <2>1. k \in Pads(text) <=> 4 * G - n + 1 <= k
    BY <1>1, <1>2
  <2>2. k \notin Pads(text) => IsDigit(text[k])
    BY <1>2 DEF IsBase64Text
  <2>3. k \in Pads(text) => text[k] = Pad
    BY DEF Pads
  <2> QED
    BY <2>1, <2>2, <2>3
<1>4. /\ 4*g + 1 \in 1 .. 4 * G /\ 4*g + 1 <= 4 * G - n
      /\ 4*g + 2 \in 1 .. 4 * G /\ 4*g + 2 <= 4 * G - n
      /\ 4*g + 3 \in 1 .. 4 * G /\ 4*g + 4 \in 1 .. 4 * G
  BY <1>2
<1>5. IsDigit(text[4*g + 1]) /\ IsDigit(text[4*g + 2])
  BY <1>3, <1>4
<1>6. ASSUME NEW k \in 3 .. 4
      PROVE  text[4*g + k] = Pad \/ IsDigit(text[4*g + k])
  <2>1. PICK l \in 1 .. 4 * G : l = 4*g + k
    <3>1. 4*g + k \in 1 .. 4 * G
      BY <1>4
    <3> QED
      BY <3>1
  <2> QED
    BY <1>3, <2>1
<1> QED
  BY <1>5, <1>6 DEF GoodGroupOf

\* What was encoded decodes to the bytes it was made of, for data of any length.
LEMMA AnswersRoundTrip == AnswersInv => RoundTrip
<1> SUFFICES ASSUME AnswersInv, coded # Nothing, ret # Nothing,
                    ret.fn \in {"hex_to_bytes", "base64_decode"}
             PROVE  ret.value = coded.data
  BY DEF RoundTrip
<1>1. CASE ret.fn = "hex_to_bytes"
  <2>1. coded.fn = "bytes_to_hex" /\ ret.arg = coded.text
    BY <1>1 DEF AnswersInv, SourceInv
  <2>2. coded.data \in Seq(Bytes) /\ coded.text \in Seq(HexChars)
    BY <2>1 DEF AnswersInv, IInv, TypeOK, OutChars
  <2>3. IsHexOf(coded.text, coded.data)
    BY <2>1 DEF AnswersInv, CodedInv
  <2>4. IsHexText(coded.text)
    BY <2>2, <2>3, HexIsText
  <2>5. PICK value : value = ret.value
    OBVIOUS
  <2>6. /\ value \in Seq(Bytes) /\ Len(value) = Len(coded.text) \div 2
        /\ BytesDone(value, coded.text, Len(coded.text) \div 2)
    BY <1>1, <2>1, <2>4, <2>5 DEF AnswersInv, RetInv
  <2>7. PICK L \in Nat : L = Len(coded.data) /\ Len(coded.text) \div 2 = L
    <3>1. Len(coded.data) \in Nat /\ Len(coded.text) = 2 * Len(coded.data)
      BY <2>2, <2>3 DEF IsHexOf
    <3>2. PICK L \in Nat : L = Len(coded.data)
      BY <3>1
    <3>3. (2 * L) \div 2 = L
      OBVIOUS
    <3> QED
      BY <3>1, <3>2, <3>3
  <2>8. HexDone(coded.text, coded.data, Len(coded.data))
    BY <2>3 DEF IsHexOf
  <2>9. value = coded.data
    BY <2>2, <2>6, <2>7, <2>8, HexRoundTrip
  <2> QED
    BY <2>5, <2>9
<1>2. CASE ret.fn = "base64_decode"
  <2>1. coded.fn = "base64_encode" /\ ret.arg = coded.text
    BY <1>2 DEF AnswersInv, SourceInv
  <2>2. coded.data \in Seq(Bytes) /\ coded.text \in Seq(Base64Chars)
    BY <2>1 DEF AnswersInv, IInv, TypeOK, OutChars
  <2>3. IsBase64By(coded.text, coded.data)
    BY <2>1 DEF AnswersInv, CodedInv
  <2>4. IsBase64Text(coded.text)
    BY <2>2, <2>3, EncodedIsText
  <2>5. Len(coded.text) % 4 = 0 /\ \A g \in Nat : 4 * g < Len(coded.text) => GoodGroupOf(coded.text, g)
    BY <2>2, <2>4, GoodGroups DEF IsBase64Text
  <2>6. IsBytesOf(ret.value, coded.text)
    BY <1>2, <2>1, <2>4, <2>5 DEF AnswersInv, RetInv
  <2> QED
    BY <2>2, <2>3, <2>6, Base64RoundTrip
<1> QED
  BY <1>1, <1>2

\* The encoders return the text that is defined and the decoders what a text
\* stands for.
LEMMA AnswersMatchDefinition == AnswersInv => MatchesDefinition
<1> SUFFICES ASSUME AnswersInv, ret # Nothing PROVE MatchesDefinition
  BY DEF MatchesDefinition
<1>1. ret.fn \in Functions /\ ret.arg \in Seq(InChars[ret.fn])
  BY DEF AnswersInv, RetInv
<1>2. PICK value, arg : value = ret.value /\ arg = ret.arg
  OBVIOUS
<1>3. CASE ret.fn = "bytes_to_hex"
  <2>1. arg \in Seq(Bytes) /\ value \in Seq(HexChars) /\ IsHexOf(value, arg)
    BY <1>1, <1>2, <1>3 DEF AnswersInv, RetInv, InChars
  <2>2. Regrouped(arg, ByteBits, value, NibbleBits)
    BY <2>1, HexRegrouped DEF IsHexOf
  <2> QED
    BY <1>2, <1>3, <2>2 DEF MatchesDefinition
<1>4. CASE ret.fn = "hex_to_bytes"
  <2>1. arg \in Seq(HexChars)
    BY <1>1, <1>2, <1>4 DEF InChars
  <2>2. \/ value = Failure /\ ~IsHexText(arg)
        \/ /\ Len(arg) % 2 = 0 /\ value \in Seq(Bytes)
           /\ Len(value) = Len(arg) \div 2
           /\ BytesDone(value, arg, Len(arg) \div 2)
    BY <1>2, <1>4 DEF AnswersInv, RetInv
  <2>3. CASE value = Failure /\ ~IsHexText(arg)
    BY <1>2, <1>4, <2>3 DEF MatchesDefinition
  <2>4. CASE /\ Len(arg) % 2 = 0 /\ value \in Seq(Bytes)
             /\ Len(value) = Len(arg) \div 2
             /\ BytesDone(value, arg, Len(arg) \div 2)
    <3>1. PICK n \in Nat : n = Len(value) /\ Len(arg) = 2 * n /\ Len(arg) \div 2 = n
      <4>1. PICK L \in Nat : L = Len(arg) /\ L % 2 = 0
        BY <2>1, <2>4
      <4>2. L \div 2 \in Nat /\ L = 2 * (L \div 2)
        BY <4>1
      <4> QED
        BY <2>4, <4>1, <4>2
    <3>2. value # Failure
      BY <2>4, CharAssumption
    <3>3. BytesDone(value, arg, n)
      BY <2>4, <3>1
    <3>4. HexDone(arg, value, n)
      BY <3>3, HexDoneOfBytes
    <3>5. Regrouped(arg, NibbleBits, value, ByteBits)
      BY <2>1, <2>4, <3>1, <3>4, HexRegrouped
    <3>6. IsHexText(arg)
      BY <2>1, <2>4, <3>1, <3>4, HexIsText DEF IsHexOf
    <3> QED
      BY <1>2, <1>4, <3>2, <3>5, <3>6 DEF MatchesDefinition
  <2> QED
    BY <2>2, <2>3, <2>4
<1>5. CASE ret.fn = "base64_encode"
  <2>1. arg \in Seq(Bytes) /\ value \in Seq(Base64Chars) /\ IsBase64By(value, arg)
    BY <1>1, <1>2, <1>5 DEF AnswersInv, RetInv, InChars
  <2>2. IsBase64Of(value, arg)
    BY <2>1, EncodedRegrouped
  <2> QED
    BY <1>2, <1>5, <2>2 DEF MatchesDefinition
<1>6. CASE ret.fn = "base64_decode"
  <2>1. arg \in Seq(Base64Chars)
    BY <1>1, <1>2, <1>6 DEF InChars
  <2>2. \/ /\ value = Failure
           /\ \/ Len(arg) % 4 # 0
              \/ \E g \in Nat : 4 * g < Len(arg) /\ ~GoodGroupOf(arg, g)
        \/ /\ Len(arg) % 4 = 0
           /\ \A g \in 0 .. (Len(arg) \div 4) - 1 : GoodGroupOf(arg, g)
           /\ IsBase64Text(arg) => IsBytesOf(value, arg)
    BY <1>2, <1>6 DEF AnswersInv, RetInv
  <2>3. ASSUME IsBase64Text(arg)
        PROVE  value # Failure /\ Regrouped(DigitsOf(arg), DigitBits, value, ByteBits)
    <3>1. Len(arg) % 4 = 0 /\ \A g \in Nat : 4 * g < Len(arg) => GoodGroupOf(arg, g)
      BY <2>1, <2>3, GoodGroups DEF IsBase64Text
    <3>2. IsBytesOf(value, arg)
      BY <2>2, <2>3, <3>1
    <3>3. value # Failure
      BY <3>2, CharAssumption DEF IsBytesOf
    <3> QED
      BY <2>1, <2>3, <3>2, <3>3, DecodedRegrouped
  <2>4. ASSUME Len(arg) % 4 # 0 \/ \E k \in DOMAIN arg : arg[k] = Bad
        PROVE  value = Failure
    <3>1. CASE Len(arg) % 4 # 0
      BY <2>2, <3>1
    <3>2. CASE Len(arg) % 4 = 0
      <4>1. PICK k \in DOMAIN arg : arg[k] = Bad
        BY <2>4, <3>2
      <4>2. PICK G \in Nat : Len(arg) = 4 * G /\ Len(arg) \div 4 = G /\ k \in 1 .. 4 * G
        <5>1. PICK L \in Nat : L = Len(arg) /\ L % 4 = 0
          BY <2>1, <3>2
        <5>2. L \div 4 \in Nat /\ L = 4 * (L \div 4)
          BY <5>1
        <5>3. k \in 1 .. L
          BY <2>1, <5>1
        <5> QED
          BY <5>1, <5>2, <5>3
      <4>3. PICK g \in 0 .. G - 1, c \in 1 .. 4 : k = 4*g + c
        <5>1. PICK p \in 0 .. 4 * G - 1 : k = p + 1
          <6>1. k - 1 \in 0 .. 4 * G - 1 /\ k = (k - 1) + 1
            BY <4>2
          <6> QED
            BY <6>1
        <5>2. p \div 4 \in 0 .. G - 1 /\ p % 4 \in 0 .. 3 /\ p = 4 * (p \div 4) + (p % 4)
          OBVIOUS
        <5>3. PICK c \in 1 .. 4 : c = (p % 4) + 1
          BY <5>2
        <5> QED
          BY <5>1, <5>2, <5>3
      <4>4. ~IsDigit(arg[k]) /\ arg[k] # Pad
        BY <4>1, CharAssumption DEF IsDigit
      <4>5. ~GoodGroupOf(arg, g)
        <5>1. c = 1 \/ c = 2 \/ c \in 3 .. 4
          OBVIOUS
        <5> QED
          BY <4>3, <4>4, <5>1 DEF GoodGroupOf
      <4> QED
        BY <2>2, <4>2, <4>5
    <3> QED
      BY <3>1, <3>2
  <2> QED
    BY <1>2, <1>6, <2>3, <2>4 DEF MatchesDefinition
<1> QED
  BY <1>1, <1>3, <1>4, <1>5, <1>6 DEF Functions

-----------------------------------------------------------------------------
(* The theorems *)

LEMMA Invariance == Spec => []IInv
<1>1. Init => IInv
  BY InitEstablishes
<1>2. IInv /\ [Next]_vars => IInv'
  BY NextPreserves
<1> QED
  BY <1>1, <1>2, PTL DEF Spec

\* Whatever has been stored below j is of the kind the function stores, and so
\* is every character an encoder returned.
THEOREM CodecTypeCorrect == Spec => []TypeOK
<1>1. IInv => TypeOK
  BY DEF IInv
<1> QED
  BY <1>1, Invariance, PTL

\* No codec writes outside its buffer, for texts and data of any length.
THEOREM CodecInBounds == Spec => []InBounds
<1>1. IInv => InBounds
  BY DEF IInv
<1> QED
  BY <1>1, Invariance, PTL

LEMMA AnswersInvariance == Spec => []AnswersInv
<1>1. Init => AnswersInv
  BY InitAnswers
<1>2. AnswersInv /\ [Next]_vars => AnswersInv'
  BY NextAnswers
<1> QED
  BY <1>1, <1>2, PTL DEF Spec

\* Data of any length that a session encoded decodes to the same bytes, in both
\* notations.
THEOREM CodecRoundTrip == Spec => []RoundTrip
  BY AnswersInvariance, AnswersRoundTrip, PTL

\* For arguments of any length the encoders return the text that hexadecimal and
\* RFC 4648 define; the decoders return the bytes of a well-formed text and
\* refuse one of a wrong length or with a character that is no digit.
THEOREM CodecMatchesDefinition == Spec => []MatchesDefinition
  BY AnswersInvariance, AnswersMatchDefinition, PTL

=============================================================================

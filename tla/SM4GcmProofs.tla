---------------------------- MODULE SM4GcmProofs ----------------------------
(***************************************************************************)
(* Theorems about SM4Gcm: for bytes, blocks and counters of any size, any    *)
(* block cipher and texts of any length up to the limits of the counter and  *)
(* of the length fields, sm4_gcm_encrypt and sm4_gcm_decrypt stay in their   *)
(* buffers, clean up, never encipher a counter block twice, hash an input    *)
(* that tells AAD and text apart, show no text before its tag was found      *)
(* right, answer with the ciphertext, tag, text or refusal that the          *)
(* definition of GCM has, and are an ideal box.  In particular gf128_mul is  *)
(* the product of the field and ghash the hash of the definition.            *)
(***************************************************************************)
EXTENDS SM4Gcm, SequenceTheorems, FiniteSetTheorems, WellFoundedInduction, TLAPS

-----------------------------------------------------------------------------
(* Induction and recursion over natural numbers, from well-foundedness *)

LEMMA Below ==
  ASSUME NEW T, T \subseteq Nat, T # {}
  PROVE  \E x \in T : \A y \in T : ~(y < x)
<1> DEFINE R == OpToRel(<, Nat)
<1>1. IsWellFoundedOn(R, Nat)
  BY NatLessThanWellFounded
<1>2. \A x, y \in Nat : <<y, x>> \in R <=> y < x
  BY DEF OpToRel
<1> HIDE DEF R
<1>3. PICK x \in T : \A y \in T : ~(<<y, x>> \in R)
  BY <1>1, WFMin
<1> QED
  BY <1>2, <1>3

LEMMA NatSetInduction ==
  ASSUME NEW S, 0 \in S, \A n \in Nat : n \in S => n + 1 \in S
  PROVE  Nat \subseteq S
<1> DEFINE T == Nat \ S
<1> SUFFICES ASSUME T # {} PROVE FALSE
  OBVIOUS
<1>1. PICK x \in T : \A y \in T : ~(y < x)
  BY Below
<1>2. x \in Nat /\ x # 0
  BY <1>1
<1>3. x - 1 \in Nat /\ x - 1 + 1 = x /\ x - 1 < x
  BY <1>2
<1>4. x - 1 \in S
  BY <1>1, <1>3
<1> QED
  BY <1>1, <1>3, <1>4

\* The loop that starts with z and whose round t makes F[<<x, t>>] of x.
LoopStep(V) == [V \X Nat -> V]
IsLoop(g, z, F, n) == g[0] = z /\ \A t \in 1 .. n : g[t] = F[<<g[t - 1], t>>]
HasLoop(V, z, F, n) == \E g \in [0 .. n -> V] : IsLoop(g, z, F, n)

\* A function defined by recursion over 0 .. N exists.
LEMMA Recursion ==
  ASSUME NEW V, NEW z \in V, NEW F \in LoopStep(V), NEW N \in Nat
  PROVE  HasLoop(V, z, F, N)
<1> USE DEF LoopStep
<1> DEFINE Good(n, g) == g[0] = z /\ \A t \in 1 .. n : g[t] = F[<<g[t - 1], t>>]
           S == {n \in Nat : \E g \in [0 .. n -> V] : Good(n, g)}
<1>1. 0 \in S
  <2>1. [t \in 0 .. 0 |-> z] \in [0 .. 0 -> V] /\ Good(0, [t \in 0 .. 0 |-> z])
    OBVIOUS
  <2> QED
    BY <2>1
<1>2. ASSUME NEW n \in Nat, n \in S PROVE n + 1 \in S
  <2>1. PICK g \in [0 .. n -> V] : Good(n, g)
    BY <1>2
  <2> DEFINE f == [t \in 0 .. n + 1 |-> IF t = n + 1 THEN F[<<g[n], n + 1>>] ELSE g[t]]
  <2>2. f \in [0 .. n + 1 -> V]
    <3>1. g[n] \in V
      OBVIOUS
    <3>2. F[<<g[n], n + 1>>] \in V
      BY <3>1
    <3>3. \A t \in 0 .. n + 1 : t # n + 1 => t \in 0 .. n
      OBVIOUS
    <3> QED
      BY <3>2, <3>3
  <2>3. f[0] = z
    BY <2>1
  <2>4. \A t \in 1 .. n + 1 : f[t] = F[<<f[t - 1], t>>]
    <3> TAKE t \in 1 .. n + 1
    <3>1. t \in 0 .. n + 1 /\ t - 1 \in 0 .. n + 1 /\ t - 1 # n + 1
      OBVIOUS
    <3>2. f[t - 1] = g[t - 1]
      BY <3>1
    <3>3. CASE t = n + 1
      <4>1. t - 1 = n
        BY <3>3
      <4>2. f[t] = F[<<g[n], n + 1>>]
        BY <3>1, <3>3
      <4> QED
        BY <3>2, <3>3, <4>1, <4>2
    <3>4. CASE t # n + 1
      <4>1. t \in 1 .. n
        BY <3>4
      <4>2. f[t] = g[t] /\ g[t] = F[<<g[t - 1], t>>]
        BY <2>1, <3>1, <3>4, <4>1
      <4> QED
        BY <3>2, <4>2
    <3> QED
      BY <3>3, <3>4
  <2>5. Good(n + 1, f)
    BY <2>3, <2>4
  <2> HIDE DEF f, Good
  <2> QED
    BY <2>2, <2>5
<1>3. Nat \subseteq S
  BY <1>1, <1>2, NatSetInduction
<1> QED
  BY <1>3 DEF HasLoop, IsLoop

-----------------------------------------------------------------------------
(* Quotients and remainders *)

LEMMA TimesMonotone ==
  ASSUME NEW a \in Nat, NEW b \in Nat, NEW c \in Nat, a <= b
  PROVE  c * a <= c * b /\ c * a \in Nat
<1>1. PICK d \in Nat : b = a + d
  <2>1. b - a \in Nat /\ b = a + (b - a)
    OBVIOUS
  <2> QED
    BY <2>1
<1>2. c * b = c * a + c * d
  BY <1>1
<1>3. c * d \in Nat /\ c * a \in Nat
  OBVIOUS
<1> QED
  BY <1>2, <1>3

LEMMA Quotient ==
  ASSUME NEW b \in Nat \ {0}, NEW q \in Nat, NEW r \in 0 .. b - 1, NEW n, n = b * q + r
  PROVE  n \div b = q /\ n % b = r
  OBVIOUS

LEMMA DivMod ==
  ASSUME NEW n \in Nat, NEW b \in Nat \ {0}
  PROVE  /\ n \div b \in Nat
         /\ n % b \in 0 .. b - 1
         /\ n = b * (n \div b) + (n % b)
<1> DEFINE S == {m \in Nat : \E q \in Nat, r \in 0 .. b - 1 : m = b * q + r}
<1>1. 0 \in S
  <2>1. 0 \in 0 .. b - 1 /\ 0 = b * 0 + 0
    OBVIOUS
  <2> QED
    BY <2>1
<1>2. ASSUME NEW m \in Nat, m \in S PROVE m + 1 \in S
  <2>1. PICK q \in Nat, r \in 0 .. b - 1 : m = b * q + r
    BY <1>2
  <2>2. CASE r + 1 < b
    <3>1. m + 1 = b * q + (r + 1) /\ r + 1 \in 0 .. b - 1
      <4>1. b * q \in Nat
        OBVIOUS
      <4> QED
        BY <2>1, <2>2, <4>1
    <3> QED
      BY <3>1
  <2>3. CASE r + 1 = b
    <3>1. m + 1 = b * (q + 1) + 0 /\ 0 \in 0 .. b - 1
      <4>1. b * (q + 1) = b * q + b /\ b * q \in Nat
        OBVIOUS
      <4> QED
        BY <2>1, <2>3, <4>1
    <3>2. q + 1 \in Nat
      OBVIOUS
    <3>3. \E u \in Nat, v \in 0 .. b - 1 : m + 1 = b * u + v
      BY <3>1, <3>2, Zenon
    <3> QED
      BY <3>3
  <2> QED
    BY <2>2, <2>3
<1>3. n \in S
  BY <1>1, <1>2, NatSetInduction
<1>4. PICK q \in Nat, r \in 0 .. b - 1 : n = b * q + r
  BY <1>3
<1>5. n \div b = q /\ n % b = r
  BY <1>4, Quotient
<1> QED
  BY <1>4, <1>5

\* Dividing twice.
LEMMA DivTwice ==
  ASSUME NEW n \in Nat, NEW b \in Nat \ {0}, NEW p \in Nat \ {0}
  PROVE  /\ b * p \in Nat \ {0}
         /\ (n \div b) \div p = n \div (b * p)
         /\ n % (b * p) = b * ((n \div b) % p) + (n % b)
<1> DEFINE q == n \div b
           r == n % b
           d == q \div p
           m == q % p
           s == b * m + r
<1>1. q \in Nat /\ r \in 0 .. b - 1 /\ n = b * q + r
  BY DivMod
<1>2. d \in Nat /\ m \in 0 .. p - 1 /\ q = p * d + m
  BY <1>1, DivMod
<1>3. b * p \in Nat \ {0}
  <2>1. b * 1 <= b * p
    BY TimesMonotone
  <2> QED
    BY <2>1
<1> HIDE DEF q, r, d, m
<1>4. s \in 0 .. b * p - 1
  <2>1. b * (m + 1) <= b * p
    BY <1>2, TimesMonotone
  <2>2. b * (m + 1) = b * m + b /\ b * m \in Nat
    BY <1>2
  <2> QED
    BY <1>1, <1>3, <2>1, <2>2
<1>5. n = (b * p) * d + s
  <2>1. b * q = b * (p * d) + b * m
    BY <1>2
  <2>2. b * (p * d) = (b * p) * d
    BY <1>2
  <2>3. b * m \in Nat /\ (b * p) * d \in Nat
    BY <1>2
  <2> QED
    BY <1>1, <2>1, <2>2, <2>3
<1> HIDE DEF s
<1>6. n \div (b * p) = d /\ n % (b * p) = s
  BY <1>2, <1>3, <1>4, <1>5, Quotient
<1> QED
  BY <1>3, <1>6 DEF q, r, d, m, s

LEMMA RangeInduction ==
  ASSUME NEW S, NEW w \in Nat, 0 \in S, \A k \in 0 .. w - 1 : k \in S => k + 1 \in S
  PROVE  \A k \in 0 .. w : k \in S
<1> DEFINE T == {k \in Nat : k <= w => k \in S}
<1>1. 0 \in T
  OBVIOUS
<1>2. \A k \in Nat : k \in T => k + 1 \in T
  <2> SUFFICES ASSUME NEW k \in Nat, k \in T, k + 1 <= w PROVE k + 1 \in S
    OBVIOUS
  <2>1. k \in 0 .. w - 1 /\ k \in S
    OBVIOUS
  <2> QED
    BY <2>1
<1>3. Nat \subseteq T
  BY <1>1, <1>2, NatSetInduction
<1> QED
  BY <1>3

-----------------------------------------------------------------------------
(* Numbers and their bytes *)

LEMMA Powers ==
  /\ Base \in Nat \ {0}
  /\ \A k \in 0 .. BlockSize : Base ^ k \in Nat \ {0}
  /\ Base ^ 0 = 1 /\ Base ^ 1 = Base
  /\ \A k \in 1 .. BlockSize : Base ^ k = Base * Base ^ (k - 1)
<1>1. Base \in Nat \ {0}
  BY PowerAssumption, SizeAssumption DEF Base
<1>2. BlockSize \in Nat \ {0} /\ Base ^ 0 = 1
      /\ \A k \in 0 .. BlockSize - 1 : Base ^ (k + 1) = Base * Base ^ k
  BY PowerAssumption, SizeAssumption
<1> DEFINE S == {k \in Nat : Base ^ k \in Nat \ {0}}
<1>3. 0 \in S
  BY <1>2
<1>4. ASSUME NEW k \in 0 .. BlockSize - 1, k \in S PROVE k + 1 \in S
  <2>1. Base ^ k \in Nat \ {0}
    BY <1>4
  <2>2. Base * Base ^ k \in Nat \ {0}
    BY <1>1, <2>1, DivTwice
  <2> QED
    BY <1>2, <2>2
<1>5. \A k \in 0 .. BlockSize : k \in S
  BY <1>2, <1>3, <1>4, RangeInduction
<1>6. Base ^ (0 + 1) = Base * Base ^ 0
  BY <1>2
<1>7. \A k \in 1 .. BlockSize : Base ^ k = Base * Base ^ (k - 1)
  <2> TAKE k \in 1 .. BlockSize
  <2>1. k - 1 \in 0 .. BlockSize - 1 /\ (k - 1) + 1 = k
    BY <1>2
  <2> QED
    BY <1>2, <2>1
<1> QED
  BY <1>1, <1>2, <1>5, <1>6, <1>7

\* The values of the first bytes of d, read as big-endian numbers.
IsValue(v, d, w) ==
  /\ v \in [0 .. w -> Nat]
  /\ v[0] = 0
  /\ \A j \in 1 .. w : v[j] = Base * v[j - 1] + d[j]

LEMMA ValueExists ==
  ASSUME NEW w \in Nat, NEW d, \A j \in 1 .. w : d[j] \in Byte
  PROVE  \E v : /\ IsValue(v, d, w)
                /\ v = [j \in 0 .. w |-> IF j = 0 THEN 0 ELSE Base * v[j - 1] + d[j]]
<1> DEFINE F == [p \in Nat \X Nat |-> IF p[2] \in 1 .. w THEN Base * p[1] + d[p[2]] ELSE 0]
<1>1. F \in [Nat \X Nat -> Nat]
  <2> SUFFICES ASSUME NEW p \in Nat \X Nat, p[2] \in 1 .. w PROVE Base * p[1] + d[p[2]] \in Nat
    OBVIOUS
  <2>1. p[1] \in Nat /\ d[p[2]] \in Nat
    BY Powers DEF Byte
  <2> QED
    BY <2>1, Powers
<1>2. \A x \in Nat, j \in 1 .. w : F[<<x, j>>] = Base * x + d[j]
  OBVIOUS
<1> HIDE DEF F
<1>3. PICK v \in [0 .. w -> Nat] :
        v[0] = 0 /\ \A j \in 1 .. w : v[j] = F[<<v[j - 1], j>>]
  <2>1. F \in LoopStep(Nat)
    BY <1>1 DEF LoopStep
  <2>2. HasLoop(Nat, 0, F, w)
    BY <2>1, Recursion
  <2> QED
    BY <2>2 DEF HasLoop, IsLoop
<1>4. v[0] = 0
  BY <1>3
<1>5. \A j \in 1 .. w : v[j] = Base * v[j - 1] + d[j]
  <2> TAKE j \in 1 .. w
  <2>1. j \in 0 .. w /\ j # 0 /\ j - 1 \in 0 .. w
    OBVIOUS
  <2>2. v[j] = F[<<v[j - 1], j>>]
    BY <1>3, <2>1
  <2>3. v[j - 1] \in Nat
    BY <2>1
  <2> QED
    BY <1>2, <2>2, <2>3
<1>6. v = [j \in 0 .. w |-> IF j = 0 THEN 0 ELSE Base * v[j - 1] + d[j]]
  <2>1. \A j \in 0 .. w : v[j] = IF j = 0 THEN 0 ELSE Base * v[j - 1] + d[j]
    BY <1>4, <1>5
  <2> QED
    BY <2>1
<1> QED
  BY <1>4, <1>5, <1>6 DEF IsValue

LEMMA ValueBound ==
  ASSUME NEW w \in 0 .. BlockSize, NEW d, \A j \in 1 .. w : d[j] \in Byte,
         NEW v, IsValue(v, d, w)
  PROVE  \A j \in 0 .. w : v[j] \in 0 .. Base ^ j - 1
<1> USE SizeAssumption
<1> DEFINE S == {j \in 0 .. w : v[j] \in 0 .. Base ^ j - 1}
<1>1. 0 \in S
  BY Powers DEF IsValue
<1>2. ASSUME NEW j \in 0 .. w - 1, j \in S PROVE j + 1 \in S
  <2>1. /\ j + 1 \in 1 .. w /\ (j + 1) - 1 = j /\ j + 1 \in 1 .. BlockSize /\ j \in 0 .. BlockSize
        /\ w \in Nat
    OBVIOUS
  <2>2. v[j + 1] = Base * v[j] + d[j + 1]
    BY <2>1 DEF IsValue
  <2>3. Base ^ (j + 1) = Base * Base ^ j
    BY <2>1, Powers
  <2>4. d[j + 1] \in 0 .. Base - 1
    BY <2>1 DEF Byte
  <2>5. v[j] \in Nat /\ v[j] + 1 <= Base ^ j /\ Base ^ j \in Nat /\ Base \in Nat
    BY <1>2, <2>1, Powers
  <2>6. Base * (v[j] + 1) <= Base * Base ^ j
    BY <2>5, TimesMonotone
  <2>7. Base * (v[j] + 1) = Base * v[j] + Base /\ Base * v[j] \in Nat /\ Base * Base ^ j \in Nat
    BY <2>5
  <2>8. v[j + 1] \in 0 .. Base ^ (j + 1) - 1
    BY <2>2, <2>3, <2>4, <2>5, <2>6, <2>7
  <2> QED
    BY <2>1, <2>8
<1>3. w \in Nat
  OBVIOUS
<1>4. \A j \in 0 .. w : j \in S
  BY <1>1, <1>2, <1>3, RangeInduction
<1> QED
  BY <1>4

\* Reading back what was stored gives the number, as far as it fits.
LEMMA ValueOfNumber ==
  ASSUME NEW w \in 0 .. BlockSize, NEW n \in Nat, NEW d,
         \A j \in 1 .. w : d[j] = (n \div Base ^ (w - j)) % Base,
         NEW v, IsValue(v, d, w)
  PROVE  v[w] = n % Base ^ w
<1> USE SizeAssumption
<1> DEFINE S == {j \in 0 .. w : v[j] = (n \div Base ^ (w - j)) % Base ^ j}
<1>0. w \in Nat
  OBVIOUS
<1>1. 0 \in S
  <2>1. w - 0 \in 0 .. BlockSize
    OBVIOUS
  <2>2. Base ^ (w - 0) \in Nat \ {0} /\ Base ^ 0 = 1
    BY <2>1, Powers
  <2>3. n \div Base ^ (w - 0) \in Nat
    BY <2>2, DivMod
  <2>4. \A x \in Nat : x % 1 = 0
    OBVIOUS
  <2>5. v[0] = 0
    BY DEF IsValue
  <2> QED
    BY <2>2, <2>3, <2>4, <2>5, <1>0
<1>2. ASSUME NEW j \in 0 .. w - 1, j \in S PROVE j + 1 \in S
  <2> DEFINE m == n \div Base ^ (w - (j + 1))
  <2>1. /\ j + 1 \in 1 .. w /\ (j + 1) - 1 = j /\ j + 1 \in 1 .. BlockSize /\ j \in 0 .. BlockSize
        /\ w - j \in 1 .. BlockSize /\ (w - j) - 1 = w - (j + 1) /\ w - (j + 1) \in 0 .. BlockSize
    OBVIOUS
  <2>2. v[j + 1] = Base * v[j] + d[j + 1] /\ d[j + 1] = m % Base
    BY <2>1 DEF IsValue
  <2>3. Base ^ (j + 1) = Base * Base ^ j
    BY <2>1, Powers
  <2>4. Base ^ (w - j) = Base * Base ^ (w - (j + 1))
    BY <2>1, Powers
  <2>5. Base \in Nat \ {0} /\ Base ^ j \in Nat \ {0} /\ Base ^ (w - (j + 1)) \in Nat \ {0}
    BY <2>1, Powers
  <2>6. n \div Base ^ (w - j) = m \div Base
    <3>1. Base ^ (w - (j + 1)) * Base = Base * Base ^ (w - (j + 1))
      BY <2>5
    <3>2. (n \div Base ^ (w - (j + 1))) \div Base = n \div (Base ^ (w - (j + 1)) * Base)
      BY <2>5, DivTwice
    <3> QED
      BY <2>4, <3>1, <3>2
  <2>7. m \in Nat
    BY <2>5, DivMod
  <2>8. v[j] = (m \div Base) % Base ^ j
    BY <1>2, <2>6
  <2> HIDE DEF m
  <2>9. m % (Base * Base ^ j) = Base * ((m \div Base) % Base ^ j) + (m % Base)
    BY <2>5, <2>7, DivTwice
  <2>10. v[j + 1] = m % Base ^ (j + 1)
    BY <2>2, <2>3, <2>8, <2>9
  <2> QED
    BY <2>1, <2>10 DEF m
<1>3. w \in S
  <2>1. \A j \in 0 .. w : j \in S
    BY <1>0, <1>1, <1>2, RangeInduction
  <2> QED
    BY <1>0, <2>1
<1>4. v[w] = (n \div Base ^ (w - w)) % Base ^ w
  BY <1>3
<1>5. w - w = 0 /\ n \div 1 = n
  BY <1>0
<1> QED
  BY <1>4, <1>5, Powers

\* The bytes of a value are those it was read from.
LEMMA DigitsOfValue ==
  ASSUME NEW w \in 0 .. BlockSize, NEW d, \A j \in 1 .. w : d[j] \in Byte,
         NEW v, IsValue(v, d, w)
  PROVE  \A j \in 1 .. w : d[j] = (v[w] \div Base ^ (w - j)) % Base
<1> USE SizeAssumption
<1> DEFINE S == {k \in 0 .. w : v[w] \div Base ^ k = v[w - k]}
<1>0. w \in Nat /\ v[w] \in Nat
  BY DEF IsValue
<1>a. \A j \in 1 .. w : v[j] \div Base = v[j - 1] /\ v[j] % Base = d[j]
  <2> TAKE j \in 1 .. w
  <2>1. v[j] = Base * v[j - 1] + d[j] /\ v[j - 1] \in Nat /\ d[j] \in 0 .. Base - 1
    <3>1. j - 1 \in 0 .. w
      OBVIOUS
    <3> QED
      BY <3>1 DEF IsValue, Byte
  <2>2. Base \in Nat \ {0}
    BY Powers
  <2> DEFINE n == v[j]
             q == v[j - 1]
             r == d[j]
  <2>3. n = Base * q + r /\ q \in Nat /\ r \in 0 .. Base - 1
    BY <2>1
  <2> HIDE DEF n, q, r
  <2>4. n \div Base = q /\ n % Base = r
    BY <2>2, <2>3, Quotient
  <2> QED
    BY <2>4 DEF n, q, r
<1>1. 0 \in S
  <2>1. v[w] \div 1 = v[w] /\ w - 0 = w
    BY <1>0
  <2> QED
    BY <1>0, <2>1, Powers
<1>2. ASSUME NEW k \in 0 .. w - 1, k \in S PROVE k + 1 \in S
  <2>1. /\ k \in 0 .. BlockSize /\ k + 1 \in 1 .. BlockSize /\ (k + 1) - 1 = k
        /\ w - k \in 1 .. w /\ (w - k) - 1 = w - (k + 1) /\ k + 1 \in 0 .. w
    OBVIOUS
  <2>2. Base \in Nat \ {0} /\ Base ^ k \in Nat \ {0}
    BY <2>1, Powers
  <2>3. (v[w] \div Base ^ k) \div Base = v[w] \div (Base ^ k * Base)
    <3>1. PICK n \in Nat, p \in Nat \ {0} : n = v[w] /\ p = Base ^ k
      BY <1>0, <2>2
    <3>2. (n \div p) \div Base = n \div (p * Base)
      BY <2>2, DivTwice
    <3> QED
      BY <3>1, <3>2
  <2>4. Base ^ (k + 1) = Base ^ k * Base
    <3>1. Base ^ (k + 1) = Base * Base ^ k
      BY <2>1, Powers
    <3> QED
      BY <2>2, <3>1
  <2>5. v[w - k] \div Base = v[w - (k + 1)]
    BY <1>a, <2>1
  <2>6. v[w] \div Base ^ k = v[w - k]
    BY <1>2
  <2> QED
    BY <2>1, <2>3, <2>4, <2>5, <2>6
<1>3. \A k \in 0 .. w : k \in S
  BY <1>0, <1>1, <1>2, RangeInduction
<1> TAKE j \in 1 .. w
<1>4. w - j \in 0 .. w /\ w - (w - j) = j
  OBVIOUS
<1>5. v[w] \div Base ^ (w - j) = v[j]
  BY <1>3, <1>4
<1> QED
  BY <1>5, <1>a

-----------------------------------------------------------------------------
(* Counter blocks *)

LEMMA Sizes ==
  /\ BlockSize \in Nat \ {0} /\ CounterSize \in 1 .. BlockSize - 1
  /\ Split \in 1 .. BlockSize - 1 /\ Split + CounterSize = BlockSize
  /\ BlockSize \div 2 \in 1 .. BlockSize /\ BlockSize \div 2 + BlockSize \div 2 = BlockSize
  /\ 0 \in Byte /\ Byte \subseteq Nat
<1>1. BlockSize \in Nat \ {0} /\ CounterSize \in 1 .. BlockSize - 1 /\ BlockSize % 2 = 0
  BY SizeAssumption
<1>2. Split \in 1 .. BlockSize - 1 /\ Split + CounterSize = BlockSize
  BY <1>1 DEF Split
<1>3. BlockSize \div 2 \in 1 .. BlockSize /\ BlockSize \div 2 + BlockSize \div 2 = BlockSize
  BY <1>1
<1>4. 0 \in Byte /\ Byte \subseteq Nat
  BY Powers DEF Byte
<1> QED
  BY <1>1, <1>2, <1>3, <1>4

LEMMA BlockIsSeq ==
  ASSUME NEW b \in Block
  PROVE  b \in Seq(Byte) /\ Len(b) = BlockSize /\ \A j \in 1 .. BlockSize : b[j] \in Byte
<1>1. b \in [1 .. BlockSize -> Byte] /\ BlockSize \in Nat
  BY Sizes DEF Block
<1>2. b \in Seq(Byte)
  BY <1>1, SeqDef
<1>3. DOMAIN b = 1 .. BlockSize /\ DOMAIN b = 1 .. Len(b) /\ Len(b) \in Nat
  BY <1>1, <1>2, LenProperties
<1>4. Len(b) = BlockSize
  BY <1>1, <1>3
<1> QED
  BY <1>1, <1>2, <1>4

LEMMA SeqIsBlock ==
  ASSUME NEW b \in Seq(Byte), Len(b) = BlockSize
  PROVE  b \in Block
<1>1. b \in [1 .. Len(b) -> Byte]
  BY LenProperties
<1> QED
  BY <1>1 DEF Block

LEMMA BigEndianType ==
  ASSUME NEW n \in Nat, NEW w \in 0 .. BlockSize
  PROVE  /\ BigEndian(n, w) \in [1 .. w -> Byte]
         /\ BigEndian(n, w) \in Seq(Byte) /\ Len(BigEndian(n, w)) = w
         /\ \A j \in 1 .. w : BigEndian(n, w)[j] = (n \div Base ^ (w - j)) % Base
<1> DEFINE d == BigEndian(n, w)
<1>1. w \in Nat
  BY Sizes
<1>2. d = [j \in 1 .. w |-> (n \div Base ^ (w - j)) % Base]
  BY DEF BigEndian
<1>3. \A j \in 1 .. w : (n \div Base ^ (w - j)) % Base \in Byte
  <2> TAKE j \in 1 .. w
  <2>1. w - j \in 0 .. BlockSize
    BY Sizes
  <2>2. PICK p \in Nat \ {0} : p = Base ^ (w - j)
    BY <2>1, Powers
  <2>3. n \div p \in Nat
    BY DivMod
  <2>4. (n \div p) % Base \in 0 .. Base - 1
    BY <2>3, Powers, DivMod
  <2> QED
    BY <2>2, <2>4 DEF Byte
<1> HIDE DEF d
<1>4. d \in [1 .. w -> Byte]
  BY <1>2, <1>3
<1>5. d \in Seq(Byte)
  BY <1>1, <1>4, SeqDef
<1>6. DOMAIN d = 1 .. w /\ DOMAIN d = 1 .. Len(d) /\ Len(d) \in Nat
  BY <1>4, <1>5, LenProperties
<1>7. Len(d) = w
  BY <1>1, <1>6
<1> QED
  BY <1>2, <1>4, <1>5, <1>7 DEF d

Low(b) == [j \in 1 .. CounterSize |-> b[Split + j]]

LEMMA LowType ==
  ASSUME NEW b \in Block
  PROVE  \A j \in 1 .. CounterSize : Low(b)[j] = b[Split + j] /\ Low(b)[j] \in Byte
<1> TAKE j \in 1 .. CounterSize
<1>1. Split + j \in 1 .. BlockSize
  BY Sizes
<1>2. b[Split + j] \in Byte
  BY <1>1 DEF Block
<1> QED
  BY <1>2 DEF Low

LEMMA CounterIsValue ==
  ASSUME NEW b \in Block
  PROVE  \E v : IsValue(v, Low(b), CounterSize) /\ CounterValue(b) = v[CounterSize]
<1> DEFINE value[j \in 0 .. CounterSize] ==
             IF j = 0 THEN 0 ELSE Base * value[j - 1] + b[Split + j]
<1>1. CounterValue(b) = value[CounterSize]
  BY DEF CounterValue
<1>2. CounterSize \in Nat
  BY Sizes
<1>3. PICK v : /\ IsValue(v, Low(b), CounterSize)
               /\ v = [j \in 0 .. CounterSize |->
                         IF j = 0 THEN 0 ELSE Base * v[j - 1] + Low(b)[j]]
  BY <1>2, LowType, ValueExists
<1>4. v = [j \in 0 .. CounterSize |-> IF j = 0 THEN 0 ELSE Base * v[j - 1] + b[Split + j]]
  <2>1. \A j \in 0 .. CounterSize : j # 0 => j \in 1 .. CounterSize
    BY <1>2
  <2>2. \A j \in 0 .. CounterSize : j # 0 => Low(b)[j] = b[Split + j]
    BY <2>1, LowType
  <2> QED
    BY <1>3, <2>2
<1>5. value = [j \in 0 .. CounterSize |-> IF j = 0 THEN 0 ELSE Base * value[j - 1] + b[Split + j]]
  BY <1>4, Zenon
<1> HIDE DEF value
<1>6. value[0] = 0 /\ \A j \in 1 .. CounterSize : value[j] = Base * value[j - 1] + Low(b)[j]
  <2>1. value[0] = 0
    BY <1>2, <1>5
  <2>2. ASSUME NEW j \in 1 .. CounterSize PROVE value[j] = Base * value[j - 1] + Low(b)[j]
    <3>1. j \in 0 .. CounterSize /\ j # 0
      BY <1>2
    <3>2. value[j] = Base * value[j - 1] + b[Split + j]
      BY <1>5, <3>1
    <3> QED
      BY <3>2, LowType
  <2> QED
    BY <2>1, <2>2
<1>7. value \in [0 .. CounterSize -> Nat]
  <2> DEFINE S == {j \in 0 .. CounterSize : value[j] \in Nat}
  <2>1. 0 \in S
    BY <1>2, <1>6
  <2>2. ASSUME NEW j \in 0 .. CounterSize - 1, j \in S PROVE j + 1 \in S
    <3>1. j + 1 \in 1 .. CounterSize /\ (j + 1) - 1 = j /\ j + 1 \in 0 .. CounterSize
      BY <1>2
    <3>2. value[j + 1] = Base * value[j] + Low(b)[j + 1]
      BY <1>6, <3>1
    <3>3. value[j] \in Nat /\ Low(b)[j + 1] \in Nat
      BY <2>2, <3>1, LowType, Sizes
    <3>4. value[j + 1] \in Nat
      BY <3>2, <3>3, Powers
    <3> QED
      BY <3>1, <3>4
  <2>3. \A j \in 0 .. CounterSize : j \in S
    BY <1>2, <2>1, <2>2, RangeInduction
  <2>4. \A j \in 0 .. CounterSize : value[j] \in Nat
    BY <2>3
  <2>5. DOMAIN value = 0 .. CounterSize /\ value = [j \in DOMAIN value |-> value[j]]
    BY <1>5
  <2> QED
    BY <2>4, <2>5
<1> QED
  BY <1>1, <1>6, <1>7 DEF IsValue

Counters == Base ^ CounterSize

LEMMA CounterDigits ==
  ASSUME NEW b \in Block
  PROVE  /\ CounterValue(b) \in 0 .. Counters - 1
         /\ \A j \in 1 .. CounterSize : b[Split + j] = BigEndian(CounterValue(b), CounterSize)[j]
<1>1. PICK v : IsValue(v, Low(b), CounterSize) /\ CounterValue(b) = v[CounterSize]
  BY CounterIsValue
<1>2. CounterSize \in 0 .. BlockSize /\ CounterSize \in 0 .. CounterSize
  BY Sizes
<1>3. v[CounterSize] \in 0 .. Counters - 1
  BY <1>1, <1>2, LowType, ValueBound DEF Counters
<1>4. \A j \in 1 .. CounterSize : Low(b)[j] = (v[CounterSize] \div Base ^ (CounterSize - j)) % Base
  BY <1>1, <1>2, LowType, DigitsOfValue
<1>5. Counters \in Nat
  BY <1>2, Powers DEF Counters
<1>6. CounterValue(b) \in Nat
  BY <1>1, <1>3, <1>5
<1> QED
  BY <1>1, <1>2, <1>3, <1>4, <1>6, LowType, BigEndianType

LEMMA CounterOfDigits ==
  ASSUME NEW b \in Block, NEW n \in Nat,
         \A j \in 1 .. CounterSize : b[Split + j] = BigEndian(n, CounterSize)[j]
  PROVE  CounterValue(b) = n % Counters
<1>1. PICK v : IsValue(v, Low(b), CounterSize) /\ CounterValue(b) = v[CounterSize]
  BY CounterIsValue
<1>2. CounterSize \in 0 .. BlockSize
  BY Sizes
<1>3. \A j \in 1 .. CounterSize : Low(b)[j] = (n \div Base ^ (CounterSize - j)) % Base
  BY <1>2, LowType, BigEndianType
<1> QED
  BY <1>1, <1>2, <1>3, ValueOfNumber DEF Counters

\* An integer stored in too few bytes is stored modulo their range.
LEMMA BigEndianModulo ==
  ASSUME NEW n \in Nat
  PROVE  /\ n % Counters \in Nat
         /\ BigEndian(n % Counters, CounterSize) = BigEndian(n, CounterSize)
<1> DEFINE d == BigEndian(n, CounterSize)
           b == [j \in 1 .. BlockSize |-> IF j > Split THEN d[j - Split] ELSE 0]
           e == BigEndian(n % Counters, CounterSize)
<1>1. CounterSize \in 0 .. BlockSize
  BY Sizes
<1>2. d \in [1 .. CounterSize -> Byte]
  BY <1>1, BigEndianType
<1>3. Counters \in Nat \ {0} /\ n % Counters \in Nat
  BY <1>1, Powers, DivMod DEF Counters
<1>4. e \in [1 .. CounterSize -> Byte]
  BY <1>1, <1>3, BigEndianType
<1> HIDE DEF d
<1>5. b \in Block
  <2>1. \A j \in 1 .. BlockSize : j > Split => j - Split \in 1 .. CounterSize
    BY Sizes
  <2> QED
    BY <1>2, <2>1, Sizes DEF Block
<1>6. \A j \in 1 .. CounterSize : b[Split + j] = d[j]
  <2> TAKE j \in 1 .. CounterSize
  <2>1. Split + j \in 1 .. BlockSize /\ Split + j > Split /\ (Split + j) - Split = j
    BY Sizes
  <2> QED
    BY <2>1
<1> HIDE DEF b
<1>7. CounterValue(b) = n % Counters
  BY <1>5, <1>6, CounterOfDigits DEF d
<1>8. \A j \in 1 .. CounterSize : b[Split + j] = e[j]
  BY <1>5, <1>7, CounterDigits
<1> HIDE DEF e
<1>9. \A j \in 1 .. CounterSize : e[j] = d[j]
  BY <1>6, <1>8
<1>10. e = d
  <2>1. /\ e = [j \in 1 .. CounterSize |-> e[j]]
        /\ d = [j \in 1 .. CounterSize |-> d[j]]
    BY <1>2, <1>4
  <2> QED
    BY <1>9, <2>1
<1> QED
  BY <1>3, <1>10 DEF d, e

LEMMA ModuloAdd ==
  ASSUME NEW x \in Nat, NEW y \in Nat, NEW m \in Nat \ {0}
  PROVE  x % m \in 0 .. m - 1 /\ ((x % m) + y) % m = (x + y) % m
<1> DEFINE q == x \div m
           r == x % m
           s == (r + y) \div m
           t == (r + y) % m
<1>1. q \in Nat /\ r \in 0 .. m - 1 /\ x = m * q + r
  BY DivMod
<1> HIDE DEF q, r
<1>2. r + y \in Nat
  BY <1>1
<1>3. s \in Nat /\ t \in 0 .. m - 1 /\ r + y = m * s + t
  BY <1>2, DivMod
<1> HIDE DEF s, t
<1>4. x + y = m * (q + s) + t
  <2>1. m * (q + s) = m * q + m * s /\ m * q \in Nat /\ m * s \in Nat
    BY <1>1, <1>3
  <2> QED
    BY <1>1, <1>3, <2>1
<1>5. (x + y) % m = t
  <2>1. q + s \in Nat /\ x + y \in Nat
    BY <1>1, <1>3
  <2>2. PICK n \in Nat, u \in Nat : n = x + y /\ u = q + s
    BY <2>1
  <2>3. n = m * u + t
    BY <1>4, <2>2
  <2>4. n % m = t
    BY <1>3, <2>3, Quotient
  <2> QED
    BY <2>2, <2>4
<1> QED
  BY <1>1, <1>5 DEF r, t

LEMMA ModuloDistinct ==
  ASSUME NEW m \in Nat \ {0}, NEW x \in Nat, NEW k \in 0 .. m - 1, NEW l \in 0 .. m - 1,
         (x + k) % m = (x + l) % m
  PROVE  k = l
<1>1. PICK a \in Nat : x + k = m * a + ((x + k) % m)
  <2>1. x + k \in Nat
    OBVIOUS
  <2> QED
    BY <2>1, DivMod
<1>2. PICK c \in Nat : x + l = m * c + ((x + l) % m)
  <2>1. x + l \in Nat
    OBVIOUS
  <2> QED
    BY <2>1, DivMod
<1>3. m * a \in Nat /\ m * c \in Nat
  OBVIOUS
<1>4. k - l = m * a - m * c
  <2>1. (x + k) % m \in Nat
    OBVIOUS
  <2> QED
    BY <1>1, <1>2, <1>3, <2>1
<1>5. ~(a < c)
  <2> SUFFICES ASSUME a < c PROVE FALSE
    OBVIOUS
  <2>1. m * (a + 1) <= m * c /\ m * (a + 1) = m * a + m
    BY TimesMonotone
  <2> QED
    BY <1>3, <1>4, <2>1
<1>6. ~(c < a)
  <2> SUFFICES ASSUME c < a PROVE FALSE
    OBVIOUS
  <2>1. m * (c + 1) <= m * a /\ m * (c + 1) = m * c + m
    BY TimesMonotone
  <2> QED
    BY <1>3, <1>4, <2>1
<1>7. a = c
  BY <1>5, <1>6
<1> QED
  BY <1>3, <1>4, <1>7

LEMMA CounterAfterFacts ==
  ASSUME NEW b \in Block, NEW k \in Nat
  PROVE  /\ CounterAfter(b, k) \in Block
         /\ \A j \in 1 .. Split : CounterAfter(b, k)[j] = b[j]
         /\ \A j \in 1 .. CounterSize :
              CounterAfter(b, k)[Split + j] = BigEndian(CounterValue(b) + k, CounterSize)[j]
         /\ CounterValue(CounterAfter(b, k)) = (CounterValue(b) + k) % Counters
<1> DEFINE c == CounterAfter(b, k)
           x == CounterValue(b) + k
           head == SubSeq(b, 1, Split)
           low == BigEndian(x % Counters, CounterSize)
<1>1. c = head \o low
  BY DEF CounterAfter, Counters
<1>2. x \in Nat /\ Counters \in Nat \ {0}
  <2>1. Counters \in Nat \ {0}
    BY Sizes, Powers DEF Counters
  <2> QED
    BY <2>1, CounterDigits
<1>3. b \in Seq(Byte) /\ Len(b) = BlockSize
  BY BlockIsSeq
<1>4. head \in Seq(Byte) /\ Len(head) = Split /\ \A j \in 1 .. Split : head[j] = b[j]
  <2>1. 1 \in 1 .. Len(b) + 1 /\ Split \in 0 .. Len(b)
    BY <1>3, Sizes
  <2>2. head \in Seq(Byte) /\ Len(head) = Split
    BY <1>3, <2>1, Sizes, SubSeqProperties
  <2>3. \A j \in 1 .. Split - 1 + 1 : head[j] = b[1 + j - 1]
    BY <1>3, <2>1, SubSeqProperties
  <2>4. \A j \in 1 .. Split : j \in 1 .. Split - 1 + 1 /\ 1 + j - 1 = j
    BY Sizes
  <2> QED
    BY <2>2, <2>3, <2>4
<1>5. low = BigEndian(x, CounterSize)
  BY <1>2, BigEndianModulo
<1>6. low \in Seq(Byte) /\ Len(low) = CounterSize
  BY <1>2, <1>5, Sizes, BigEndianType
<1> HIDE DEF c, head, low, x
<1>7. c \in Seq(Byte) /\ Len(c) = BlockSize
  BY <1>1, <1>4, <1>6, Sizes, ConcatProperties
<1>8. c \in Block
  BY <1>7, SeqIsBlock
<1>9. \A j \in 1 .. Split : c[j] = b[j]
  <2> TAKE j \in 1 .. Split
  <2>1. j \in 1 .. Len(head) + Len(low) /\ j <= Len(head)
    BY <1>4, <1>6, Sizes
  <2>2. c[j] = head[j]
    BY <1>1, <1>4, <1>6, <2>1, ConcatProperties
  <2> QED
    BY <1>4, <2>2
<1>10. \A j \in 1 .. CounterSize : c[Split + j] = low[j]
  <2> TAKE j \in 1 .. CounterSize
  <2>1. /\ Split + j \in 1 .. Len(head) + Len(low) /\ ~(Split + j <= Len(head))
        /\ (Split + j) - Len(head) = j
    BY <1>4, <1>6, Sizes
  <2>2. c[Split + j] = low[(Split + j) - Len(head)]
    BY <1>1, <1>4, <1>6, <2>1, ConcatProperties
  <2> QED
    BY <2>1, <2>2
<1>11. CounterValue(c) = x % Counters
  BY <1>2, <1>5, <1>8, <1>10, CounterOfDigits
<1> QED
  BY <1>5, <1>8, <1>9, <1>10, <1>11 DEF c, x

\* Blocks are equal where their first bytes and their counter bytes are.
LEMMA SameBlock ==
  ASSUME NEW a \in Block, NEW b \in Block,
         \A j \in 1 .. Split : a[j] = b[j],
         \A j \in 1 .. CounterSize : a[Split + j] = b[Split + j]
  PROVE  a = b
<1>1. \A j \in 1 .. BlockSize : a[j] = b[j]
  <2> TAKE j \in 1 .. BlockSize
  <2>1. CASE j \in 1 .. Split
    BY <2>1
  <2>2. CASE j \notin 1 .. Split
    <3>1. j - Split \in 1 .. CounterSize /\ Split + (j - Split) = j
      BY <2>2, Sizes
    <3>2. a[Split + (j - Split)] = b[Split + (j - Split)]
      BY <3>1
    <3> QED
      BY <3>1, <3>2
  <2> QED
    BY <2>1, <2>2
<1>2. a \in [1 .. BlockSize -> Byte] /\ b \in [1 .. BlockSize -> Byte]
  BY DEF Block
<1>3. a = [j \in 1 .. BlockSize |-> a[j]] /\ b = [j \in 1 .. BlockSize |-> b[j]]
  BY <1>2
<1> QED
  BY <1>1, <1>3

LEMMA CounterStart ==
  ASSUME NEW b \in Block
  PROVE  CounterAfter(b, 0) = b
<1>1. CounterValue(b) + 0 = CounterValue(b)
  BY CounterDigits, Sizes, Powers DEF Counters
<1>2. 0 \in Nat
  OBVIOUS
<1>3. /\ CounterAfter(b, 0) \in Block
      /\ \A j \in 1 .. Split : CounterAfter(b, 0)[j] = b[j]
      /\ \A j \in 1 .. CounterSize :
           CounterAfter(b, 0)[Split + j] = BigEndian(CounterValue(b) + 0, CounterSize)[j]
  BY <1>2, CounterAfterFacts
<1>4. \A j \in 1 .. CounterSize : CounterAfter(b, 0)[Split + j] = b[Split + j]
  BY <1>1, <1>3, CounterDigits
<1> QED
  BY <1>3, <1>4, SameBlock

\* gcm_inc32 is the next counter block of the definition.
LEMMA IncIsNext ==
  ASSUME NEW b \in Block, NEW k \in Nat
  PROVE  Inc(CounterAfter(b, k)) = CounterAfter(b, k + 1)
<1> DEFINE c == CounterAfter(b, k)
           d == CounterAfter(b, k + 1)
           x == CounterValue(b) + k
           low == BigEndian(CounterValue(c) + 1, CounterSize)
           e == [j \in 1 .. BlockSize |-> IF j > Split THEN low[j - Split] ELSE c[j]]
<1>1. Inc(c) = e
  BY DEF Inc
<1>2. Counters \in Nat \ {0} /\ x \in Nat /\ x + 1 = CounterValue(b) + (k + 1) /\ k + 1 \in Nat
  <2>1. Counters \in Nat \ {0}
    BY Sizes, Powers DEF Counters
  <2> QED
    BY <2>1, CounterDigits
<1>3. /\ c \in Block
      /\ \A j \in 1 .. Split : c[j] = b[j]
      /\ CounterValue(c) = x % Counters
  BY CounterAfterFacts
<1>4. /\ d \in Block
      /\ \A j \in 1 .. Split : d[j] = b[j]
      /\ \A j \in 1 .. CounterSize :
           d[Split + j] = BigEndian(CounterValue(b) + (k + 1), CounterSize)[j]
  BY <1>2, CounterAfterFacts
<1> HIDE DEF c, d
<1>5. low = BigEndian(x + 1, CounterSize)
  <2>1. x % Counters \in Nat /\ (x % Counters) + 1 \in Nat /\ x + 1 \in Nat
    <3>1. x % Counters \in Nat
      BY <1>2, BigEndianModulo
    <3> QED
      BY <1>2, <3>1
  <2>2. ((x % Counters) + 1) % Counters = (x + 1) % Counters
    BY <1>2, ModuloAdd
  <2>3. BigEndian((x % Counters) + 1, CounterSize)
          = BigEndian(((x % Counters) + 1) % Counters, CounterSize)
    BY <2>1, BigEndianModulo
  <2>4. BigEndian(x + 1, CounterSize) = BigEndian((x + 1) % Counters, CounterSize)
    BY <2>1, BigEndianModulo
  <2> QED
    BY <1>3, <2>2, <2>3, <2>4
<1>6. \A j \in 1 .. CounterSize : low[j] \in Byte
  <2>1. PICK n \in Nat : n = x + 1
    BY <1>2
  <2>2. BigEndian(n, CounterSize) \in [1 .. CounterSize -> Byte]
    BY Sizes, BigEndianType
  <2>3. low = BigEndian(n, CounterSize)
    BY <1>5, <2>1
  <2> HIDE DEF low
  <2> QED
    BY <2>2, <2>3
<1> HIDE DEF x, low
<1>7. e \in Block
  <2> SUFFICES ASSUME NEW j \in 1 .. BlockSize
               PROVE  IF j > Split THEN low[j - Split] \in Byte ELSE c[j] \in Byte
    BY DEF Block
  <2>1. j > Split => j - Split \in 1 .. CounterSize
    BY Sizes
  <2> QED
    BY <1>3, <1>6, <2>1 DEF Block
<1>8. \A j \in 1 .. Split : e[j] = d[j]
  <2>1. \A j \in 1 .. Split : j \in 1 .. BlockSize /\ ~(j > Split)
    BY Sizes
  <2> QED
    BY <1>3, <1>4, <2>1
<1>9. \A j \in 1 .. CounterSize : e[Split + j] = d[Split + j]
  <2> TAKE j \in 1 .. CounterSize
  <2>1. Split + j \in 1 .. BlockSize /\ Split + j > Split /\ (Split + j) - Split = j
    BY Sizes
  <2>2. e[Split + j] = low[j]
    BY <2>1
  <2> QED
    BY <1>2, <1>4, <1>5, <2>2
<1> HIDE DEF e
<1>10. e = d
  BY <1>4, <1>7, <1>8, <1>9, SameBlock
<1> QED
  BY <1>1, <1>10 DEF c, d

\* Counter blocks do not come back before the counter has been through its values.
LEMMA CountersDiffer ==
  ASSUME NEW b \in Block, NEW k \in 0 .. Counters - 1, NEW l \in 0 .. Counters - 1,
         CounterAfter(b, k) = CounterAfter(b, l)
  PROVE  k = l
<1>1. Counters \in Nat \ {0}
  BY Sizes, Powers DEF Counters
<1>2. CounterValue(b) \in Nat
  BY <1>1, CounterDigits
<1>3. k \in Nat /\ l \in Nat
  BY <1>1
<1>4. (CounterValue(b) + k) % Counters = (CounterValue(b) + l) % Counters
  BY <1>3, CounterAfterFacts
<1> QED
  BY <1>1, <1>2, <1>4, ModuloDistinct

-----------------------------------------------------------------------------
(* The parity of the size of a set: sums in GF(2) *)

Odd(S) == Cardinality(S) % 2 = 1

LEMMA OddEmpty == ~Odd({})
<1>1. Cardinality({}) = 0
  BY FS_EmptySet
<1> QED
  BY <1>1 DEF Odd

LEMMA OddAdd ==
  ASSUME NEW S, IsFiniteSet(S), NEW x, x \notin S
  PROVE  IsFiniteSet(S \cup {x}) /\ (Odd(S \cup {x}) <=> ~Odd(S))
<1>1. /\ IsFiniteSet(S \cup {x})
      /\ Cardinality(S \cup {x}) = IF x \in S THEN Cardinality(S) ELSE Cardinality(S) + 1
  BY FS_AddElement
<1>2. PICK n \in Nat : n = Cardinality(S)
  BY FS_CardinalityType
<1>3. Cardinality(S \cup {x}) = n + 1
  BY <1>1, <1>2
<1>4. (n + 1) % 2 = 1 <=> ~(n % 2 = 1)
  OBVIOUS
<1> QED
  BY <1>1, <1>2, <1>3, <1>4 DEF Odd

LEMMA OddSingle ==
  ASSUME NEW x
  PROVE  Odd({x})
<1>1. Cardinality({x}) = 1
  BY FS_Singleton
<1> QED
  BY <1>1 DEF Odd

LEMMA OddUnion ==
  ASSUME NEW S, NEW T, IsFiniteSet(S), IsFiniteSet(T), S \cap T = {}
  PROVE  IsFiniteSet(S \cup T) /\ (Odd(S \cup T) <=> ~(Odd(S) <=> Odd(T)))
<1>1. /\ IsFiniteSet(S \cup T)
      /\ Cardinality(S \cup T) = Cardinality(S) + Cardinality(T) - Cardinality(S \cap T)
  BY FS_Union
<1>2. Cardinality(S \cap T) = 0
  BY FS_EmptySet
<1>3. PICK m \in Nat, n \in Nat : m = Cardinality(S) /\ n = Cardinality(T)
  BY FS_CardinalityType
<1>4. Cardinality(S \cup T) = m + n
  BY <1>1, <1>2, <1>3
<1>5. (m + n) % 2 = 1 <=> ~(m % 2 = 1 <=> n % 2 = 1)
  OBVIOUS
<1> QED
  BY <1>1, <1>3, <1>4, <1>5 DEF Odd

\* The sum of two sums.
LEMMA OddSymDiff ==
  ASSUME NEW S, NEW T, IsFiniteSet(S), IsFiniteSet(T)
  PROVE  IsFiniteSet(SymDiff(S, T)) /\ (Odd(SymDiff(S, T)) <=> ~(Odd(S) <=> Odd(T)))
<1> DEFINE a == S \ T
           b == T \ S
           c == S \cap T
<1>1. IsFiniteSet(a) /\ IsFiniteSet(b) /\ IsFiniteSet(c)
  <2>1. a \in SUBSET S /\ b \in SUBSET T /\ c \in SUBSET S
    OBVIOUS
  <2> QED
    BY <2>1, FS_Subset
<1>2. S = a \cup c /\ a \cap c = {} /\ T = b \cup c /\ b \cap c = {} /\ a \cap b = {}
  OBVIOUS
<1>3. SymDiff(S, T) = a \cup b
  BY DEF SymDiff
<1> HIDE DEF a, b, c
<1>4. Odd(a \cup c) <=> ~(Odd(a) <=> Odd(c))
  BY <1>1, <1>2, OddUnion
<1>5. Odd(b \cup c) <=> ~(Odd(b) <=> Odd(c))
  BY <1>1, <1>2, OddUnion
<1>6. IsFiniteSet(a \cup b) /\ (Odd(a \cup b) <=> ~(Odd(a) <=> Odd(b)))
  BY <1>1, <1>2, OddUnion
<1> QED
  BY <1>2, <1>3, <1>4, <1>5, <1>6

LEMMA OddImage ==
  ASSUME NEW S, IsFiniteSet(S), NEW x
  PROVE  IsFiniteSet({x} \X S) /\ (Odd({x} \X S) <=> Odd(S))
<1> DEFINE f == [s \in S |-> <<x, s>>]
<1>1. f \in Bijection(S, {x} \X S)
  <2>1. f \in [S -> {x} \X S]
    OBVIOUS
  <2>2. \A r, s \in S : f[r] = f[s] => r = s
    OBVIOUS
  <2>3. \A p \in {x} \X S : \E s \in S : f[s] = p
    OBVIOUS
  <2> HIDE DEF f
  <2> QED
    BY <2>1, <2>2, <2>3 DEF Bijection, Injection, Surjection, IsInjective
<1>2. ExistsBijection(S, {x} \X S)
  BY <1>1 DEF ExistsBijection
<1>3. IsFiniteSet({x} \X S) /\ Cardinality({x} \X S) = Cardinality(S)
  BY <1>2, FS_Bijection
<1> QED
  BY <1>3 DEF Odd

-----------------------------------------------------------------------------
(* Polynomials as sets of exponents *)

Positions == 0 .. NumBits - 1

Poly == SUBSET Positions

LEMMA PositionFacts ==
  /\ NumBits \in Nat \ {0} /\ ByteBits \in Nat \ {0} /\ ByteBits <= NumBits
  /\ IsFiniteSet(Positions) /\ Reduced \subseteq 0 .. ByteBits - 1 /\ Reduced \in Poly
  /\ \A A \in Poly : IsFiniteSet(A)
<1>1. BlockSize \in Nat \ {0} /\ ByteBits \in Nat \ {0} /\ 1 <= BlockSize
  BY SizeAssumption
<1>2. ByteBits * 1 <= ByteBits * BlockSize /\ ByteBits * BlockSize = BlockSize * ByteBits
      /\ ByteBits * BlockSize \in Nat
  BY <1>1, TimesMonotone
<1>3. NumBits \in Nat \ {0} /\ ByteBits <= NumBits
  BY <1>1, <1>2 DEF NumBits
<1>4. IsFiniteSet(Positions)
  BY <1>3, FS_Interval DEF Positions
<1>5. Reduced \subseteq 0 .. ByteBits - 1
  BY DEF Reduced
<1>6. Reduced \in Poly
  BY <1>1, <1>3, <1>5 DEF Poly, Positions
<1>7. \A A \in Poly : IsFiniteSet(A)
  BY <1>4, FS_Subset DEF Poly
<1> QED
  BY <1>1, <1>3, <1>4, <1>5, <1>6, <1>7

\* The sum of the polynomials P[i].
Sum(I, P) == {t \in Positions : Odd({x \in I : t \in P[x]})}

\* The product by x.
TimesVar(A) ==
  {t \in Positions : ~(t > 0 /\ t - 1 \in A <=> t \in Reduced /\ NumBits - 1 \in A)}

LEMMA TimesVarSum ==
  ASSUME NEW I, IsFiniteSet(I), NEW P \in [I -> Poly], NEW Q \in [I -> Poly],
         \A x \in I : Q[x] = TimesVar(P[x])
  PROVE  TimesVar(Sum(I, P)) = Sum(I, Q)
<1> SUFFICES ASSUME NEW t \in Positions
             PROVE  t \in TimesVar(Sum(I, P)) <=> Odd({x \in I : t \in Q[x]})
  BY DEF Sum, TimesVar
<1> DEFINE low == {x \in I : t > 0 /\ t - 1 \in P[x]}
           high == {x \in I : t \in Reduced /\ NumBits - 1 \in P[x]}
<1>1. IsFiniteSet(low) /\ IsFiniteSet(high)
  <2>1. low \in SUBSET I /\ high \in SUBSET I
    OBVIOUS
  <2> QED
    BY <2>1, FS_Subset
<1>2. {x \in I : t \in Q[x]} = SymDiff(low, high)
  BY DEF TimesVar, SymDiff
<1>3. Odd(low) <=> t > 0 /\ t - 1 \in Sum(I, P)
  <2>1. CASE t > 0
    <3>1. t - 1 \in Positions
      BY <2>1, PositionFacts DEF Positions
    <3>2. low = {x \in I : t - 1 \in P[x]}
      BY <2>1
    <3> HIDE DEF low
    <3> QED
      BY <2>1, <3>1, <3>2 DEF Sum
  <2>2. CASE ~(t > 0)
    <3>1. low = {}
      BY <2>2
    <3> QED
      BY <2>2, <3>1, OddEmpty
  <2> QED
    BY <2>1, <2>2
<1>4. Odd(high) <=> t \in Reduced /\ NumBits - 1 \in Sum(I, P)
  <2>1. CASE t \in Reduced
    <3>1. NumBits - 1 \in Positions
      BY PositionFacts DEF Positions
    <3>2. high = {x \in I : NumBits - 1 \in P[x]}
      BY <2>1
    <3> HIDE DEF high
    <3> QED
      BY <2>1, <3>1, <3>2 DEF Sum
  <2>2. CASE t \notin Reduced
    <3>1. high = {}
      BY <2>2
    <3> QED
      BY <2>2, <3>1, OddEmpty
  <2> QED
    BY <2>1, <2>2
<1>5. Odd(SymDiff(low, high)) <=> ~(Odd(low) <=> Odd(high))
  BY <1>1, OddSymDiff
<1> HIDE DEF low, high
<1> QED
  BY <1>2, <1>3, <1>4, <1>5 DEF TimesVar

-----------------------------------------------------------------------------
(* The powers of x *)

Exps == 0 .. 2 * NumBits - 1

\* One entry of the table of powers, from those before it.
Entry(p, k) ==
  IF k < NumBits THEN {k}
  ELSE {t \in Positions : Odd({u \in Reduced : t \in p[k - NumBits + u]})}

LEMMA EntryFacts ==
  ASSUME NEW k \in Exps
  PROVE  /\ \A p : Entry(p, k) \in Poly
         /\ \A p, q : (\A l \in 0 .. k - 1 : p[l] = q[l]) => Entry(p, k) = Entry(q, k)
         /\ k >= NumBits => \A u \in Reduced : k - NumBits + u \in 0 .. k - 1
<1>1. NumBits \in Nat \ {0}
  BY PositionFacts
<1>2. \A p : Entry(p, k) \in Poly
  BY <1>1 DEF Entry, Poly, Positions, Exps
<1>3. k >= NumBits => \A u \in Reduced : k - NumBits + u \in 0 .. k - 1
  <2> SUFFICES ASSUME k >= NumBits, NEW u \in Reduced PROVE k - NumBits + u \in 0 .. k - 1
    OBVIOUS
  <2>1. u \in Nat /\ u < NumBits /\ k \in Nat
    BY <1>1, PositionFacts DEF Exps
  <2> QED
    BY <1>1, <2>1
<1>4. ASSUME NEW p, NEW q, \A l \in 0 .. k - 1 : p[l] = q[l]
      PROVE  Entry(p, k) = Entry(q, k)
  <2>1. CASE k < NumBits
    BY <2>1 DEF Entry
  <2>2. CASE ~(k < NumBits)
    <3>1. \A u \in Reduced : p[k - NumBits + u] = q[k - NumBits + u]
      BY <1>1, <1>3, <1>4, <2>2 DEF Exps
    <3>2. \A t : {u \in Reduced : t \in p[k - NumBits + u]} = {u \in Reduced : t \in q[k - NumBits + u]}
      BY <3>1
    <3> QED
      BY <2>2, <3>2 DEF Entry
  <2> QED
    BY <2>1, <2>2
<1> QED
  BY <1>2, <1>3, <1>4

LEMMA PowerTable == \E p \in [Exps -> Poly] : p = [k \in Exps |-> Entry(p, k)]
<1> DEFINE V == [Exps -> Poly]
           M == 2 * NumBits
           next(p, s) == [p EXCEPT ![s - 1] = Entry(p, s - 1)]
           F == [a \in V \X Nat |-> IF a[2] \in 1 .. M THEN next(a[1], a[2]) ELSE a[1]]
           z == [k \in Exps |-> {}]
<1>1. M \in Nat /\ Exps = 0 .. M - 1
  BY PositionFacts DEF Exps
<1>2. z \in V
  BY DEF Poly
<1>3. \A p \in V, s \in 1 .. M : next(p, s) \in V
  <2> TAKE p \in V, s \in 1 .. M
  <2>1. s - 1 \in Exps
    BY <1>1
  <2>2. Entry(p, s - 1) \in Poly
    BY <2>1, EntryFacts
  <2> QED
    BY <2>1, <2>2
<1> HIDE DEF M, V, next
<1>4. F \in LoopStep(V)
  <2>1. \A a \in V \X Nat : (IF a[2] \in 1 .. M THEN next(a[1], a[2]) ELSE a[1]) \in V
    BY <1>3
  <2> QED
    BY <2>1 DEF LoopStep
<1>5. \A p \in V, s \in 1 .. M : F[<<p, s>>] = next(p, s)
  BY <1>1
<1> HIDE DEF F, z
<1>6. HasLoop(V, z, F, M)
  BY <1>1, <1>2, <1>4, Recursion
<1>7. PICK g \in [0 .. M -> V] : g[0] = z /\ \A t \in 1 .. M : g[t] = F[<<g[t - 1], t>>]
  BY <1>6 DEF HasLoop, IsLoop
<1> DEFINE S == {s \in 0 .. M : \A k \in 0 .. s - 1 : g[s][k] = Entry(g[s], k)}
<1>8. 0 \in S
  BY <1>1
<1>9. ASSUME NEW s \in 0 .. M - 1, s \in S PROVE s + 1 \in S
  <2>1. s + 1 \in 1 .. M /\ (s + 1) - 1 = s /\ s \in 0 .. M /\ s \in Exps /\ s + 1 \in 0 .. M
    BY <1>1
  <2>2. g[s] \in V
    BY <2>1
  <2>3. g[s + 1] = F[<<g[s], s + 1>>]
    BY <1>7, <2>1
  <2>4. g[s + 1] = next(g[s], s + 1)
    BY <1>5, <2>1, <2>2, <2>3
  <2>5. g[s + 1] = [g[s] EXCEPT ![s] = Entry(g[s], s)]
    BY <2>1, <2>4 DEF next
  <2>6. /\ g[s + 1][s] = Entry(g[s], s)
        /\ \A l \in 0 .. s - 1 : g[s + 1][l] = g[s][l]
    BY <1>1, <2>1, <2>2, <2>5 DEF V
  <2>7. \A k \in 0 .. s : Entry(g[s], k) = Entry(g[s + 1], k)
    <3> TAKE k \in 0 .. s
    <3>1. k \in Exps /\ \A l \in 0 .. k - 1 : l \in 0 .. s - 1
      BY <1>1, <2>1
    <3>2. \A l \in 0 .. k - 1 : g[s][l] = g[s + 1][l]
      BY <2>6, <3>1
    <3> QED
      BY <3>1, <3>2, EntryFacts
  <2>8. ASSUME NEW k \in 0 .. (s + 1) - 1 PROVE g[s + 1][k] = Entry(g[s + 1], k)
    <3>1. CASE k = s
      BY <2>1, <2>6, <2>7, <3>1
    <3>2. CASE k # s
      <4>1. k \in 0 .. s - 1 /\ k \in 0 .. s
        BY <3>2, <2>1
      <4>2. g[s][k] = Entry(g[s], k)
        BY <1>9, <4>1
      <4> QED
        BY <2>6, <2>7, <4>1, <4>2
    <3> QED
      BY <3>1, <3>2
  <2> QED
    BY <2>1, <2>8
<1>10. M \in S
  <2>1. \A k \in 0 .. M : k \in S
    BY <1>1, <1>8, <1>9, RangeInduction
  <2> QED
    BY <1>1, <2>1
<1>11. g[M] \in [Exps -> Poly] /\ \A k \in Exps : g[M][k] = Entry(g[M], k)
  BY <1>1, <1>10 DEF V
<1>12. g[M] = [k \in Exps |-> Entry(g[M], k)]
  BY <1>11
<1> QED
  BY <1>11, <1>12

LEMMA PowerFacts ==
  Power \in [Exps -> Poly] /\ \A k \in Exps : Power[k] = Entry(Power, k)
<1>1. PICK p \in [Exps -> Poly] : p = [k \in Exps |-> Entry(p, k)]
  BY PowerTable
<1> DEFINE q[k \in 0 .. 2 * NumBits - 1] ==
             IF k < NumBits THEN {k}
             ELSE {t \in 0 .. NumBits - 1 :
                     Cardinality({u \in Reduced : t \in q[k - NumBits + u]}) % 2 = 1}
<1>2. Power = q
  BY DEF Power
<1>3. q = [k \in Exps |-> Entry(q, k)]
  BY <1>1, Zenon DEF Exps, Entry, Positions, Odd
<1> HIDE DEF q
<1>4. \A k \in Exps : q[k] = Entry(q, k) /\ Entry(q, k) \in Poly
  BY <1>3, EntryFacts
<1>5. q \in [Exps -> Poly]
  BY <1>3, <1>4
<1> QED
  BY <1>2, <1>4, <1>5

LEMMA PolyFacts ==
  /\ \A A : TimesVar(A) \in Poly
  /\ \A I, P : Sum(I, P) \in Poly
  /\ \A k \in Exps : Power[k] \in Poly
<1>1. \A k \in Exps : Power[k] \in Poly
  BY PowerFacts
<1> QED
  BY <1>1 DEF TimesVar, Sum, Poly

LEMMA PowerSmall ==
  ASSUME NEW k \in Positions
  PROVE  k \in Exps /\ Power[k] = {k}
<1>1. k \in Exps /\ k < NumBits
  BY PositionFacts DEF Positions, Exps
<1> QED
  BY <1>1, PowerFacts DEF Entry

LEMMA PowerLarge ==
  ASSUME NEW k \in Exps, k >= NumBits
  PROVE  Power[k] = Sum(Reduced, [u \in Reduced |-> Power[k - NumBits + u]])
<1>1. ~(k < NumBits)
  BY PositionFacts DEF Exps
<1>2. Power[k] = {t \in Positions : Odd({u \in Reduced : t \in Power[k - NumBits + u]})}
  BY <1>1, PowerFacts DEF Entry
<1> QED
  BY <1>2 DEF Sum

\* Each power is the one before it times x.
LEMMA PowerNext ==
  ASSUME NEW k \in Nat, k + 1 \in Exps
  PROVE  k \in Exps /\ Power[k + 1] = TimesVar(Power[k])
<1> DEFINE Next1(m) == Power[m + 1] = TimesVar(Power[m])
           T == {m \in Nat : m + 1 \in Exps /\ ~Next1(m)}
<1>1. NumBits \in Nat \ {0}
  BY PositionFacts
<1>2. \A m \in Nat : m + 1 \in Exps => m \in Exps
  BY <1>1 DEF Exps
<1> HIDE DEF Next1
<1>3. T = {}
  <2> SUFFICES ASSUME T # {} PROVE FALSE
    OBVIOUS
  <2>1. PICK m \in T : \A n \in T : ~(n < m)
    BY Below
  <2>2. m \in Nat /\ m + 1 \in Exps /\ ~Next1(m) /\ m \in Exps
    BY <1>2, <2>1
  <2>3. \A n \in Nat : n < m /\ n + 1 \in Exps => Next1(n)
    BY <2>1
  <2>4. CASE m + 1 < NumBits
    <3>1. m \in Positions /\ m + 1 \in Positions /\ m # NumBits - 1
      BY <1>1, <2>2, <2>4 DEF Positions
    <3>2. Power[m] = {m} /\ Power[m + 1] = {m + 1}
      BY <3>1, PowerSmall
    <3>3. \A t \in Positions : t > 0 /\ t - 1 \in {m} <=> t = m + 1
      BY <2>2 DEF Positions
    <3>4. NumBits - 1 \notin {m}
      BY <3>1
    <3>5. TimesVar({m}) = {m + 1}
      BY <3>1, <3>3, <3>4 DEF TimesVar
    <3> QED
      BY <2>2, <3>2, <3>5 DEF Next1
  <2>5. CASE m + 1 = NumBits
    <3>1. m \in Positions /\ m = NumBits - 1
      BY <1>1, <2>2, <2>5 DEF Positions
    <3>2. Power[m] = {m}
      BY <3>1, PowerSmall
    <3>3. \A t \in Positions : ~(t > 0 /\ t - 1 \in {m})
      BY <1>1, <3>1 DEF Positions
    <3>4. TimesVar({m}) = Reduced
      BY <3>1, <3>3, PositionFacts DEF TimesVar, Poly
    <3>5. Power[m + 1] = Sum(Reduced, [u \in Reduced |-> Power[m + 1 - NumBits + u]])
      BY <1>1, <2>2, <2>5, PowerLarge
    <3>6. \A u \in Reduced : Power[m + 1 - NumBits + u] = {u}
      <4> TAKE u \in Reduced
      <4>1. u \in Positions /\ m + 1 - NumBits + u = u
        BY <1>1, <2>5, PositionFacts DEF Poly, Positions
      <4> QED
        BY <4>1, PowerSmall
    <3>7. ASSUME NEW t \in Positions
          PROVE  Odd({u \in Reduced : t \in Power[m + 1 - NumBits + u]}) <=> t \in Reduced
      <4>1. CASE t \in Reduced
        <5>1. {u \in Reduced : t \in Power[m + 1 - NumBits + u]} = {t}
          BY <3>6, <4>1
        <5> QED
          BY <4>1, <5>1, OddSingle
      <4>2. CASE t \notin Reduced
        <5>1. {u \in Reduced : t \in Power[m + 1 - NumBits + u]} = {}
          BY <3>6, <4>2
        <5> QED
          BY <4>2, <5>1, OddEmpty
      <4> QED
        BY <4>1, <4>2
    <3>8. Power[m + 1] = Reduced
      BY <3>5, <3>7, PositionFacts DEF Sum, Poly
    <3> QED
      BY <2>2, <3>2, <3>4, <3>8 DEF Next1
  <2>6. CASE m + 1 > NumBits
    <3> DEFINE P == [u \in Reduced |-> Power[m - NumBits + u]]
               Q == [u \in Reduced |-> Power[m + 1 - NumBits + u]]
    <3>1. ASSUME NEW u \in Reduced
          PROVE  /\ m - NumBits + u \in Nat /\ m - NumBits + u < m
                 /\ m - NumBits + u \in Exps /\ m + 1 - NumBits + u \in Exps
                 /\ m + 1 - NumBits + u = (m - NumBits + u) + 1
      <4>1. u \in Nat /\ u < NumBits
        BY PositionFacts
      <4> QED
        BY <1>1, <2>2, <2>6, <4>1 DEF Exps
    <3>2. P \in [Reduced -> Poly] /\ Q \in [Reduced -> Poly]
      BY <3>1, PolyFacts
    <3>3. \A u \in Reduced : Q[u] = TimesVar(P[u])
      <4> TAKE u \in Reduced
      <4>1. PICK n \in Nat : n = m - NumBits + u
        BY <3>1
      <4>2. n < m /\ n + 1 \in Exps /\ m + 1 - NumBits + u = n + 1
        BY <3>1, <4>1
      <4>3. Power[n + 1] = TimesVar(Power[n])
        BY <2>3, <4>2 DEF Next1
      <4> QED
        BY <4>1, <4>2, <4>3
    <3>4. IsFiniteSet(Reduced)
      BY PositionFacts
    <3>5. Power[m] = Sum(Reduced, P)
      BY <1>1, <2>2, <2>6, PowerLarge
    <3>6. Power[m + 1] = Sum(Reduced, Q)
      BY <1>1, <2>2, <2>6, PowerLarge
    <3> HIDE DEF P, Q
    <3>7. TimesVar(Sum(Reduced, P)) = Sum(Reduced, Q)
      BY <3>2, <3>3, <3>4, TimesVarSum
    <3> QED
      BY <2>2, <3>5, <3>6, <3>7 DEF Next1
  <2> QED
    BY <1>1, <2>2, <2>4, <2>5, <2>6
<1>4. Next1(k)
  BY <1>3
<1> QED
  BY <1>2, <1>4 DEF Next1

-----------------------------------------------------------------------------
(* Products *)

\* B times x^s.
Moved(B, s) == Sum(B, [b \in B |-> Power[s + b]])

LEMMA ExpSum ==
  ASSUME NEW s \in Positions, NEW b \in Positions
  PROVE  s + b \in Exps /\ s + b \in Nat /\ (s + b) + 1 \in Exps
BY PositionFacts DEF Positions, Exps

LEMMA MovedFirst ==
  ASSUME NEW B \in Poly
  PROVE  Moved(B, 0) = B
<1>1. \A b \in B : Power[0 + b] = {b}
  <2> TAKE b \in B
  <2>1. b \in Positions /\ 0 + b = b
    BY DEF Poly, Positions
  <2> QED
    BY <2>1, PowerSmall
<1>2. ASSUME NEW t \in Positions
      PROVE  Odd({b \in B : t \in Power[0 + b]}) <=> t \in B
  <2>1. CASE t \in B
    <3>1. {b \in B : t \in Power[0 + b]} = {t}
      BY <1>1, <2>1
    <3> QED
      BY <2>1, <3>1, OddSingle
  <2>2. CASE t \notin B
    <3>1. {b \in B : t \in Power[0 + b]} = {}
      BY <1>1, <2>2
    <3> QED
      BY <2>2, <3>1, OddEmpty
  <2> QED
    BY <2>1, <2>2
<1>3. Moved(B, 0) = {t \in Positions : Odd({b \in B : t \in Power[0 + b]})}
  BY DEF Moved, Sum
<1> QED
  BY <1>2, <1>3 DEF Poly

LEMMA MovedNext ==
  ASSUME NEW B \in Poly, NEW s \in Positions
  PROVE  Moved(B, s + 1) = TimesVar(Moved(B, s))
<1> DEFINE P == [b \in B |-> Power[s + b]]
           Q == [b \in B |-> Power[(s + 1) + b]]
<1>1. ASSUME NEW b \in B
      PROVE  /\ s + b \in Exps /\ (s + 1) + b \in Exps
             /\ Power[(s + 1) + b] = TimesVar(Power[s + b])
  <2>1. b \in Positions
    BY DEF Poly
  <2>2. s + b \in Exps /\ s + b \in Nat /\ (s + b) + 1 \in Exps
    BY <2>1, ExpSum
  <2>3. (s + 1) + b = (s + b) + 1
    BY <2>1 DEF Positions
  <2>4. Power[(s + b) + 1] = TimesVar(Power[s + b])
    BY <2>2, PowerNext
  <2> QED
    BY <2>2, <2>3, <2>4
<1>2. P \in [B -> Poly] /\ Q \in [B -> Poly] /\ \A b \in B : Q[b] = TimesVar(P[b])
  BY <1>1, PolyFacts
<1>3. IsFiniteSet(B)
  BY PositionFacts
<1>4. Moved(B, s) = Sum(B, P) /\ Moved(B, s + 1) = Sum(B, Q)
  BY DEF Moved
<1> HIDE DEF P, Q
<1> QED
  BY <1>2, <1>3, <1>4, TimesVarSum

\* A product, one exponent of its first factor at a time.
LEMMA TimesNothing ==
  ASSUME NEW B
  PROVE  Times({}, B) = {}
<1>1. \A t : {p \in {} \X B : t \in Power[p[1] + p[2]]} = {}
  OBVIOUS
<1> QED
  BY <1>1, OddEmpty DEF Times, Odd

LEMMA TimesAdd ==
  ASSUME NEW A \in Poly, NEW B \in Poly, NEW s \in Positions, s \notin A
  PROVE  Times(A \cup {s}, B) = SymDiff(Times(A, B), Moved(B, s))
<1> DEFINE pairs(C, t) == {p \in C \X B : t \in Power[p[1] + p[2]]}
<1>1. \A C : Times(C, B) = {t \in Positions : Odd(pairs(C, t))}
  BY DEF Times, Positions, Odd
<1>2. Moved(B, s) = {t \in Positions : Odd({b \in B : t \in Power[s + b]})}
  BY DEF Moved, Sum
<1>3. ASSUME NEW t \in Positions
      PROVE  Odd(pairs(A \cup {s}, t)) <=> ~(Odd(pairs(A, t)) <=> Odd({b \in B : t \in Power[s + b]}))
  <2> DEFINE row == {b \in B : t \in Power[s + b]}
  <2>1. pairs(A \cup {s}, t) = pairs(A, t) \cup ({s} \X row)
    OBVIOUS
  <2>2. pairs(A, t) \cap ({s} \X row) = {}
    OBVIOUS
  <2>3. IsFiniteSet(B) /\ IsFiniteSet(A)
    BY PositionFacts
  <2>4. IsFiniteSet(row)
    <3>1. row \in SUBSET B
      OBVIOUS
    <3> QED
      BY <2>3, <3>1, FS_Subset
  <2>5. IsFiniteSet(pairs(A, t))
    <3>1. IsFiniteSet(A \X B)
      BY <2>3, FS_Product
    <3>2. pairs(A, t) \in SUBSET (A \X B)
      OBVIOUS
    <3> QED
      BY <3>1, <3>2, FS_Subset
  <2> HIDE DEF pairs, row
  <2>6. IsFiniteSet({s} \X row) /\ (Odd({s} \X row) <=> Odd(row))
    BY <2>4, OddImage
  <2>7. Odd(pairs(A, t) \cup ({s} \X row)) <=> ~(Odd(pairs(A, t)) <=> Odd({s} \X row))
    BY <2>2, <2>5, <2>6, OddUnion
  <2> QED
    BY <2>1, <2>6, <2>7 DEF row
<1> HIDE DEF pairs
<1> QED
  BY <1>1, <1>2, <1>3 DEF SymDiff

-----------------------------------------------------------------------------
(* Bytes and their bits *)

\* Bit e of a number, the lowest being bit 0.
BitOf(v, e) == (v \div 2 ^ e) % 2

LEMMA TwoPowers ==
  /\ ByteBits \in Nat \ {0} /\ 2 ^ 0 = 1 /\ Base = 2 ^ ByteBits
  /\ \A e \in 0 .. ByteBits : 2 ^ e \in Nat \ {0}
  /\ \A e \in 0 .. ByteBits - 1 : 2 ^ (e + 1) = 2 * 2 ^ e
<1>1. ByteBits \in Nat \ {0}
  BY SizeAssumption
<1>2. \A e \in 0 .. ByteBits - 1 : 2 ^ e \in Nat \ {0} /\ 2 ^ (e + 1) = 2 * 2 ^ e
  BY PowerAssumption
<1>3. \A e \in 0 .. ByteBits : 2 ^ e \in Nat \ {0}
  <2> TAKE e \in 0 .. ByteBits
  <2>1. CASE e = ByteBits
    <3>1. PICK c \in 0 .. ByteBits - 1 : c = ByteBits - 1 /\ c + 1 = ByteBits
      BY <1>1
    <3>2. PICK p \in Nat \ {0} : p = 2 ^ c /\ 2 ^ (c + 1) = 2 * p
      BY <1>2
    <3> QED
      BY <2>1, <3>1, <3>2
  <2>2. CASE e # ByteBits
    <3>1. e \in 0 .. ByteBits - 1
      BY <1>1, <2>2
    <3> QED
      BY <1>2, <3>1
  <2> QED
    BY <2>1, <2>2
<1> QED
  BY <1>1, <1>2, <1>3, PowerAssumption DEF Base

LEMMA TwoPowerSum ==
  ASSUME NEW a \in Nat, NEW b \in Nat, a + b <= ByteBits
  PROVE  /\ 2 ^ a \in Nat \ {0} /\ 2 ^ b \in Nat \ {0} /\ 2 ^ (a + b) \in Nat \ {0}
         /\ 2 ^ (a + b) = 2 ^ a * 2 ^ b
<1>1. a \in 0 .. ByteBits /\ b \in 0 .. ByteBits /\ a + b \in 0 .. ByteBits
  BY TwoPowers
<1> DEFINE S == {k \in Nat : k <= b => 2 ^ (a + k) = 2 ^ a * 2 ^ k}
<1>2. 0 \in S
  <2>1. 2 ^ 0 = 1 /\ 2 ^ a \in Nat /\ a + 0 = a
    BY <1>1, TwoPowers
  <2>2. 2 ^ a * 1 = 2 ^ a
    BY <2>1
  <2> QED
    BY <2>1, <2>2
<1>3. ASSUME NEW k \in Nat, k \in S PROVE k + 1 \in S
  <2> SUFFICES ASSUME k + 1 <= b PROVE 2 ^ (a + (k + 1)) = 2 ^ a * 2 ^ (k + 1)
    OBVIOUS
  <2>1. 2 ^ (a + k) = 2 ^ a * 2 ^ k
    BY <1>3
  <2>2. a + k \in 0 .. ByteBits - 1 /\ k \in 0 .. ByteBits - 1 /\ a + (k + 1) = (a + k) + 1
        /\ k \in 0 .. ByteBits
    BY <1>1, TwoPowers
  <2>3. 2 ^ ((a + k) + 1) = 2 * 2 ^ (a + k)
    BY <2>2, TwoPowers
  <2>4. 2 ^ (k + 1) = 2 * 2 ^ k
    BY <2>2, TwoPowers
  <2>5. 2 ^ a \in Nat /\ 2 ^ k \in Nat
    BY <1>1, <2>2, TwoPowers
  <2>6. \A x, y \in Nat : 2 * (x * y) = x * (2 * y)
    OBVIOUS
  <2> QED
    BY <2>1, <2>2, <2>3, <2>4, <2>5, <2>6
<1>4. b \in S
  BY <1>2, <1>3, NatSetInduction
<1> QED
  BY <1>1, <1>4, TwoPowers

LEMMA BitType ==
  ASSUME NEW v \in Nat, NEW e \in 0 .. ByteBits
  PROVE  v \div 2 ^ e \in Nat /\ BitOf(v, e) \in {0, 1}
<1>1. PICK p \in Nat \ {0} : p = 2 ^ e
  BY TwoPowers
<1>2. PICK q \in Nat : q = v \div p
  BY DivMod
<1>3. q % 2 \in {0, 1}
  OBVIOUS
<1> QED
  BY <1>1, <1>2, <1>3 DEF BitOf

LEMMA TopBit ==
  ASSUME NEW v \in Nat, NEW e \in 0 .. ByteBits - 1
  PROVE  v \div 2 ^ e = 2 * (v \div 2 ^ (e + 1)) + BitOf(v, e)
<1>1. PICK p \in Nat \ {0} : p = 2 ^ e /\ 2 ^ (e + 1) = 2 * p
  BY TwoPowers
<1>2. PICK d \in Nat \ {0} : d = 2
  OBVIOUS
<1>3. (v \div p) \div d = v \div (p * d)
  OBVIOUS
<1>4. PICK m \in Nat : m = p * d /\ m = 2 ^ (e + 1)
  BY <1>1, <1>2
<1>5. PICK q \in Nat : q = v \div p
  BY DivMod
<1>6. v \div m = q \div 2
  BY <1>2, <1>3, <1>4, <1>5
<1>7. q = 2 * (q \div 2) + (q % 2)
  OBVIOUS
<1>8. q = 2 * (v \div m) + (q % 2)
  BY <1>6, <1>7
<1> QED
  BY <1>1, <1>4, <1>5, <1>8 DEF BitOf

\* A byte is determined by its bits.
LEMMA SameByte ==
  ASSUME NEW a \in Byte, NEW b \in Byte, \A e \in 0 .. ByteBits - 1 : BitOf(a, e) = BitOf(b, e)
  PROVE  a = b
<1>1. a \in Nat /\ b \in Nat /\ a < 2 ^ ByteBits /\ b < 2 ^ ByteBits /\ ByteBits \in Nat
  BY TwoPowers DEF Byte
<1> DEFINE S == {k \in Nat : k <= ByteBits => a \div 2 ^ (ByteBits - k) = b \div 2 ^ (ByteBits - k)}
<1>2. 0 \in S
  <2>1. PICK p \in Nat \ {0} : p = 2 ^ ByteBits
    BY <1>1, TwoPowers
  <2>2. a \div p = 0 /\ b \div p = 0
    BY <1>1, <2>1
  <2>3. ByteBits - 0 = ByteBits
    BY <1>1
  <2> QED
    BY <2>1, <2>2, <2>3
<1>3. ASSUME NEW k \in Nat, k \in S PROVE k + 1 \in S
  <2> SUFFICES ASSUME k + 1 <= ByteBits
               PROVE  a \div 2 ^ (ByteBits - (k + 1)) = b \div 2 ^ (ByteBits - (k + 1))
    OBVIOUS
  <2>1. PICK e \in 0 .. ByteBits - 1 : e = ByteBits - (k + 1) /\ e + 1 = ByteBits - k
    BY <1>1
  <2>2. a \div 2 ^ (e + 1) = b \div 2 ^ (e + 1)
    BY <1>1, <1>3, <2>1
  <2>3. /\ a \div 2 ^ e = 2 * (a \div 2 ^ (e + 1)) + BitOf(a, e)
        /\ b \div 2 ^ e = 2 * (b \div 2 ^ (e + 1)) + BitOf(b, e)
    BY <1>1, TopBit
  <2> QED
    BY <2>1, <2>2, <2>3
<1>4. ByteBits \in S
  BY <1>1, <1>2, <1>3, NatSetInduction
<1>5. ByteBits - ByteBits = 0 /\ 2 ^ 0 = 1
  BY <1>1, TwoPowers
<1>6. a \div 1 = b \div 1
  BY <1>1, <1>4, <1>5
<1> QED
  BY <1>1, <1>6

LEMMA XorType ==
  ASSUME NEW a \in Byte, NEW b \in Byte
  PROVE  XorByte(a, b) \in Byte
BY XorAssumption

LEMMA XorBits ==
  ASSUME NEW a \in Byte, NEW b \in Byte, NEW e \in 0 .. ByteBits - 1
  PROVE  /\ BitOf(a, e) \in {0, 1} /\ BitOf(b, e) \in {0, 1}
         /\ BitOf(XorByte(a, b), e) = (BitOf(a, e) + BitOf(b, e)) % 2
<1>1. a \in Nat /\ b \in Nat /\ e \in 0 .. ByteBits
  BY TwoPowers DEF Byte
<1> QED
  BY <1>1, BitType, XorAssumption DEF BitOf

LEMMA XorCancels ==
  ASSUME NEW a \in Byte, NEW b \in Byte
  PROVE  XorByte(XorByte(a, b), b) = a
<1>1. PICK c \in Byte : c = XorByte(a, b)
  BY XorType
<1>2. XorByte(c, b) \in Byte
  BY XorType
<1>3. ASSUME NEW e \in 0 .. ByteBits - 1
      PROVE  BitOf(XorByte(c, b), e) = BitOf(a, e)
  <2>1. PICK x \in {0, 1}, y \in {0, 1} : x = BitOf(a, e) /\ y = BitOf(b, e)
    BY XorBits
  <2>2. BitOf(c, e) = (x + y) % 2
    BY <1>1, <2>1, XorBits
  <2>3. BitOf(XorByte(c, b), e) = (((x + y) % 2) + y) % 2
    BY <2>1, <2>2, XorBits
  <2>4. (((x + y) % 2) + y) % 2 = x
    OBVIOUS
  <2> QED
    BY <2>1, <2>3, <2>4
<1> QED
  BY <1>1, <1>2, <1>3, SameByte

-----------------------------------------------------------------------------
(* Blocks *)

LEMMA XorBlockType ==
  ASSUME NEW a \in Block, NEW b \in Block
  PROVE  XorBlock(a, b) \in Block
<1>1. \A j \in 1 .. BlockSize : XorByte(a[j], b[j]) \in Byte
  BY XorType DEF Block
<1> QED
  BY <1>1 DEF XorBlock, Block

LEMMA ZeroBlockType == ZeroBlock \in Block
BY Sizes DEF ZeroBlock, Block

LEMMA ChunkType ==
  ASSUME NEW data \in Seq(Byte), NEW at \in Nat
  PROVE  Chunk(data, at) \in Block
<1>1. \A j \in 1 .. BlockSize : at + j <= Len(data) => data[at + j] \in Byte
  <2> SUFFICES ASSUME NEW j \in 1 .. BlockSize, at + j <= Len(data) PROVE data[at + j] \in Byte
    OBVIOUS
  <2>1. at + j \in 1 .. Len(data)
    BY Sizes, LenProperties
  <2> QED
    BY <2>1, ElementOfSeq
<1> QED
  BY <1>1, Sizes DEF Chunk, Block

-----------------------------------------------------------------------------
(* Blocks and their polynomials *)

LEMMA AddMultiple ==
  ASSUME NEW m \in Nat, NEW p \in Nat \ {0}, NEW n \in Nat
  PROVE  (m + p * n) \div p = (m \div p) + n
<1>1. PICK q \in Nat, r \in 0 .. p - 1 : q = m \div p /\ r = (m % p) /\ m = p * q + r
  <2>1. m \div p \in Nat /\ (m % p) \in 0 .. p - 1 /\ m = p * (m \div p) + (m % p)
    BY DivMod
  <2> QED
    BY <2>1
<1>2. p * (q + n) = p * q + p * n /\ p * n \in Nat /\ q + n \in Nat
  OBVIOUS
<1>3. PICK u \in Nat, v \in Nat : u = m + p * n /\ v = q + n
  BY <1>2
<1>4. u = p * v + r
  BY <1>1, <1>2, <1>3
<1>5. u \div p = v
  BY <1>4, Quotient
<1> QED
  BY <1>1, <1>3, <1>5

\* Where a position is: its byte, and its bit in the byte.
LEMMA PositionParts ==
  ASSUME NEW t \in Positions
  PROVE  \E k \in 0 .. BlockSize - 1, s \in 0 .. ByteBits - 1 :
           k = t \div ByteBits /\ s = (t % ByteBits) /\ t = ByteBits * k + s
<1>1. t \in Nat /\ t < NumBits /\ ByteBits \in Nat \ {0} /\ BlockSize \in Nat
      /\ NumBits = ByteBits * BlockSize
  <2>1. ByteBits \in Nat \ {0} /\ BlockSize \in Nat
    BY SizeAssumption
  <2>2. NumBits \in Nat /\ NumBits = ByteBits * BlockSize
    BY <2>1, PositionFacts DEF NumBits
  <2> QED
    BY <2>1, <2>2 DEF Positions
<1>2. /\ t \div ByteBits \in Nat /\ (t % ByteBits) \in 0 .. ByteBits - 1
      /\ t = ByteBits * (t \div ByteBits) + (t % ByteBits)
  BY <1>1, DivMod
<1>3. PICK k \in Nat, s \in 0 .. ByteBits - 1 :
        k = t \div ByteBits /\ s = (t % ByteBits) /\ t = ByteBits * k + s
  BY <1>2
<1>4. k < BlockSize
  <2> SUFFICES ASSUME BlockSize <= k PROVE FALSE
    BY <1>1
  <2>1. ByteBits * BlockSize <= ByteBits * k
    BY <1>1, TimesMonotone
  <2>2. ByteBits * k \in Nat
    BY <1>1
  <2> QED
    BY <1>1, <1>3, <2>1, <2>2
<1>5. k \in 0 .. BlockSize - 1
  BY <1>1, <1>4
<1> QED
  BY <1>3, <1>5

LEMMA PlaceOf ==
  ASSUME NEW k \in 0 .. BlockSize - 1, NEW s \in 0 .. ByteBits - 1
  PROVE  /\ ByteBits * k + s \in Positions
         /\ (ByteBits * k + s) \div ByteBits = k /\ (ByteBits * k + s) % ByteBits = s
<1>1. ByteBits \in Nat \ {0} /\ BlockSize \in Nat /\ NumBits \in Nat
      /\ NumBits = ByteBits * BlockSize
  <2>1. ByteBits \in Nat \ {0} /\ BlockSize \in Nat
    BY SizeAssumption
  <2> QED
    BY <2>1, PositionFacts DEF NumBits
<1>2. k \in Nat /\ k + 1 \in Nat /\ k + 1 <= BlockSize
  BY <1>1
<1>3. ByteBits * (k + 1) <= ByteBits * BlockSize
  BY <1>1, <1>2, TimesMonotone
<1>4. ByteBits * (k + 1) = ByteBits * k + ByteBits /\ ByteBits * k \in Nat
  BY <1>1, <1>2
<1>5. PICK t \in Nat : t = ByteBits * k + s
  BY <1>4
<1>6. t < NumBits
  BY <1>1, <1>3, <1>4, <1>5
<1>7. t \div ByteBits = k /\ t % ByteBits = s
  BY <1>1, <1>2, <1>5, Quotient
<1> QED
  BY <1>1, <1>5, <1>6, <1>7 DEF Positions

LEMMA BitIs ==
  ASSUME NEW x, NEW t, NEW k, NEW s, k = t \div ByteBits, s = (t % ByteBits)
  PROVE  Bit(x, t) = BitOf(x[k + 1], ByteBits - 1 - s)
BY DEF Bit, BitOf

LEMMA ExponentsType ==
  ASSUME NEW b
  PROVE  /\ Exponents(b) \in Poly
         /\ \A t \in Positions : t \in Exponents(b) <=> Bit(b, t) = 1
BY DEF Exponents, Poly, Positions

LEMMA ZeroExponents == Exponents(ZeroBlock) = {}
<1>1. ASSUME NEW t \in Positions PROVE Bit(ZeroBlock, t) = 0
  <2>1. PICK k \in 0 .. BlockSize - 1, s \in 0 .. ByteBits - 1 :
          k = t \div ByteBits /\ s = (t % ByteBits) /\ t = ByteBits * k + s
    BY PositionParts
  <2>2. PICK e \in 0 .. ByteBits : e = ByteBits - 1 - s
    BY TwoPowers
  <2>3. ZeroBlock[k + 1] = 0
    BY Sizes DEF ZeroBlock
  <2>4. Bit(ZeroBlock, t) = BitOf(0, e)
    <3>1. PICK z : z = ZeroBlock
      OBVIOUS
    <3>2. Bit(z, t) = BitOf(z[k + 1], ByteBits - 1 - s)
      BY <2>1, BitIs
    <3> QED
      BY <2>2, <2>3, <3>1, <3>2
  <2>5. PICK p \in Nat \ {0} : p = 2 ^ e
    BY TwoPowers
  <2>6. (0 \div p) % 2 = 0
    OBVIOUS
  <2> QED
    BY <2>4, <2>5, <2>6 DEF BitOf
<1> QED
  BY <1>1 DEF Exponents, Positions

LEMMA XorExponents ==
  ASSUME NEW a \in Block, NEW b \in Block
  PROVE  Exponents(XorBlock(a, b)) = SymDiff(Exponents(a), Exponents(b))
<1>1. ASSUME NEW t \in Positions
      PROVE  Bit(XorBlock(a, b), t) = 1 <=> ~(Bit(a, t) = 1 <=> Bit(b, t) = 1)
  <2>1. PICK k \in 0 .. BlockSize - 1, s \in 0 .. ByteBits - 1 :
          k = t \div ByteBits /\ s = (t % ByteBits) /\ t = ByteBits * k + s
    BY PositionParts
  <2>2. PICK e \in 0 .. ByteBits - 1 : e = ByteBits - 1 - s
    BY TwoPowers
  <2>3. k + 1 \in 1 .. BlockSize
    BY Sizes
  <2>4. PICK u \in Byte, v \in Byte : u = a[k + 1] /\ v = b[k + 1]
    BY <2>3 DEF Block
  <2>5. XorBlock(a, b)[k + 1] = XorByte(u, v)
    BY <2>3, <2>4 DEF XorBlock
  <2>6. Bit(XorBlock(a, b), t) = BitOf(XorByte(u, v), e)
    <3>1. PICK c : c = XorBlock(a, b)
      OBVIOUS
    <3>2. Bit(c, t) = BitOf(c[k + 1], ByteBits - 1 - s)
      BY <2>1, BitIs
    <3> QED
      BY <2>2, <2>5, <3>1, <3>2
  <2>7. Bit(a, t) = BitOf(u, e) /\ Bit(b, t) = BitOf(v, e)
    <3>1. Bit(a, t) = BitOf(a[k + 1], ByteBits - 1 - s)
      BY <2>1, BitIs
    <3>2. Bit(b, t) = BitOf(b[k + 1], ByteBits - 1 - s)
      BY <2>1, BitIs
    <3> QED
      BY <2>2, <2>4, <3>1, <3>2
  <2>8. PICK x \in {0, 1}, y \in {0, 1} : x = BitOf(u, e) /\ y = BitOf(v, e)
    BY XorBits
  <2>9. BitOf(XorByte(u, v), e) = (x + y) % 2
    BY <2>8, XorBits
  <2>10. (x + y) % 2 = 1 <=> ~(x = 1 <=> y = 1)
    OBVIOUS
  <2> QED
    BY <2>6, <2>7, <2>8, <2>9, <2>10
<1>2. /\ \A t \in Positions : t \in Exponents(XorBlock(a, b)) <=> Bit(XorBlock(a, b), t) = 1
      /\ \A t \in Positions : t \in Exponents(a) <=> Bit(a, t) = 1
      /\ \A t \in Positions : t \in Exponents(b) <=> Bit(b, t) = 1
      /\ Exponents(XorBlock(a, b)) \in Poly /\ Exponents(a) \in Poly /\ Exponents(b) \in Poly
  BY ExponentsType
<1> QED
  BY <1>1, <1>2 DEF SymDiff, Poly

\* A block is determined by its polynomial.
LEMMA SamePolynomial ==
  ASSUME NEW a \in Block, NEW b \in Block, Exponents(a) = Exponents(b)
  PROVE  a = b
<1>1. ASSUME NEW j \in 1 .. BlockSize PROVE a[j] = b[j]
  <2>1. PICK k \in 0 .. BlockSize - 1 : k + 1 = j
    <3>1. j - 1 \in 0 .. BlockSize - 1 /\ (j - 1) + 1 = j
      BY Sizes
    <3> QED
      BY <3>1
  <2>2. PICK u \in Byte, v \in Byte : u = a[j] /\ v = b[j]
    BY DEF Block
  <2>3. ASSUME NEW e \in 0 .. ByteBits - 1 PROVE BitOf(u, e) = BitOf(v, e)
    <3>1. PICK s \in 0 .. ByteBits - 1 : s = ByteBits - 1 - e /\ e = ByteBits - 1 - s
      <4>1. ByteBits \in Nat
        BY TwoPowers
      <4>2. ByteBits - 1 - e \in 0 .. ByteBits - 1 /\ e = ByteBits - 1 - (ByteBits - 1 - e)
        BY <4>1
      <4> QED
        BY <4>2
    <3>2. PICK t \in Positions : k = t \div ByteBits /\ s = (t % ByteBits)
      BY PlaceOf
    <3>3. Bit(a, t) = BitOf(u, e) /\ Bit(b, t) = BitOf(v, e)
      <4>1. Bit(a, t) = BitOf(a[k + 1], ByteBits - 1 - s)
        BY <3>2, BitIs
      <4>2. Bit(b, t) = BitOf(b[k + 1], ByteBits - 1 - s)
        BY <3>2, BitIs
      <4> QED
        BY <2>1, <2>2, <3>1, <4>1, <4>2
    <3>4. Bit(a, t) = 1 <=> Bit(b, t) = 1
      BY ExponentsType
    <3>5. BitOf(u, e) \in {0, 1} /\ BitOf(v, e) \in {0, 1}
      BY XorBits
    <3> QED
      BY <3>3, <3>4, <3>5
  <2> QED
    BY <2>2, <2>3, SameByte
<1>2. a \in [1 .. BlockSize -> Byte] /\ b \in [1 .. BlockSize -> Byte]
  BY DEF Block
<1>3. a = [j \in 1 .. BlockSize |-> a[j]] /\ b = [j \in 1 .. BlockSize |-> b[j]]
  BY <1>2
<1>4. [j \in 1 .. BlockSize |-> a[j]] = [j \in 1 .. BlockSize |-> b[j]]
  BY <1>1
<1> QED
  BY <1>3, <1>4

LEMMA ToBlockOf ==
  ASSUME NEW b \in Block
  PROVE  ToBlock(Exponents(b)) = b
<1>1. \E c \in Block : Exponents(c) = Exponents(b)
  OBVIOUS
<1>2. ToBlock(Exponents(b)) \in Block /\ Exponents(ToBlock(Exponents(b))) = Exponents(b)
  BY <1>1 DEF ToBlock
<1> QED
  BY <1>2, SamePolynomial

\* What a byte of a shifted block has in its bits.
LEMMA ShiftedByte ==
  ASSUME NEW v \in Byte, NEW c \in {0, 1}, NEW s \in 0 .. ByteBits - 1
  PROVE  BitOf((v \div 2) + c * 2 ^ (ByteBits - 1), ByteBits - 1 - s)
           = IF s = 0 THEN c ELSE BitOf(v, ByteBits - 1 - (s - 1))
<1>1. v \in Nat /\ v < 2 ^ ByteBits
  BY TwoPowers DEF Byte
<1>2. PICK e \in 0 .. ByteBits - 1 : e = ByteBits - 1 - s /\ e \in 0 .. ByteBits /\ e + s = ByteBits - 1
                                     /\ s \in Nat /\ ByteBits - 1 \in 0 .. ByteBits
  BY TwoPowers
<1>3. PICK p \in Nat \ {0}, half \in Nat \ {0} : p = 2 ^ e /\ half = 2 ^ (ByteBits - 1)
  BY <1>2, TwoPowers
<1>4. PICK m \in Nat : m = v \div 2
  BY <1>1
<1>5. CASE s = 0
  <2>1. e = ByteBits - 1 /\ half = p
    BY <1>2, <1>3, <1>5
  <2>2. 2 ^ ByteBits = 2 * half
    <3>1. PICK f \in 0 .. ByteBits - 1 : f = ByteBits - 1 /\ f + 1 = ByteBits
      BY <1>2, TwoPowers
    <3> QED
      BY <1>3, <3>1, TwoPowers
  <2>3. m < half
    BY <1>1, <1>4, <2>2
  <2>4. (m + c * half) \div half = c
    <3>1. 0 * half = 0 /\ 1 * half = half
      OBVIOUS
    <3>2. m \div half = 0 /\ (m + half) \div half = 1
      <4>1. m = half * 0 + m /\ m + half = half * 1 + m /\ m \in 0 .. half - 1
        BY <2>3
      <4>2. m \div half = 0
        BY <2>3
      <4>3. PICK n \in Nat, r \in 0 .. half - 1 : n = m + half /\ r = m /\ n = half * 1 + r
        BY <4>1
      <4>4. n \div half = 1
        <5>1. 1 \in Nat /\ half \in Nat \ {0} /\ r \in 0 .. half - 1
          OBVIOUS
        <5> QED
          BY <4>3, <5>1, Quotient
      <4> QED
        BY <4>2, <4>3, <4>4
    <3>3. CASE c = 0
      BY <3>1, <3>2, <3>3
    <3>4. CASE c = 1
      BY <3>1, <3>2, <3>4
    <3> QED
      BY <3>3, <3>4
  <2>5. c % 2 = c
    OBVIOUS
  <2> QED
    BY <1>2, <1>3, <1>4, <1>5, <2>1, <2>4, <2>5 DEF BitOf
<1>6. CASE s # 0
  <2>1. PICK r \in Nat : r = s - 1 /\ r + 1 = s /\ r \in 0 .. ByteBits - 1 /\ e + 1 \in 0 .. ByteBits - 1
                         /\ e + 1 = ByteBits - 1 - (s - 1)
    BY <1>2, <1>6, TwoPowers
  <2>2. PICK h \in Nat \ {0} : h = 2 ^ r /\ 2 ^ s = 2 * h
    BY <2>1, TwoPowers
  <2>3. half = p * (2 * h)
    <3>1. e + s <= ByteBits /\ e \in Nat
      BY <1>2, TwoPowers
    <3>2. 2 ^ (e + s) = 2 ^ e * 2 ^ s
      BY <1>2, <3>1, TwoPowerSum
    <3> QED
      BY <1>2, <1>3, <2>2, <3>2
  <2>4. c * half = p * (2 * (c * h)) /\ c * h \in Nat
    BY <2>3
  <2>5. PICK n \in Nat : n = c * h
    BY <2>4
  <2>6. PICK d \in Nat : d = 2 * n
    OBVIOUS
  <2>7. (m + p * d) \div p = (m \div p) + d
    BY AddMultiple
  <2>8. m + c * half = m + p * d
    BY <2>4, <2>5, <2>6
  <2>9. PICK q \in Nat : q = m \div p
    BY DivMod
  <2>10. (q + d) % 2 = q % 2
    BY <2>6
  <2>11. q = v \div 2 ^ (e + 1)
    <3>1. 2 ^ (e + 1) = 2 * p
      BY <1>3, TwoPowers
    <3>2. PICK two \in Nat \ {0} : two = 2
      OBVIOUS
    <3>3. (v \div two) \div p = v \div (two * p)
      BY <1>1
    <3>4. PICK w \in Nat : w = two * p /\ w = 2 ^ (e + 1)
      BY <3>1, <3>2
    <3> QED
      BY <1>4, <2>9, <3>2, <3>3, <3>4
  <2>12. BitOf(m + c * half, e) = BitOf(v, e + 1)
    BY <1>3, <2>7, <2>8, <2>9, <2>10, <2>11 DEF BitOf
  <2> QED
    BY <1>2, <1>3, <1>4, <1>6, <2>1, <2>12
<1> QED
  BY <1>5, <1>6

-----------------------------------------------------------------------------
(* gf128_mul and ghash *)

LEMMA ShiftedType ==
  ASSUME NEW v \in Block
  PROVE  Shifted(v) \in Block
<1> DEFINE half == 2 ^ (ByteBits - 1)
<1>1. half \in Nat \ {0} /\ Base = 2 * half
  <2>1. PICK e \in 0 .. ByteBits - 1 : e = ByteBits - 1 /\ e + 1 = ByteBits /\ e \in 0 .. ByteBits
    BY TwoPowers
  <2> QED
    BY <2>1, TwoPowers
<1> DEFINE part(k) == IF k = 1 THEN 0 ELSE (v[k - 1] % 2) * half
<1>2. \A k \in 1 .. BlockSize : (v[k] \div 2) + part(k) \in Byte
  <2> TAKE k \in 1 .. BlockSize
  <2>1. v[k] \in 0 .. (2 * half) - 1
    BY <1>1 DEF Block, Byte
  <2>2. v[k] \div 2 \in 0 .. half - 1
    <3> HIDE DEF half
    <3>1. PICK x \in Nat : x = v[k] /\ x < 2 * half
      BY <1>1, <2>1
    <3>2. x \div 2 \in 0 .. half - 1
      BY <1>1, <3>1
    <3> QED
      BY <3>1, <3>2
  <2>3. part(k) \in {0, half}
    <3>1. CASE k = 1
      BY <3>1
    <3>2. CASE k # 1
      <4>1. k - 1 \in 1 .. BlockSize
        BY <3>2, Sizes
      <4>2. v[k - 1] \in Nat
        BY <4>1, Sizes DEF Block
      <4>3. v[k - 1] % 2 \in {0, 1}
        BY <4>2
      <4> HIDE DEF half
      <4>4. 0 * half = 0 /\ 1 * half = half
        BY <1>1
      <4> QED
        BY <3>2, <4>3, <4>4
    <3> QED
      BY <3>1, <3>2
  <2> HIDE DEF half, part
  <2> QED
    BY <1>1, <2>2, <2>3 DEF Byte
<1>3. Shifted(v) = [k \in 1 .. BlockSize |-> (v[k] \div 2) + part(k)]
  BY DEF Shifted
<1> HIDE DEF half, part
<1> QED
  BY <1>2, <1>3 DEF Block

LEMMA TimesXType ==
  ASSUME NEW v \in Block
  PROVE  TimesX(v) \in Block
<1>1. Shifted(v) \in Block
  BY ShiftedType
<1> DEFINE s == Shifted(v)
<1> HIDE DEF s
<1>2. s \in [1 .. BlockSize -> Byte]
  BY <1>1 DEF s, Block
<1>3. XorByte(s[1], Reduction) \in Byte
  <2>1. s[1] \in Byte
    BY <1>2, Sizes
  <2>2. Reduction \in Byte
    BY SizeAssumption
  <2> QED
    BY <2>1, <2>2, XorType
<1>4. [s EXCEPT ![1] = XorByte(@, Reduction)] \in [1 .. BlockSize -> Byte]
  BY <1>2, <1>3
<1>5. TimesX(v) \in {s, [s EXCEPT ![1] = XorByte(@, Reduction)]}
  BY DEF TimesX, s
<1> QED
  BY <1>2, <1>4, <1>5 DEF Block

\* Each bit has moved one place up.
LEMMA ShiftedBit ==
  ASSUME NEW v \in Block, NEW t \in Positions
  PROVE  Bit(Shifted(v), t) = 1 <=> t > 0 /\ Bit(v, t - 1) = 1
<1>1. PICK k \in 0 .. BlockSize - 1, s \in 0 .. ByteBits - 1 :
        k = t \div ByteBits /\ s = (t % ByteBits) /\ t = ByteBits * k + s
  BY PositionParts
<1>2. k + 1 \in 1 .. BlockSize /\ ByteBits \in Nat \ {0} /\ t \in Nat /\ BlockSize \in Nat
  BY Sizes, TwoPowers DEF Positions
<1>3. PICK x \in Byte : x = v[k + 1]
  BY <1>2 DEF Block
<1>4. PICK c \in {0, 1} : c = (IF k = 0 THEN 0 ELSE v[k] % 2)
  <2>1. CASE k = 0
    BY <2>1
  <2>2. CASE k # 0
    <3>1. k \in 1 .. BlockSize
      BY <2>2, <1>2
    <3>2. v[k] \in Nat
      BY <3>1, Sizes DEF Block
    <3>3. v[k] % 2 \in {0, 1}
      BY <3>2
    <3> QED
      BY <2>2, <3>3
  <2> QED
    BY <2>1, <2>2
<1>5. Shifted(v)[k + 1] = (x \div 2) + c * 2 ^ (ByteBits - 1)
  <2>1. PICK half \in Nat : half = 2 ^ (ByteBits - 1)
    <3>1. ByteBits - 1 \in 0 .. ByteBits
      BY <1>2
    <3> QED
      BY <3>1, TwoPowers
  <2>2. Shifted(v)[k + 1] = (x \div 2) + (IF k + 1 = 1 THEN 0 ELSE (v[(k + 1) - 1] % 2) * half)
    BY <1>2, <1>3, <2>1 DEF Shifted
  <2>3. (IF k + 1 = 1 THEN 0 ELSE (v[(k + 1) - 1] % 2) * half) = c * half
    <3>1. CASE k = 0
      BY <1>4, <3>1, <2>1
    <3>2. CASE k # 0
      <4>1. (k + 1) - 1 = k /\ k + 1 # 1
        BY <3>2
      <4> QED
        BY <1>4, <3>2, <4>1
    <3> QED
      BY <3>1, <3>2
  <2> QED
    BY <2>1, <2>2, <2>3
<1>6. Bit(Shifted(v), t) = IF s = 0 THEN c ELSE BitOf(x, ByteBits - 1 - (s - 1))
  <2>1. PICK b : b = Shifted(v)
    OBVIOUS
  <2>2. Bit(b, t) = BitOf(b[k + 1], ByteBits - 1 - s)
    BY <1>1, BitIs
  <2>3. BitOf((x \div 2) + c * 2 ^ (ByteBits - 1), ByteBits - 1 - s)
           = IF s = 0 THEN c ELSE BitOf(x, ByteBits - 1 - (s - 1))
    BY ShiftedByte
  <2> QED
    BY <1>5, <2>1, <2>2, <2>3
<1>7. CASE s # 0
  <2>1. PICK r \in 0 .. ByteBits - 1 : r = s - 1
    <3>1. s - 1 \in 0 .. ByteBits - 1
      BY <1>2, <1>7
    <3> QED
      BY <3>1
  <2>2. ByteBits * k + r = t - 1 /\ t > 0
    <3>1. PICK m \in Nat : m = ByteBits * k
      BY <1>2
    <3>2. t = m + s /\ s \in Nat /\ s > 0
      BY <1>1, <1>2, <1>7, <3>1
    <3> QED
      BY <2>1, <3>1, <3>2
  <2>3. (t - 1) \div ByteBits = k /\ (t - 1) % ByteBits = r
    <3>1. (ByteBits * k + r) \div ByteBits = k /\ (ByteBits * k + r) % ByteBits = r
      BY PlaceOf
    <3> QED
      BY <2>2, <3>1
  <2>4. PICK n : n = t - 1
    OBVIOUS
  <2>5. Bit(v, n) = BitOf(x, ByteBits - 1 - r)
    BY <1>3, <2>3, <2>4, BitIs
  <2> QED
    BY <1>6, <1>7, <2>1, <2>2, <2>4, <2>5
<1>8. CASE s = 0 /\ k = 0
  <2>1. t = 0
    BY <1>1, <1>2, <1>8
  <2> QED
    BY <1>4, <1>6, <1>8, <2>1
<1>9. CASE s = 0 /\ k # 0
  <2>1. PICK l \in 0 .. BlockSize - 1, r \in 0 .. ByteBits - 1 : l + 1 = k /\ l = k - 1 /\ r = ByteBits - 1
    <3>1. k - 1 \in 0 .. BlockSize - 1 /\ ByteBits - 1 \in 0 .. ByteBits - 1
      BY <1>2, <1>9
    <3> QED
      BY <3>1
  <2>2. ByteBits * l + r = t - 1 /\ t > 0
    <3>1. ByteBits * (l + 1) = ByteBits * l + ByteBits /\ ByteBits * l \in Nat
      BY <1>2, <2>1
    <3> QED
      BY <1>1, <1>2, <1>9, <2>1, <3>1
  <2>3. (t - 1) \div ByteBits = l /\ (t - 1) % ByteBits = r
    <3>1. (ByteBits * l + r) \div ByteBits = l /\ (ByteBits * l + r) % ByteBits = r
      BY PlaceOf
    <3> QED
      BY <2>2, <3>1
  <2>4. PICK n : n = t - 1
    OBVIOUS
  <2>5. Bit(v, n) = BitOf(v[k], ByteBits - 1 - r)
    BY <2>1, <2>3, <2>4, BitIs
  <2>6. PICK y \in Nat : y = v[k]
    <3>1. k \in 1 .. BlockSize
      BY <1>2, <1>9
    <3>2. v[k] \in Byte
      BY <3>1 DEF Block
    <3> QED
      BY <3>2, Sizes
  <2>7. BitOf(y, ByteBits - 1 - r) = y % 2
    <3>1. ByteBits - 1 - r = 0
      BY <1>2, <2>1
    <3>2. y \div 1 = y
      OBVIOUS
    <3> QED
      BY <3>1, <3>2, TwoPowers DEF BitOf
  <2> QED
    BY <1>4, <1>6, <1>9, <2>2, <2>4, <2>5, <2>6, <2>7
<1> QED
  BY <1>7, <1>8, <1>9

LEMMA LastBit ==
  ASSUME NEW v \in Block
  PROVE  v[BlockSize] % 2 = 1 <=> NumBits - 1 \in Exponents(v)
<1>1. PICK k \in 0 .. BlockSize - 1, s \in 0 .. ByteBits - 1 : k = BlockSize - 1 /\ s = ByteBits - 1 /\ k + 1 = BlockSize
  <2>1. BlockSize - 1 \in 0 .. BlockSize - 1 /\ ByteBits - 1 \in 0 .. ByteBits - 1
        /\ (BlockSize - 1) + 1 = BlockSize
    BY Sizes, TwoPowers
  <2> QED
    BY <2>1
<1>2. ByteBits * k + s = NumBits - 1
  <2>1. ByteBits \in Nat /\ BlockSize \in Nat /\ NumBits = BlockSize * ByteBits
    BY Sizes, TwoPowers DEF NumBits
  <2>2. ByteBits * (k + 1) = ByteBits * k + ByteBits /\ ByteBits * k \in Nat
    BY <2>1
  <2>3. BlockSize * ByteBits = ByteBits * BlockSize
    BY <2>1
  <2> QED
    BY <1>1, <2>1, <2>2, <2>3
<1>3. PICK t \in Positions : t = NumBits - 1 /\ k = t \div ByteBits /\ s = (t % ByteBits)
  BY <1>2, PlaceOf
<1>4. Bit(v, t) = BitOf(v[k + 1], ByteBits - 1 - s)
  BY <1>3, BitIs
<1>5. PICK y \in Nat : y = v[BlockSize]
  <2>1. v[BlockSize] \in Byte
    BY Sizes DEF Block
  <2> QED
    BY <2>1, Sizes
<1>6. BitOf(y, ByteBits - 1 - s) = y % 2
  <2>1. ByteBits - 1 - s = 0
    BY <1>1, TwoPowers
  <2>2. y \div 1 = y
    OBVIOUS
  <2> QED
    BY <2>1, <2>2, TwoPowers DEF BitOf
<1>7. t \in Exponents(v) <=> Bit(v, t) = 1
  BY ExponentsType
<1> QED
  BY <1>1, <1>3, <1>4, <1>5, <1>6, <1>7

\* TimesX multiplies by x.
LEMMA TimesXExponents ==
  ASSUME NEW v \in Block
  PROVE  Exponents(TimesX(v)) = TimesVar(Exponents(v))
<1>0. PICK c : c = TimesX(v)
  OBVIOUS
<1>1. PICK A \in Poly : A = Exponents(v)
  BY ExponentsType
<1>2. PICK b \in Block : b = Shifted(v)
  BY ShiftedType
<1>3. v[BlockSize] % 2 = 1 <=> NumBits - 1 \in A
  BY <1>1, LastBit
<1>4. ASSUME NEW t \in Positions PROVE Bit(b, t) = 1 <=> t > 0 /\ t - 1 \in A
  <2>1. Bit(b, t) = 1 <=> t > 0 /\ Bit(v, t - 1) = 1
    BY <1>2, ShiftedBit
  <2>2. CASE t > 0
    <3>1. PICK n \in Positions : n = t - 1
      <4>1. t - 1 \in Positions
        BY <2>2, PositionFacts DEF Positions
      <4> QED
        BY <4>1
    <3>2. n \in Exponents(v) <=> Bit(v, n) = 1
      BY ExponentsType
    <3> QED
      BY <1>1, <2>1, <2>2, <3>1, <3>2
  <2>3. CASE ~(t > 0)
    BY <2>1, <2>3
  <2> QED
    BY <2>2, <2>3
<1>5. ASSUME NEW t \in Positions PROVE Bit(c, t) = 1 <=> t \in TimesVar(A)
  <2>1. CASE NumBits - 1 \notin A
    <3>1. c = b
      BY <1>0, <1>2, <1>3, <2>1 DEF TimesX
    <3>2. Bit(b, t) = 1 <=> t > 0 /\ t - 1 \in A
      BY <1>4
    <3> QED
      BY <2>1, <3>1, <3>2 DEF TimesVar
  <2>2. CASE NumBits - 1 \in A
    <3>2. c = [b EXCEPT ![1] = XorByte(@, Reduction)]
      BY <1>0, <1>2, <1>3, <2>2 DEF TimesX
    <3>3. /\ c[1] = XorByte(b[1], Reduction)
          /\ \A j \in 2 .. BlockSize : c[j] = b[j]
      BY <3>2, Sizes DEF Block
    <3>4. PICK k \in 0 .. BlockSize - 1, s \in 0 .. ByteBits - 1 :
            k = t \div ByteBits /\ s = (t % ByteBits) /\ t = ByteBits * k + s
      BY PositionParts
    <3>5. Bit(c, t) = BitOf(c[k + 1], ByteBits - 1 - s) /\ Bit(b, t) = BitOf(b[k + 1], ByteBits - 1 - s)
      BY <3>4, BitIs
    <3>6. ByteBits \in Nat \ {0}
      BY TwoPowers
    <3>7. CASE k = 0
      <4>1. t = s
        BY <3>4, <3>6, <3>7
      <4>2. PICK u \in Byte, e \in 0 .. ByteBits - 1 : u = b[1] /\ e = ByteBits - 1 - s
        <5>1. b[1] \in Byte
          BY Sizes DEF Block
        <5>2. ByteBits - 1 - s \in 0 .. ByteBits - 1
          BY <3>6
        <5> QED
          BY <5>1, <5>2
      <4>3. Reduction \in Byte
        BY SizeAssumption
      <4>4. PICK x \in {0, 1}, y \in {0, 1} : x = BitOf(u, e) /\ y = BitOf(Reduction, e)
        BY <4>3, XorBits
      <4>5. BitOf(XorByte(u, Reduction), e) = (x + y) % 2
        BY <4>3, <4>4, XorBits
      <4>6. t \in Reduced <=> y = 1
        BY <4>1, <4>2, <4>4 DEF Reduced, BitOf
      <4>7. (x + y) % 2 = 1 <=> ~(x = 1 <=> y = 1)
        OBVIOUS
      <4>8. k + 1 = 1
        BY <3>7
      <4>9. Bit(c, t) = (x + y) % 2 /\ Bit(b, t) = x
        BY <3>3, <3>5, <4>2, <4>4, <4>5, <4>8
      <4>10. Bit(b, t) = 1 <=> t > 0 /\ t - 1 \in A
        BY <1>4
      <4> QED
        BY <2>2, <4>6, <4>7, <4>9, <4>10 DEF TimesVar
    <3>8. CASE k # 0
      <4>1. k + 1 \in 2 .. BlockSize
        BY <3>8, Sizes
      <4>2. Bit(c, t) = Bit(b, t)
        BY <3>3, <3>5, <4>1
      <4>3. t \notin Reduced
        <5>1. ByteBits * 1 <= ByteBits * k
          <6>1. k \in Nat /\ 1 <= k /\ 1 \in Nat /\ ByteBits \in Nat
            BY <3>6, <3>8
          <6> QED
            BY <6>1, TimesMonotone
        <5>2. ByteBits * k \in Nat
          BY <3>6
        <5>3. ByteBits <= t
          BY <3>4, <3>6, <5>1, <5>2
        <5> QED
          BY <3>6, <5>3 DEF Reduced
      <4>4. Bit(b, t) = 1 <=> t > 0 /\ t - 1 \in A
        BY <1>4
      <4> QED
        BY <4>2, <4>3, <4>4 DEF TimesVar
    <3> QED
      BY <3>7, <3>8
  <2> QED
    BY <2>1, <2>2
<1>6. TimesVar(A) \in Poly
  BY PolyFacts
<1>7. Exponents(c) \in Poly /\ \A t \in Positions : t \in Exponents(c) <=> Bit(c, t) = 1
  BY ExponentsType
<1>8. Exponents(c) = TimesVar(A)
  BY <1>5, <1>6, <1>7 DEF Poly
<1> QED
  BY <1>0, <1>1, <1>8

\* The rounds of gf128_mul.
MulRounds(g, x, y) ==
  /\ g[0] = [z |-> ZeroBlock, v |-> y]
  /\ \A t \in 1 .. NumBits :
       g[t] = [z |-> IF Bit(x, t - 1) = 1 THEN XorBlock(g[t - 1].z, g[t - 1].v) ELSE g[t - 1].z,
               v |-> TimesX(g[t - 1].v)]

LEMMA MulLoop ==
  ASSUME NEW x \in Block, NEW y \in Block
  PROVE  \E g \in [0 .. NumBits -> [z : Block, v : Block]] :
           MulRounds(g, x, y) /\ Mul(x, y) = g[NumBits].z
<1> DEFINE V == [z : Block, v : Block]
           next(p, t) == [z |-> IF Bit(x, t - 1) = 1 THEN XorBlock(p.z, p.v) ELSE p.z,
                          v |-> TimesX(p.v)]
           F == [a \in V \X Nat |-> next(a[1], a[2])]
           first == [z |-> ZeroBlock, v |-> y]
<1>1. first \in V
  BY ZeroBlockType
<1>2. F \in LoopStep(V)
  <2>1. ASSUME NEW a \in V \X Nat PROVE next(a[1], a[2]) \in V
    <3>1. a[1] \in V
      OBVIOUS
    <3>2. a[1].z \in Block /\ a[1].v \in Block
      BY <3>1
    <3>3. XorBlock(a[1].z, a[1].v) \in Block /\ TimesX(a[1].v) \in Block
      BY <3>2, XorBlockType, TimesXType
    <3> QED
      BY <3>2, <3>3
  <2> HIDE DEF next, V
  <2> QED
    BY <2>1 DEF LoopStep
<1>3. NumBits \in Nat
  BY Sizes, SizeAssumption DEF NumBits
<1>4. \A p \in V, t \in Nat : F[<<p, t>>] = next(p, t)
  BY DEF V
<1> HIDE DEF V, F, first
<1>5. HasLoop(V, first, F, NumBits)
  BY <1>1, <1>2, <1>3, Recursion
<1>6. PICK g \in [0 .. NumBits -> V] :
        g[0] = first /\ \A t \in 1 .. NumBits : g[t] = F[<<g[t - 1], t>>]
  BY <1>5 DEF HasLoop, IsLoop
<1>7. g = [t \in 0 .. NumBits |-> IF t = 0 THEN first ELSE next(g[t - 1], t)]
  <2>1. ASSUME NEW t \in 0 .. NumBits PROVE g[t] = IF t = 0 THEN first ELSE next(g[t - 1], t)
    <3>1. CASE t = 0
      BY <1>6, <3>1
    <3>2. CASE t # 0
      <4>1. t \in 1 .. NumBits /\ t \in Nat /\ t - 1 \in 0 .. NumBits
        BY <1>3, <3>2
      <4>2. g[t] = F[<<g[t - 1], t>>] /\ g[t - 1] \in V
        BY <1>6, <4>1
      <4>3. F[<<g[t - 1], t>>] = next(g[t - 1], t)
        BY <1>4, <4>1, <4>2
      <4> QED
        BY <3>2, <4>2, <4>3
    <3> QED
      BY <3>1, <3>2
  <2> HIDE DEF next
  <2> QED
    BY <2>1
<1> DEFINE loop[t \in 0 .. NumBits] ==
             IF t = 0 THEN [z |-> ZeroBlock, v |-> y]
             ELSE LET p == loop[t - 1]
                  IN  [z |-> IF Bit(x, t - 1) = 1 THEN XorBlock(p.z, p.v) ELSE p.z,
                       v |-> TimesX(p.v)]
<1>8. Mul(x, y) = loop[NumBits].z
  BY DEF Mul
<1>9. loop = [t \in 0 .. NumBits |-> IF t = 0 THEN first ELSE next(loop[t - 1], t)]
  BY <1>7, Zenon DEF first
<1> HIDE DEF loop
<1>10. \A t \in 0 .. NumBits : loop[t] \in V
  <2> DEFINE S == {t \in 0 .. NumBits : loop[t] \in V}
  <2> HIDE DEF next
  <2>1. 0 \in S
    BY <1>1, <1>3, <1>9
  <2>2. ASSUME NEW t \in 0 .. NumBits - 1, t \in S PROVE t + 1 \in S
    <3>1. t + 1 \in 0 .. NumBits /\ t + 1 # 0 /\ (t + 1) - 1 = t /\ t + 1 \in Nat
      BY <1>3
    <3>2. loop[t + 1] = next(loop[t], t + 1)
      BY <1>9, <3>1
    <3>3. loop[t] \in V
      BY <2>2
    <3>4. F[<<loop[t], t + 1>>] \in V
      BY <1>2, <3>1, <3>3 DEF LoopStep
    <3>5. loop[t + 1] \in V
      BY <1>4, <3>1, <3>2, <3>3, <3>4
    <3> QED
      BY <3>1, <3>5
  <2>3. \A t \in 0 .. NumBits : t \in S
    BY <1>3, <2>1, <2>2, RangeInduction
  <2> QED
    BY <2>3
<1>11. loop \in [0 .. NumBits -> V]
  BY <1>9, <1>10
<1>12. MulRounds(loop, x, y)
  <2>1. loop[0] = [z |-> ZeroBlock, v |-> y]
    BY <1>3, <1>9 DEF first
  <2>2. ASSUME NEW t \in 1 .. NumBits
        PROVE  loop[t] = [z |-> IF Bit(x, t - 1) = 1 THEN XorBlock(loop[t - 1].z, loop[t - 1].v)
                                ELSE loop[t - 1].z,
                          v |-> TimesX(loop[t - 1].v)]
    <3>1. t \in 0 .. NumBits /\ t # 0
      BY <1>3
    <3>2. loop[t] = next(loop[t - 1], t)
      BY <1>9, <3>1
    <3> QED
      BY <3>2
  <2> QED
    BY <2>1, <2>2 DEF MulRounds
<1> QED
  BY <1>8, <1>11, <1>12 DEF V

\* gf128_mul is the product of the field.
LEMMA MulExponents ==
  ASSUME NEW x \in Block, NEW y \in Block
  PROVE  Mul(x, y) \in Block /\ Exponents(Mul(x, y)) = Times(Exponents(x), Exponents(y))
<1>1. PICK g \in [0 .. NumBits -> [z : Block, v : Block]] :
        MulRounds(g, x, y) /\ Mul(x, y) = g[NumBits].z
  BY MulLoop
<1>2. PICK A \in Poly, B \in Poly : A = Exponents(x) /\ B = Exponents(y)
  BY ExponentsType
<1>3. NumBits \in Nat \ {0} /\ Positions = 0 .. NumBits - 1
  BY PositionFacts DEF Positions
<1> DEFINE upTo(t) == A \cap (0 .. t - 1)
           S == {t \in 0 .. NumBits :
                   /\ Exponents(g[t].z) = Times(upTo(t), B)
                   /\ t < NumBits => Exponents(g[t].v) = Moved(B, t)}
<1>4. 0 \in S
  <2>1. g[0].z = ZeroBlock /\ g[0].v = y
    BY <1>1 DEF MulRounds
  <2>2. Exponents(g[0].z) = {} /\ Exponents(g[0].v) = B
    BY <1>2, <2>1, ZeroExponents
  <2>3. upTo(0) = {}
    OBVIOUS
  <2>4. Times({}, B) = {} /\ Moved(B, 0) = B
    BY TimesNothing, MovedFirst
  <2>5. Exponents(g[0].z) = Times(upTo(0), B) /\ Exponents(g[0].v) = Moved(B, 0) /\ 0 \in 0 .. NumBits
    BY <1>3, <2>2, <2>3, <2>4
  <2> HIDE DEF upTo
  <2> QED
    BY <2>5
<1>5. ASSUME NEW t \in 0 .. NumBits - 1, t \in S PROVE t + 1 \in S
  <2>1. /\ t \in Positions /\ t \in 0 .. NumBits /\ t + 1 \in 1 .. NumBits /\ t + 1 \in 0 .. NumBits
        /\ (t + 1) - 1 = t /\ t < NumBits
    BY <1>3
  <2>2. PICK z \in Block, v \in Block : z = g[t].z /\ v = g[t].v
    BY <2>1
  <2>3. /\ g[t + 1].z = IF Bit(x, t) = 1 THEN XorBlock(z, v) ELSE z
        /\ g[t + 1].v = TimesX(v)
    <3>1. PICK u \in 1 .. NumBits : u = t + 1 /\ u - 1 = t
      BY <2>1
    <3>2. g[u] = [z |-> IF Bit(x, u - 1) = 1 THEN XorBlock(g[u - 1].z, g[u - 1].v) ELSE g[u - 1].z,
                  v |-> TimesX(g[u - 1].v)]
      BY <1>1 DEF MulRounds
    <3>3. g[u] = [z |-> IF Bit(x, t) = 1 THEN XorBlock(z, v) ELSE z, v |-> TimesX(v)]
      BY <2>2, <3>1, <3>2
    <3> QED
      BY <3>1, <3>3
  <2>4. Exponents(z) = Times(upTo(t), B) /\ Exponents(v) = Moved(B, t)
    BY <1>5, <2>1, <2>2
  <2>5. Bit(x, t) = 1 <=> t \in A
    BY <1>2, <2>1, ExponentsType
  <2>6. Exponents(g[t + 1].z) = Times(upTo(t + 1), B)
    <3>1. CASE t \in A
      <4>1. upTo(t + 1) = upTo(t) \cup {t} /\ t \notin upTo(t) /\ upTo(t) \in Poly
        BY <2>1, <3>1 DEF Poly
      <4>2. Exponents(XorBlock(z, v)) = SymDiff(Exponents(z), Exponents(v))
        BY XorExponents
      <4> HIDE DEF upTo
      <4>3. Times(upTo(t) \cup {t}, B) = SymDiff(Times(upTo(t), B), Moved(B, t))
        BY <2>1, <4>1, TimesAdd
      <4> QED
        BY <2>3, <2>4, <2>5, <3>1, <4>1, <4>2, <4>3
    <3>2. CASE t \notin A
      <4>1. upTo(t + 1) = upTo(t)
        BY <2>1, <3>2
      <4> HIDE DEF upTo
      <4> QED
        BY <2>3, <2>4, <2>5, <3>2, <4>1
    <3> QED
      BY <3>1, <3>2
  <2>7. Exponents(g[t + 1].v) = Moved(B, t + 1)
    <3>1. Exponents(TimesX(v)) = TimesVar(Exponents(v))
      BY TimesXExponents
    <3>2. Moved(B, t + 1) = TimesVar(Moved(B, t))
      BY <2>1, MovedNext
    <3> QED
      BY <2>3, <2>4, <3>1, <3>2
  <2> HIDE DEF upTo
  <2> QED
    BY <2>1, <2>6, <2>7
<1>6. NumBits \in S
  <2> HIDE DEF S
  <2>1. \A t \in 0 .. NumBits : t \in S
    BY <1>3, <1>4, <1>5, RangeInduction
  <2> QED
    BY <1>3, <2>1
<1>7. upTo(NumBits) = A
  BY <1>3 DEF Poly
<1>8. Exponents(g[NumBits].z) = Times(A, B)
  BY <1>6, <1>7
<1>9. g[NumBits].z \in Block
  BY <1>3
<1> QED
  BY <1>1, <1>2, <1>8, <1>9

LEMMA MulType ==
  ASSUME NEW x \in Block, NEW y \in Block
  PROVE  Mul(x, y) \in Block
BY MulExponents

Rounds(len) == RoundUp(len) \div BlockSize

\* The rounds of ghash over n blocks c.
GhashRounds(g, h, c, n) ==
  /\ g[0] = ZeroBlock
  /\ \A k \in 1 .. n : g[k] = Mul(XorBlock(g[k - 1], c[k]), h)

\* The blocks that ghash takes from data, the last one zero-filled.
Chunks(data, n) == [k \in 1 .. n |-> Chunk(data, (k - 1) * BlockSize)]

LEMMA GhashLoop ==
  ASSUME NEW h \in Block, NEW data \in Seq(Byte), NEW len \in Nat, Rounds(len) \in Nat
  PROVE  \E g \in [0 .. Rounds(len) -> Block] :
           GhashRounds(g, h, Chunks(data, Rounds(len)), Rounds(len))
             /\ Ghash(h, data, len) = g[Rounds(len)]
<1> DEFINE N == Rounds(len)
           next(b, n) == Mul(XorBlock(b, Chunk(data, (n - 1) * BlockSize)), h)
           F == [a \in Block \X Nat |-> IF a[2] \in 1 .. N THEN next(a[1], a[2]) ELSE ZeroBlock]
<1>1. ASSUME NEW b \in Block, NEW n \in 1 .. N PROVE next(b, n) \in Block
  <2>1. (n - 1) * BlockSize \in Nat
    <3>1. n - 1 \in Nat
      OBVIOUS
    <3> QED
      BY <3>1, Sizes
  <2>2. Chunk(data, (n - 1) * BlockSize) \in Block
    BY <2>1, ChunkType
  <2>3. XorBlock(b, Chunk(data, (n - 1) * BlockSize)) \in Block
    BY <2>2, XorBlockType
  <2> QED
    BY <2>3, MulType
<1> HIDE DEF next
<1>2. F \in LoopStep(Block)
  BY <1>1, ZeroBlockType DEF LoopStep
<1>3. \A b \in Block, n \in 1 .. N : F[<<b, n>>] = next(b, n)
  OBVIOUS
<1> HIDE DEF F
<1>4. N \in Nat
  OBVIOUS
<1> HIDE DEF N
<1>5. HasLoop(Block, ZeroBlock, F, N)
  BY <1>2, <1>4, ZeroBlockType, Recursion
<1>6. PICK g \in [0 .. N -> Block] :
        g[0] = ZeroBlock /\ \A n \in 1 .. N : g[n] = F[<<g[n - 1], n>>]
  BY <1>5 DEF HasLoop, IsLoop
<1>7. g = [n \in 0 .. N |-> IF n = 0 THEN ZeroBlock ELSE next(g[n - 1], n)]
  <2>1. ASSUME NEW n \in 0 .. N PROVE g[n] = IF n = 0 THEN ZeroBlock ELSE next(g[n - 1], n)
    <3>1. CASE n = 0
      BY <1>6, <3>1
    <3>2. CASE n # 0
      <4>1. n \in 1 .. N /\ n - 1 \in 0 .. N
        BY <1>4, <3>2
      <4>2. g[n] = F[<<g[n - 1], n>>] /\ g[n - 1] \in Block
        BY <1>6, <4>1
      <4> QED
        BY <1>3, <3>2, <4>1, <4>2
    <3> QED
      BY <3>1, <3>2
  <2> QED
    BY <2>1
<1> DEFINE loop[n \in 0 .. RoundUp(len) \div BlockSize] ==
             IF n = 0 THEN ZeroBlock
             ELSE Mul(XorBlock(loop[n - 1], Chunk(data, (n - 1) * BlockSize)), h)
<1>8. Ghash(h, data, len) = loop[N]
  BY DEF Ghash, N, Rounds
<1>9. loop = [n \in 0 .. N |-> IF n = 0 THEN ZeroBlock ELSE next(loop[n - 1], n)]
  BY <1>7, Zenon DEF N, Rounds, next
<1> HIDE DEF loop
<1>10. \A n \in 0 .. N : loop[n] \in Block
  <2> DEFINE S == {n \in 0 .. N : loop[n] \in Block}
  <2>1. 0 \in S
    BY <1>4, <1>9, ZeroBlockType
  <2>2. ASSUME NEW n \in 0 .. N - 1, n \in S PROVE n + 1 \in S
    <3>1. n + 1 \in 1 .. N /\ n + 1 \in 0 .. N /\ n + 1 # 0 /\ (n + 1) - 1 = n
      BY <1>4
    <3>2. loop[n + 1] = next(loop[n], n + 1)
      BY <1>9, <3>1
    <3>3. loop[n] \in Block
      BY <2>2
    <3>4. loop[n + 1] \in Block
      BY <1>1, <3>1, <3>2, <3>3
    <3> QED
      BY <3>1, <3>4
  <2>3. \A n \in 0 .. N : n \in S
    BY <1>4, <2>1, <2>2, RangeInduction
  <2> QED
    BY <2>3
<1>11. loop \in [0 .. N -> Block]
  BY <1>9, <1>10
<1>12. GhashRounds(loop, h, Chunks(data, N), N)
  <2>1. loop[0] = ZeroBlock
    BY <1>4, <1>9
  <2>2. ASSUME NEW k \in 1 .. N PROVE loop[k] = Mul(XorBlock(loop[k - 1], Chunks(data, N)[k]), h)
    <3>1. k \in 0 .. N /\ k # 0
      BY <1>4
    <3>2. loop[k] = next(loop[k - 1], k)
      BY <1>9, <3>1
    <3>3. Chunks(data, N)[k] = Chunk(data, (k - 1) * BlockSize)
      BY DEF Chunks
    <3> QED
      BY <3>2, <3>3 DEF next
  <2> QED
    BY <2>1, <2>2 DEF GhashRounds
<1> QED
  BY <1>8, <1>11, <1>12 DEF N

LEMMA GhashType ==
  ASSUME NEW h \in Block, NEW data \in Seq(Byte), NEW len \in Nat, Rounds(len) \in Nat
  PROVE  Ghash(h, data, len) \in Block
<1>1. PICK g \in [0 .. Rounds(len) -> Block] : Ghash(h, data, len) = g[Rounds(len)]
  BY GhashLoop
<1> QED
  BY <1>1

Piece(data, k) == SubSeq(data, (k - 1) * BlockSize + 1, k * BlockSize)

LEMMA PieceIsBlock ==
  ASSUME NEW n \in Nat, NEW full \in Seq(Byte), Len(full) = BlockSize * n, NEW k \in 1 .. n,
         NEW c \in Block, \A j \in 1 .. BlockSize : full[(k - 1) * BlockSize + j] = c[j]
  PROVE  Piece(full, k) = c
<1>1. BlockSize \in Nat \ {0} /\ k - 1 \in Nat /\ n - k \in Nat
  BY Sizes
<1>2. PICK from \in Nat : from = (k - 1) * BlockSize
  <2>1. (k - 1) * BlockSize \in Nat
    BY <1>1
  <2> QED
    BY <2>1
<1>3. k * BlockSize = from + BlockSize
  BY <1>1, <1>2
<1>4. PICK rest \in Nat : rest = (n - k) * BlockSize
  <2>1. (n - k) * BlockSize \in Nat
    BY <1>1
  <2> QED
    BY <2>1
<1>5. Len(full) = from + BlockSize + rest
  <2>1. BlockSize * n = k * BlockSize + (n - k) * BlockSize
    BY <1>1
  <2> QED
    BY <1>3, <1>4, <2>1
<1>6. PICK to \in Nat : to = from + BlockSize
  BY <1>1
<1>7. Piece(full, k) = SubSeq(full, from + 1, to)
  BY <1>2, <1>3, <1>6 DEF Piece
<1>8. from + 1 \in 1 .. Len(full) + 1 /\ to \in from .. Len(full)
  BY <1>1, <1>5, <1>6
<1>9. SubSeq(full, from + 1, to) = [j \in 1 .. BlockSize |-> full[from + j]]
  <2>1. SubSeq(full, from + 1, to) = [j \in 1 .. (1 + to - (from + 1)) |-> full[from + 1 + j - 1]]
    BY <1>8
  <2>2. 1 + to - (from + 1) = BlockSize
    BY <1>1, <1>6
  <2>3. \A j \in 1 .. BlockSize : from + 1 + j - 1 = from + j
    BY <1>1
  <2> QED
    BY <2>1, <2>2, <2>3
<1>10. \A j \in 1 .. BlockSize : full[from + j] = c[j]
  BY <1>2
<1>11. c = [j \in 1 .. BlockSize |-> c[j]]
  BY DEF Block
<1> QED
  BY <1>7, <1>9, <1>10, <1>11

\* The n blocks c, one after the other.
Joined(full, c, n) ==
  /\ Len(full) = BlockSize * n
  /\ \A k \in 1 .. n, j \in 1 .. BlockSize : full[(k - 1) * BlockSize + j] = c[k][j]

LEMMA BlocksHashed ==
  ASSUME NEW h \in Block, NEW n \in Nat, NEW c \in [1 .. n -> Block],
         NEW g \in [0 .. n -> Block], GhashRounds(g, h, c, n),
         NEW full \in Seq(Byte), Joined(full, c, n)
  PROVE  Hash(Exponents(h), full) = Exponents(g[n])
<1> DEFINE H == Exponents(h)
           next(A, k) == Times(SymDiff(A, Exponents(Piece(full, k))), H)
           known == [k \in 0 .. n |-> Exponents(g[k])]
<1>1. Len(full) \div BlockSize = n
  <2>1. BlockSize \in Nat \ {0} /\ Len(full) = BlockSize * n
    BY Sizes DEF Joined
  <2>2. (BlockSize * n + 0) \div BlockSize = n
    <3>1. PICK u \in Nat : u = BlockSize * n + 0
      <4>1. BlockSize * n + 0 \in Nat
        BY <2>1
      <4> QED
        BY <4>1
    <3>2. 0 \in 0 .. BlockSize - 1
      BY <2>1
    <3>3. u \div BlockSize = n
      BY <2>1, <3>1, <3>2, Quotient
    <3> QED
      BY <3>1, <3>3
  <2>3. BlockSize * n + 0 = BlockSize * n
    BY <2>1
  <2> QED
    BY <2>1, <2>2, <2>3
<1>2. ASSUME NEW k \in 1 .. n PROVE known[k] = next(known[k - 1], k)
  <2>1. k \in 0 .. n /\ k - 1 \in 0 .. n
    OBVIOUS
  <2>2. PICK p \in Block, d \in Block : p = g[k - 1] /\ d = c[k]
    BY <2>1
  <2>3. g[k] = Mul(XorBlock(p, d), h)
    BY <2>2 DEF GhashRounds
  <2>4. PICK x \in Block : x = XorBlock(p, d)
    BY XorBlockType
  <2>5. Exponents(Mul(x, h)) = Times(Exponents(x), H)
    BY MulExponents
  <2>6. Exponents(x) = SymDiff(Exponents(p), Exponents(d))
    BY <2>4, XorExponents
  <2>7. Piece(full, k) = d
    <3>1. \A j \in 1 .. BlockSize : full[(k - 1) * BlockSize + j] = d[j]
      BY <2>2 DEF Joined
    <3>2. Len(full) = BlockSize * n
      BY DEF Joined
    <3> QED
      BY <3>1, <3>2, PieceIsBlock
  <2>8. known[k] = Exponents(g[k]) /\ known[k - 1] = Exponents(p)
    BY <2>1, <2>2
  <2> HIDE DEF H, known
  <2> QED
    BY <2>3, <2>4, <2>5, <2>6, <2>7, <2>8
<1>3. known[0] = {}
  <2>1. g[0] = ZeroBlock
    BY DEF GhashRounds
  <2>2. 0 \in 0 .. n
    OBVIOUS
  <2> QED
    BY <2>1, <2>2, ZeroExponents
<1> HIDE DEF next
<1>4. known = [k \in 0 .. n |-> IF k = 0 THEN {} ELSE next(known[k - 1], k)]
  <2>1. ASSUME NEW k \in 0 .. n PROVE known[k] = IF k = 0 THEN {} ELSE next(known[k - 1], k)
    <3>1. CASE k = 0
      BY <1>3, <3>1
    <3>2. CASE k # 0
      <4>1. k \in 1 .. n
        BY <3>2
      <4> HIDE DEF known
      <4> QED
        BY <1>2, <3>2, <4>1
    <3> QED
      BY <3>1, <3>2
  <2>2. known = [k \in 0 .. n |-> known[k]]
    OBVIOUS
  <2> HIDE DEF known
  <2> QED
    BY <2>1, <2>2
<1> HIDE DEF known, H
<1> DEFINE sum[k \in 0 .. Len(full) \div BlockSize] ==
             IF k = 0 THEN {}
             ELSE Times(SymDiff(sum[k - 1],
                                Exponents(SubSeq(full, (k - 1) * BlockSize + 1, k * BlockSize))), H)
<1>5. Hash(H, full) = sum[Len(full) \div BlockSize]
  BY DEF Hash
<1>6. sum = [k \in 0 .. n |-> IF k = 0 THEN {} ELSE next(sum[k - 1], k)]
  BY <1>1, <1>4, Zenon DEF next, Piece
<1> HIDE DEF sum
<1>7. \A k \in 0 .. n : sum[k] = known[k]
  <2> DEFINE S == {k \in 0 .. n : sum[k] = known[k]}
  <2>1. 0 \in S
    BY <1>3, <1>6
  <2>2. ASSUME NEW k \in 0 .. n - 1, k \in S PROVE k + 1 \in S
    <3>1. k + 1 \in 1 .. n /\ k + 1 \in 0 .. n /\ k + 1 # 0 /\ (k + 1) - 1 = k
      OBVIOUS
    <3>2. sum[k + 1] = next(sum[k], k + 1)
      BY <1>6, <3>1
    <3>3. known[k + 1] = next(known[k], k + 1)
      BY <1>4, <3>1
    <3>4. sum[k] = known[k]
      BY <2>2
    <3> QED
      BY <3>1, <3>2, <3>3, <3>4
  <2>3. \A k \in 0 .. n : k \in S
    BY <2>1, <2>2, RangeInduction
  <2> QED
    BY <2>3
<1>8. n \in 0 .. n
  OBVIOUS
<1>9. known[n] = Exponents(g[n])
  BY <1>8 DEF known
<1> QED
  BY <1>1, <1>5, <1>7, <1>8, <1>9 DEF H

\* g is the run of ghash over the blocks c that full joins.
Hashing(h, n, c, g, full) ==
  /\ h \in Block /\ n \in Nat /\ c \in [1 .. n -> Block] /\ g \in [0 .. n -> Block]
  /\ full \in Seq(Byte) /\ GhashRounds(g, h, c, n) /\ Joined(full, c, n)

LEMMA HashOfBlocks ==
  ASSUME NEW h, NEW n, NEW c, NEW g, NEW full, Hashing(h, n, c, g, full)
  PROVE  Hash(Exponents(h), full) = Exponents(g[n])
BY BlocksHashed DEF Hashing

-----------------------------------------------------------------------------
(* What is hashed *)

LEMMA RoundUpFacts ==
  ASSUME NEW n \in Nat
  PROVE  /\ Rounds(n) \in Nat /\ Rounds(n) = (n + BlockSize - 1) \div BlockSize
         /\ RoundUp(n) \in Nat /\ RoundUp(n) = BlockSize * Rounds(n)
         /\ n <= RoundUp(n) /\ RoundUp(n) < n + BlockSize
<1> DEFINE m == n + BlockSize - 1
           q == m \div BlockSize
           r == m % BlockSize
<1>1. BlockSize \in Nat \ {0} /\ m \in Nat
  BY Sizes
<1>2. q \in Nat /\ r \in 0 .. BlockSize - 1 /\ m = BlockSize * q + r
  BY <1>1, DivMod
<1>3. RoundUp(n) = q * BlockSize
  BY DEF RoundUp
<1> HIDE DEF q, r
<1>4. q * BlockSize = BlockSize * q /\ BlockSize * q \in Nat
  BY <1>1, <1>2
<1>5. (BlockSize * q + 0) \div BlockSize = q
  <2>1. PICK u \in Nat : u = BlockSize * q + 0
    BY <1>4
  <2>2. 0 \in 0 .. BlockSize - 1
    BY <1>1
  <2>3. u \div BlockSize = q
    BY <1>1, <1>2, <2>1, <2>2, Quotient
  <2> QED
    BY <2>1, <2>3
<1>6. Rounds(n) = q
  BY <1>3, <1>4, <1>5 DEF Rounds
<1>7. n <= BlockSize * q /\ BlockSize * q < n + BlockSize
  BY <1>1, <1>2, <1>4
<1> QED
  BY <1>2, <1>3, <1>4, <1>6, <1>7 DEF q

LEMMA RoundUpSum ==
  ASSUME NEW a \in Nat, NEW n \in Nat
  PROVE  RoundUp(RoundUp(a) + n) = RoundUp(a) + RoundUp(n)
<1> DEFINE p == Rounds(a)
           q == Rounds(n)
           m == n + BlockSize - 1
           r == m % BlockSize
<1>1. BlockSize \in Nat \ {0} /\ m \in Nat
  BY Sizes
<1>2. p \in Nat /\ RoundUp(a) = BlockSize * p /\ RoundUp(a) \in Nat
  BY RoundUpFacts
<1>3. q \in Nat /\ RoundUp(n) = BlockSize * q /\ q = m \div BlockSize
  BY RoundUpFacts
<1>4. r \in 0 .. BlockSize - 1 /\ m = BlockSize * q + r
  BY <1>1, <1>3, DivMod
<1>5. RoundUp(a) + n \in Nat
  BY <1>2
<1>6. /\ Rounds(RoundUp(a) + n) = (RoundUp(a) + n + BlockSize - 1) \div BlockSize
      /\ RoundUp(RoundUp(a) + n) = BlockSize * Rounds(RoundUp(a) + n)
  BY <1>5, RoundUpFacts
<1> HIDE DEF p, q, r
<1>7. BlockSize * (p + q) = BlockSize * p + BlockSize * q
      /\ BlockSize * p \in Nat /\ BlockSize * q \in Nat
  BY <1>1, <1>2, <1>3
<1>8. PICK u \in Nat, s \in Nat : u = RoundUp(a) + n + BlockSize - 1 /\ s = p + q
  <2>1. RoundUp(a) + n + BlockSize - 1 \in Nat
    BY <1>1, <1>5
  <2>2. p + q \in Nat
    BY <1>2, <1>3
  <2> QED
    BY <2>1, <2>2
<1>9. u = BlockSize * s + r
  BY <1>1, <1>2, <1>4, <1>7, <1>8
<1>10. u \div BlockSize = s
  BY <1>1, <1>4, <1>9, Quotient
<1> QED
  BY <1>2, <1>3, <1>6, <1>7, <1>8, <1>10

\* What memcpy does to a buffer of n bytes.
Laid(n, buf, at, bytes) ==
  /\ Lay(buf, at, bytes) \in [1 .. n -> Byte]
  /\ \A j \in 1 .. Len(bytes) : Lay(buf, at, bytes)[at + j] = bytes[j]
  /\ \A j \in 1 .. n : j <= at \/ j > at + Len(bytes) => Lay(buf, at, bytes)[j] = buf[j]

LEMMA LayFacts ==
  ASSUME NEW n \in Nat, NEW buf \in [1 .. n -> Byte], NEW at \in Nat,
         NEW bytes \in Seq(Byte), at + Len(bytes) <= n
  PROVE  Laid(n, buf, at, bytes)
<1>1. Len(bytes) \in Nat /\ \A j \in 1 .. Len(bytes) : bytes[j] \in Byte
  BY LenProperties, ElementOfSeq
<1>2. Lay(buf, at, bytes)
        = [j \in 1 .. n |-> IF j \in at + 1 .. at + Len(bytes) THEN bytes[j - at] ELSE buf[j]]
  BY DEF Lay
<1>3. \A j \in at + 1 .. at + Len(bytes) : j - at \in 1 .. Len(bytes)
  BY <1>1
<1>4. Lay(buf, at, bytes) \in [1 .. n -> Byte]
  BY <1>1, <1>2, <1>3
<1>5. ASSUME NEW j \in 1 .. Len(bytes) PROVE Lay(buf, at, bytes)[at + j] = bytes[j]
  <2>1. at + j \in 1 .. n /\ at + j \in at + 1 .. at + Len(bytes) /\ (at + j) - at = j
    BY <1>1
  <2> QED
    BY <1>2, <2>1
<1>6. ASSUME NEW j \in 1 .. n, j <= at \/ j > at + Len(bytes)
      PROVE  Lay(buf, at, bytes)[j] = buf[j]
  <2>1. j \notin at + 1 .. at + Len(bytes)
    BY <1>1, <1>6
  <2> QED
    BY <1>2, <2>1
<1> QED
  BY <1>4, <1>5, <1>6 DEF Laid

LEMMA BitsType ==
  ASSUME NEW data \in Seq(Byte)
  PROVE  /\ Len(data) \in Nat /\ Bits(data) \in Nat /\ Bits(data) = Len(data) * ByteBits
         /\ LenField(Bits(data)) \in Seq(Byte) /\ Len(LenField(Bits(data))) = BlockSize \div 2
<1>1. Len(data) \in Nat /\ Bits(data) = Len(data) * ByteBits
  BY LenProperties DEF Bits
<1>2. Bits(data) \in Nat
  BY <1>1, SizeAssumption
<1>3. BlockSize \div 2 \in 0 .. BlockSize
  BY Sizes
<1> QED
  BY <1>1, <1>2, <1>3, BigEndianType DEF LenField

LengthBlock(aad, ct) == LenField(Bits(aad)) \o LenField(Bits(ct))

LEMMA LengthBlockType ==
  ASSUME NEW aad \in Seq(Byte), NEW ct \in Seq(Byte)
  PROVE  /\ LengthBlock(aad, ct) \in Seq(Byte) /\ Len(LengthBlock(aad, ct)) = BlockSize
         /\ \A j \in 1 .. BlockSize \div 2 :
              /\ LengthBlock(aad, ct)[j] = LenField(Bits(aad))[j]
              /\ LengthBlock(aad, ct)[BlockSize \div 2 + j] = LenField(Bits(ct))[j]
<1> DEFINE a == LenField(Bits(aad))
           c == LenField(Bits(ct))
           half == BlockSize \div 2
<1>1. a \in Seq(Byte) /\ c \in Seq(Byte) /\ Len(a) = half /\ Len(c) = half
  BY BitsType
<1>2. half \in 1 .. BlockSize /\ half + half = BlockSize /\ BlockSize \in Nat
  BY Sizes
<1>3. LengthBlock(aad, ct) = a \o c
  BY DEF LengthBlock
<1> HIDE DEF a, c, half
<1>4. /\ a \o c \in Seq(Byte) /\ Len(a \o c) = BlockSize
      /\ \A j \in 1 .. half + half : (a \o c)[j] = IF j <= half THEN a[j] ELSE c[j - half]
  <2>1. a \o c \in Seq(Byte) /\ Len(a \o c) = Len(a) + Len(c)
    BY <1>1, ConcatProperties
  <2>2. \A j \in 1 .. Len(a) + Len(c) : (a \o c)[j] = IF j <= Len(a) THEN a[j] ELSE c[j - Len(a)]
    BY <1>1, ConcatProperties
  <2> QED
    BY <1>1, <1>2, <2>1, <2>2
<1>5. ASSUME NEW j \in 1 .. half PROVE (a \o c)[j] = a[j] /\ (a \o c)[half + j] = c[j]
  <2>1. /\ j \in 1 .. half + half /\ j <= half
        /\ half + j \in 1 .. half + half /\ ~(half + j <= half) /\ (half + j) - half = j
    BY <1>2
  <2> QED
    BY <1>4, <2>1
<1> QED
  BY <1>3, <1>4, <1>5 DEF a, c, half

\* The texts of the server, and that a buffer for two of them has the size of its parts.
Texts == {d \in Seq(Byte) : Len(d) \in Lengths}

SizeFits(aad, ct) == BufSize(aad, ct) = RoundUp(Len(aad)) + RoundUp(Len(ct)) + BlockSize

LEMMA ModuloBelow ==
  ASSUME NEW n \in Nat, NEW b \in Nat \ {0}, n < b
  PROVE  n % b = n
OBVIOUS

LEMMA TextsFit ==
  ASSUME NEW aad \in Texts, NEW ct \in Texts
  PROVE  SizeFits(aad, ct)
<1> DEFINE n == RoundUp(Len(aad)) + RoundUp(Len(ct)) + BlockSize
<1>1. Len(aad) \in Lengths /\ Len(ct) \in Lengths /\ Len(aad) \in Nat /\ Len(ct) \in Nat
  BY LenProperties DEF Texts
<1>2. RoundUp(Len(aad)) \in Nat /\ RoundUp(Len(ct)) \in Nat /\ BlockSize \in Nat
  BY <1>1, RoundUpFacts, Sizes
<1>3. n \in Nat /\ n <= SizeMax /\ SizeMax \in Nat
  BY <1>1, <1>2, LengthAssumption, SizeMaxAssumption
<1> HIDE DEF n
<1>4. n % (SizeMax + 1) = n
  BY <1>3, ModuloBelow
<1> QED
  BY <1>4 DEF SizeFits, BufSize, SizeT, n

\* The buffer is as long as what is laid into it, and each part is in its place
\* and followed by zeros up to the end of its last block.
LEMMA LayoutFacts ==
  ASSUME NEW aad \in Seq(Byte), NEW ct \in Seq(Byte), SizeFits(aad, ct)
  PROVE  /\ Layout(aad, ct).len = BufSize(aad, ct) /\ BufSize(aad, ct) \in Nat
         /\ BufSize(aad, ct) = RoundUp(Len(aad)) + RoundUp(Len(ct)) + BlockSize
         /\ Layout(aad, ct).buf \in Seq(Byte) /\ Len(Layout(aad, ct).buf) = BufSize(aad, ct)
         /\ \A j \in 1 .. Len(aad) : Layout(aad, ct).buf[j] = aad[j]
         /\ \A j \in 1 .. Len(ct) : Layout(aad, ct).buf[RoundUp(Len(aad)) + j] = ct[j]
         /\ \A j \in 1 .. BlockSize :
              Layout(aad, ct).buf[BufSize(aad, ct) - BlockSize + j] = LengthBlock(aad, ct)[j]
         /\ \A j \in 1 .. BufSize(aad, ct) :
              (Len(aad) < j /\ j <= RoundUp(Len(aad)))
                \/ (RoundUp(Len(aad)) + Len(ct) < j /\ j <= BufSize(aad, ct) - BlockSize)
              => Layout(aad, ct).buf[j] = 0
<1> DEFINE n == BufSize(aad, ct)
           atCt == RoundUp(Len(aad))
           atLen == RoundUp(atCt + Len(ct))
           b0 == [j \in 1 .. n |-> 0]
           b1 == Lay(b0, 0, aad)
           b2 == Lay(b1, atCt, ct)
           b3 == Lay(b2, atLen, LengthBlock(aad, ct))
<1>1. Layout(aad, ct) = [buf |-> b3, len |-> atLen + BlockSize]
  BY DEF Layout, LengthBlock
<1>2. /\ BlockSize \in Nat \ {0} /\ Len(aad) \in Nat /\ Len(ct) \in Nat
      /\ n = atCt + RoundUp(Len(ct)) + BlockSize
  BY Sizes, LenProperties DEF SizeFits
<1>3. /\ atCt \in Nat /\ Len(aad) <= atCt
      /\ RoundUp(Len(ct)) \in Nat /\ Len(ct) <= RoundUp(Len(ct))
      /\ atLen = atCt + RoundUp(Len(ct))
  BY <1>2, RoundUpFacts, RoundUpSum
<1>4. n \in Nat /\ n = atLen + BlockSize /\ atLen \in Nat
  BY <1>2, <1>3
<1>5. LengthBlock(aad, ct) \in Seq(Byte) /\ Len(LengthBlock(aad, ct)) = BlockSize
  BY LengthBlockType
<1>6. b0 \in [1 .. n -> Byte] /\ \A j \in 1 .. n : b0[j] = 0
  BY Sizes
<1> HIDE DEF n, atCt, atLen, b0, b1, b2, b3
<1>7. /\ b1 \in [1 .. n -> Byte]
      /\ \A j \in 1 .. Len(aad) : b1[0 + j] = aad[j]
      /\ \A j \in 1 .. n : j > Len(aad) => b1[j] = 0
  <2>1. 0 \in Nat /\ 0 + Len(aad) <= n
    BY <1>2, <1>3, <1>4
  <2>2. b0 \in [1 .. n -> Byte] /\ n \in Nat /\ aad \in Seq(Byte)
    BY <1>4, <1>6
  <2>3. Laid(n, b0, 0, aad)
    BY <2>1, <2>2, LayFacts
  <2>4. \A j \in 1 .. Len(aad) : Lay(b0, 0, aad)[0 + j] = aad[j]
    BY <2>3 DEF Laid
  <2>5. \A j \in 1 .. n : j <= 0 \/ j > 0 + Len(aad) => Lay(b0, 0, aad)[j] = b0[j]
    BY <2>3 DEF Laid
  <2>6. Lay(b0, 0, aad) \in [1 .. n -> Byte]
    BY <2>3 DEF Laid
  <2>7. \A j \in 1 .. n : j > Len(aad) => Lay(b0, 0, aad)[j] = 0
    BY <1>2, <1>6, <2>5
  <2> QED
    BY <2>4, <2>6, <2>7 DEF b1
<1>8. /\ b2 \in [1 .. n -> Byte]
      /\ \A j \in 1 .. Len(ct) : b2[atCt + j] = ct[j]
      /\ \A j \in 1 .. n : j <= atCt \/ j > atCt + Len(ct) => b2[j] = b1[j]
  <2>1. atCt + Len(ct) <= n
    BY <1>2, <1>3, <1>4
  <2>2. /\ Lay(b1, atCt, ct) \in [1 .. n -> Byte]
        /\ \A j \in 1 .. Len(ct) : Lay(b1, atCt, ct)[atCt + j] = ct[j]
        /\ \A j \in 1 .. n : j <= atCt \/ j > atCt + Len(ct) => Lay(b1, atCt, ct)[j] = b1[j]
    <3>1. b1 \in [1 .. n -> Byte] /\ n \in Nat /\ atCt \in Nat /\ ct \in Seq(Byte)
      BY <1>3, <1>4, <1>7
    <3>2. Laid(n, b1, atCt, ct)
      BY <2>1, <3>1, LayFacts
    <3> QED
      BY <3>2 DEF Laid
  <2> QED
    BY <2>2 DEF b2
<1>9. /\ b3 \in [1 .. n -> Byte]
      /\ \A j \in 1 .. BlockSize : b3[atLen + j] = LengthBlock(aad, ct)[j]
      /\ \A j \in 1 .. n : j <= atLen \/ j > atLen + BlockSize => b3[j] = b2[j]
  <2>1. atLen + Len(LengthBlock(aad, ct)) <= n
    BY <1>4, <1>5
  <2>2. PICK l \in Seq(Byte) : l = LengthBlock(aad, ct)
    BY <1>5
  <2>3. Len(l) = BlockSize /\ atLen + Len(l) <= n /\ b3 = Lay(b2, atLen, l)
    BY <1>5, <2>1, <2>2 DEF b3
  <2>4. /\ Lay(b2, atLen, l) \in [1 .. n -> Byte]
        /\ \A j \in 1 .. Len(l) : Lay(b2, atLen, l)[atLen + j] = l[j]
        /\ \A j \in 1 .. n : j <= atLen \/ j > atLen + Len(l) => Lay(b2, atLen, l)[j] = b2[j]
    <3>1. b2 \in [1 .. n -> Byte] /\ n \in Nat /\ atLen \in Nat /\ atLen + Len(l) <= n
      BY <1>4, <1>8, <2>3
    <3>2. Laid(n, b2, atLen, l)
      BY <3>1, LayFacts
    <3> QED
      BY <3>2 DEF Laid
  <2> QED
    BY <2>2, <2>3, <2>4
<1>10. b3 \in Seq(Byte) /\ Len(b3) = n
  <2>1. b3 \in Seq(Byte)
    BY <1>4, <1>9, SeqDef
  <2>2. DOMAIN b3 = 1 .. n /\ DOMAIN b3 = 1 .. Len(b3) /\ Len(b3) \in Nat
    BY <1>9, <2>1, LenProperties
  <2> QED
    BY <1>4, <2>1, <2>2
<1>11. ASSUME NEW j \in 1 .. Len(aad) PROVE b3[j] = aad[j]
  <2>1. j \in 1 .. n /\ j <= atCt /\ j <= atLen /\ 0 + j = j
    BY <1>2, <1>3, <1>4
  <2> QED
    BY <1>7, <1>8, <1>9, <2>1
<1>12. ASSUME NEW j \in 1 .. Len(ct) PROVE b3[atCt + j] = ct[j]
  <2>1. atCt + j \in 1 .. n /\ atCt + j <= atLen
    BY <1>2, <1>3, <1>4
  <2> QED
    BY <1>8, <1>9, <2>1
<1>13. n - BlockSize = atLen
  BY <1>2, <1>4
<1>14. ASSUME NEW j \in 1 .. n,
              \/ Len(aad) < j /\ j <= atCt
              \/ atCt + Len(ct) < j /\ j <= atLen
       PROVE  b3[j] = 0
  <2>1. b3[j] = b2[j]
    BY <1>2, <1>3, <1>4, <1>9, <1>14
  <2>2. b2[j] = b1[j]
    BY <1>2, <1>3, <1>4, <1>8, <1>14
  <2>3. b1[j] = 0
    BY <1>2, <1>3, <1>4, <1>7, <1>14
  <2> QED
    BY <2>1, <2>2, <2>3
<1> QED
  BY <1>1, <1>2, <1>4, <1>9, <1>10, <1>11, <1>12, <1>13, <1>14 DEF n, atCt

LEMMA SameSeq ==
  ASSUME NEW a \in Seq(Byte), NEW b \in Seq(Byte), Len(a) = Len(b),
         \A j \in 1 .. Len(a) : a[j] = b[j]
  PROVE  a = b
<1>1. a = [j \in 1 .. Len(a) |-> a[j]] /\ b = [j \in 1 .. Len(b) |-> b[j]]
  BY LenProperties
<1> QED
  BY <1>1

\* The length fields of two texts the server has are equal if their lengths are.
LEMMA LenFieldInjective ==
  ASSUME NEW a \in Seq(Byte), NEW b \in Seq(Byte), Len(a) \in Lengths, Len(b) \in Lengths,
         \A j \in 1 .. BlockSize \div 2 : LenField(Bits(a))[j] = LenField(Bits(b))[j]
  PROVE  Len(a) = Len(b)
<1> DEFINE w == BlockSize \div 2
           d == LenField(Bits(a))
           m == Bits(a)
           n == Bits(b)
<1>1. w \in 0 .. BlockSize /\ w \in Nat /\ m \in Nat /\ n \in Nat
  BY Sizes, BitsType
<1>2. \A j \in 1 .. w : d[j] = (m \div Base ^ (w - j)) % Base /\ d[j] \in Byte
  BY <1>1, BigEndianType DEF LenField
<1>3. \A j \in 1 .. w : d[j] = (n \div Base ^ (w - j)) % Base
  BY <1>1, BigEndianType DEF LenField
<1>4. m = Len(a) * ByteBits /\ n = Len(b) * ByteBits
  BY BitsType
<1> HIDE DEF w, d, m, n
<1>5. PICK v : IsValue(v, d, w)
  BY <1>1, <1>2, ValueExists
<1>6. v[w] = m % Base ^ w
  BY <1>1, <1>2, <1>5, ValueOfNumber
<1>7. v[w] = n % Base ^ w
  BY <1>1, <1>3, <1>5, ValueOfNumber
<1>8. (Len(a) * ByteBits) % Base ^ w = (Len(b) * ByteBits) % Base ^ w
  BY <1>4, <1>6, <1>7
<1> QED
  BY <1>8, LengthAssumption DEF w

LEMMA LayoutInjective ==
  ASSUME NEW a \in Seq(Byte), NEW c \in Seq(Byte), NEW b \in Seq(Byte), NEW d \in Seq(Byte),
         {Len(a), Len(b), Len(c), Len(d)} \subseteq Lengths,
         SizeFits(a, c), SizeFits(b, d), Layout(a, c).buf = Layout(b, d).buf
  PROVE  a = b /\ c = d
<1>1. BufSize(a, c) = BufSize(b, d)
  <2>1. Len(Layout(a, c).buf) = BufSize(a, c)
    BY LayoutFacts
  <2>2. Len(Layout(b, d).buf) = BufSize(b, d)
    BY LayoutFacts
  <2> QED
    BY <2>1, <2>2
<1>2. \A j \in 1 .. BlockSize : LengthBlock(a, c)[j] = LengthBlock(b, d)[j]
  <2>1. \A j \in 1 .. BlockSize :
          Layout(a, c).buf[BufSize(a, c) - BlockSize + j] = LengthBlock(a, c)[j]
    BY LayoutFacts
  <2>2. \A j \in 1 .. BlockSize :
          Layout(b, d).buf[BufSize(b, d) - BlockSize + j] = LengthBlock(b, d)[j]
    BY LayoutFacts
  <2> QED
    BY <1>1, <2>1, <2>2
<1>3. ASSUME NEW j \in 1 .. BlockSize \div 2
      PROVE  /\ LenField(Bits(a))[j] = LenField(Bits(b))[j]
             /\ LenField(Bits(c))[j] = LenField(Bits(d))[j]
  <2>1. j \in 1 .. BlockSize /\ BlockSize \div 2 + j \in 1 .. BlockSize
    BY Sizes
  <2> QED
    <3>1. LengthBlock(a, c)[j] = LengthBlock(b, d)[j]
      BY <1>2, <2>1
    <3>2. LengthBlock(a, c)[BlockSize \div 2 + j] = LengthBlock(b, d)[BlockSize \div 2 + j]
      BY <1>2, <2>1
    <3>3. /\ LengthBlock(a, c)[j] = LenField(Bits(a))[j]
          /\ LengthBlock(a, c)[BlockSize \div 2 + j] = LenField(Bits(c))[j]
      BY LengthBlockType
    <3>4. /\ LengthBlock(b, d)[j] = LenField(Bits(b))[j]
          /\ LengthBlock(b, d)[BlockSize \div 2 + j] = LenField(Bits(d))[j]
      BY LengthBlockType
    <3> QED
      BY <3>1, <3>2, <3>3, <3>4
<1>4. Len(a) = Len(b) /\ Len(c) = Len(d)
  BY <1>3, LenFieldInjective
<1>5. \A j \in 1 .. Len(a) : a[j] = b[j]
  <2>1. \A j \in 1 .. Len(a) : Layout(a, c).buf[j] = a[j]
    BY LayoutFacts
  <2>2. \A j \in 1 .. Len(b) : Layout(b, d).buf[j] = b[j]
    BY LayoutFacts
  <2> QED
    BY <1>4, <2>1, <2>2
<1>6. \A j \in 1 .. Len(c) : c[j] = d[j]
  <2>1. \A j \in 1 .. Len(c) : Layout(a, c).buf[RoundUp(Len(a)) + j] = c[j]
    BY LayoutFacts
  <2>2. \A j \in 1 .. Len(d) : Layout(b, d).buf[RoundUp(Len(b)) + j] = d[j]
    BY LayoutFacts
  <2> QED
    BY <1>4, <2>1, <2>2
<1> QED
  BY <1>4, <1>5, <1>6, SameSeq

-----------------------------------------------------------------------------
(* What the code computes, as functions of the call *)

SubKey(key) == Enc(key, ZeroBlock)

\* The first counter block of a call and the k-th block of its keystream.
Start(p) == PreCounter(SubKey(p.key), p.iv)

Stream(p, k) == Enc(p.key, CounterAfter(Start(p), k))

\* The keystream byte that masks the j-th byte of the text.
MaskByte(p, j) == Stream(p, ((j - 1) \div BlockSize) + 1)[((j - 1) % BlockSize) + 1]

CodeText(p, data) == [j \in 1 .. Len(data) |-> XorByte(data[j], MaskByte(p, j))]

CodeTag(p, ct) ==
  XorBlock(Ghash(SubKey(p.key), Layout(p.aad, ct).buf, Layout(p.aad, ct).len),
           Enc(p.key, Start(p)))

LEMMA EncType ==
  ASSUME NEW k \in Key, NEW b \in Block
  PROVE  Enc(k, b) \in Block
BY CipherAssumption

\* An IV of the recommended length is the beginning of J0.
LEMMA PreCounterType ==
  ASSUME NEW h \in Block, NEW iv \in Seq(Byte)
  PROVE  /\ PreCounter(h, iv) \in Block
         /\ Len(iv) = Split => \A j \in 1 .. Split : PreCounter(h, iv)[j] = iv[j]
<1>1. CASE Len(iv) = Split
  <2>1. PICK one \in Seq(Byte) : one = BigEndian(1, CounterSize) /\ Len(one) = CounterSize
    <3>1. 1 \in Nat /\ CounterSize \in 0 .. BlockSize
      BY Sizes
    <3> QED
      BY <3>1, BigEndianType
  <2>2. iv \o one \in Seq(Byte) /\ Len(iv \o one) = Len(iv) + Len(one)
    BY ConcatProperties
  <2>3. \A j \in 1 .. Len(iv) + Len(one) :
          (iv \o one)[j] = IF j <= Len(iv) THEN iv[j] ELSE one[j - Len(iv)]
    BY ConcatProperties
  <2>4. iv \o one \in Block
    BY <1>1, <2>1, <2>2, Sizes, SeqIsBlock
  <2>5. \A j \in 1 .. Split : (iv \o one)[j] = iv[j]
    BY <1>1, <2>1, <2>3, Sizes
  <2>6. PreCounter(h, iv) = iv \o one
    BY <1>1, <2>1 DEF PreCounter
  <2> QED
    BY <2>4, <2>5, <2>6
<1>2. CASE Len(iv) # Split
  <2> DEFINE zeros == [j \in 1 .. BlockSize \div 2 |-> 0]
             field == LenField(Bits(iv))
  <2>1. Len(iv) \in Nat /\ field \in Seq(Byte) /\ Len(field) = BlockSize \div 2
    BY BitsType
  <2>2. zeros \in Seq(Byte) /\ Len(zeros) = BlockSize \div 2
    <3>1. BlockSize \div 2 \in Nat /\ 0 \in Byte
      BY Sizes
    <3>2. zeros \in [1 .. BlockSize \div 2 -> Byte]
      BY <3>1
    <3>3. zeros \in Seq(Byte)
      BY <3>1, <3>2, SeqDef
    <3>4. DOMAIN zeros = 1 .. Len(zeros) /\ Len(zeros) \in Nat
      BY <3>3, LenProperties
    <3> QED
      BY <3>1, <3>3, <3>4
  <2>3. PreCounter(h, iv) = Mul(XorBlock(Ghash(h, iv, Len(iv)), zeros \o field), h)
    BY <1>2 DEF PreCounter
  <2> HIDE DEF zeros, field
  <2>4. zeros \o field \in Seq(Byte) /\ Len(zeros \o field) = Len(zeros) + Len(field)
    BY <2>1, <2>2, ConcatProperties
  <2>5. zeros \o field \in Block
    BY <2>1, <2>2, <2>4, Sizes, SeqIsBlock
  <2>6. Ghash(h, iv, Len(iv)) \in Block
    <3>1. Rounds(Len(iv)) \in Nat
      BY <2>1, RoundUpFacts
    <3> QED
      BY <2>1, <3>1, GhashType
  <2>7. XorBlock(Ghash(h, iv, Len(iv)), zeros \o field) \in Block
    BY <2>5, <2>6, XorBlockType
  <2>8. Mul(XorBlock(Ghash(h, iv, Len(iv)), zeros \o field), h) \in Block
    BY <2>7, MulType
  <2> QED
    BY <1>2, <2>3, <2>8
<1> QED
  BY <1>1, <1>2

LEMMA StartType ==
  ASSUME NEW p, p.key \in Key, p.iv \in Seq(Byte)
  PROVE  /\ SubKey(p.key) \in Block /\ Start(p) \in Block
         /\ Len(p.iv) = Split => \A j \in 1 .. Split : Start(p)[j] = p.iv[j]
         /\ \A k \in Nat : Stream(p, k) \in Block
<1>1. SubKey(p.key) \in Block
  BY EncType, ZeroBlockType DEF SubKey
<1>2. PICK h \in Block : h = SubKey(p.key)
  BY <1>1
<1>3. PreCounter(h, p.iv) \in Block
  BY PreCounterType
<1>4. Len(p.iv) = Split => \A j \in 1 .. Split : PreCounter(h, p.iv)[j] = p.iv[j]
  BY PreCounterType
<1>5. Start(p) = PreCounter(h, p.iv)
  BY <1>2 DEF Start
<1>6. Start(p) \in Block
  BY <1>3, <1>5
<1>7. ASSUME NEW k \in Nat PROVE Stream(p, k) \in Block
  <2>1. CounterAfter(Start(p), k) \in Block
    BY <1>6, CounterAfterFacts
  <2> QED
    BY <2>1, EncType DEF Stream
<1> QED
  BY <1>1, <1>4, <1>5, <1>6, <1>7

LEMMA Places ==
  ASSUME NEW j \in Nat \ {0}
  PROVE  /\ ((j - 1) \div BlockSize) + 1 \in Nat
         /\ ((j - 1) % BlockSize) + 1 \in 1 .. BlockSize
<1>1. PICK m \in Nat : m = j - 1
  OBVIOUS
<1>2. m \div BlockSize \in Nat /\ m % BlockSize \in 0 .. BlockSize - 1
  BY Sizes, DivMod
<1>3. BlockSize \in Nat
  BY Sizes
<1> QED
  BY <1>1, <1>2, <1>3

LEMMA MaskByteType ==
  ASSUME NEW p, p.key \in Key, p.iv \in Seq(Byte), NEW j \in Nat \ {0}
  PROVE  MaskByte(p, j) \in Byte
<1>1. PICK k \in Nat, l \in 1 .. BlockSize :
        k = ((j - 1) \div BlockSize) + 1 /\ l = ((j - 1) % BlockSize) + 1
  BY Places
<1>2. MaskByte(p, j) = Stream(p, k)[l]
  BY <1>1 DEF MaskByte
<1>3. Stream(p, k) \in Block
  BY StartType
<1> QED
  BY <1>2, <1>3 DEF Block

\* Masking twice gives the text back.
LEMMA CodeTextFacts ==
  ASSUME NEW p, p.key \in Key, p.iv \in Seq(Byte), NEW data \in Seq(Byte)
  PROVE  /\ CodeText(p, data) \in Seq(Byte) /\ Len(CodeText(p, data)) = Len(data)
         /\ CodeText(p, CodeText(p, data)) = data
<1> DEFINE c == CodeText(p, data)
<1>1. Len(data) \in Nat /\ \A j \in 1 .. Len(data) : data[j] \in Byte
  BY LenProperties, ElementOfSeq
<1>2. \A j \in 1 .. Len(data) : MaskByte(p, j) \in Byte
  <2> TAKE j \in 1 .. Len(data)
  <2>1. j \in Nat \ {0}
    BY <1>1
  <2> QED
    BY <2>1, MaskByteType
<1>3. c = [j \in 1 .. Len(data) |-> XorByte(data[j], MaskByte(p, j))]
  BY DEF CodeText
<1>4. CodeText(p, c) = [j \in 1 .. Len(c) |-> XorByte(c[j], MaskByte(p, j))]
  BY DEF CodeText
<1> HIDE DEF c
<1>5. c \in [1 .. Len(data) -> Byte]
  BY <1>1, <1>2, <1>3, XorType
<1>6. c \in Seq(Byte)
  BY <1>1, <1>5, SeqDef
<1>7. Len(c) = Len(data)
  <2>1. DOMAIN c = 1 .. Len(c) /\ Len(c) \in Nat /\ DOMAIN c = 1 .. Len(data)
    BY <1>5, <1>6, LenProperties
  <2> QED
    BY <1>1, <2>1
<1>8. \A j \in 1 .. Len(data) : XorByte(c[j], MaskByte(p, j)) = data[j]
  BY <1>1, <1>2, <1>3, XorCancels
<1>9. CodeText(p, c) = [j \in 1 .. Len(data) |-> data[j]]
  BY <1>4, <1>7, <1>8
<1>10. data = [j \in 1 .. Len(data) |-> data[j]]
  BY LenProperties
<1> QED
  BY <1>6, <1>7, <1>9, <1>10 DEF c

LEMMA CodeTagType ==
  ASSUME NEW p, p.key \in Key, p.iv \in Seq(Byte), p.aad \in Seq(Byte), NEW ct \in Seq(Byte),
         SizeFits(p.aad, ct)
  PROVE  /\ Ghash(SubKey(p.key), Layout(p.aad, ct).buf, Layout(p.aad, ct).len) \in Block
         /\ CodeTag(p, ct) \in Block
<1>1. PICK buf \in Seq(Byte), len \in Nat :
        buf = Layout(p.aad, ct).buf /\ len = Layout(p.aad, ct).len
  <2>1. PICK aad \in Seq(Byte) : aad = p.aad /\ SizeFits(aad, ct)
    OBVIOUS
  <2>2. Layout(aad, ct).buf \in Seq(Byte) /\ Layout(aad, ct).len \in Nat
    <3>1. Layout(aad, ct).buf \in Seq(Byte)
      BY <2>1, LayoutFacts
    <3>2. Layout(aad, ct).len = BufSize(aad, ct) /\ BufSize(aad, ct) \in Nat
      BY <2>1, LayoutFacts
    <3> QED
      BY <3>1, <3>2
  <2> QED
    BY <2>1, <2>2
<1>2. SubKey(p.key) \in Block /\ Start(p) \in Block
  BY StartType
<1>3. Rounds(len) \in Nat
  BY RoundUpFacts
<1>4. Ghash(SubKey(p.key), buf, len) \in Block
  BY <1>2, <1>3, GhashType
<1>5. Enc(p.key, Start(p)) \in Block
  BY <1>2, EncType
<1>6. XorBlock(Ghash(SubKey(p.key), buf, len), Enc(p.key, Start(p))) \in Block
  BY <1>4, <1>5, XorBlockType
<1> QED
  BY <1>1, <1>4, <1>6 DEF CodeTag

-----------------------------------------------------------------------------
(* The definition of GCM *)

LEMMA ZerosType ==
  ASSUME NEW m \in Nat
  PROVE  [j \in 1 .. m |-> 0] \in Seq(Byte) /\ Len([j \in 1 .. m |-> 0]) = m
<1> DEFINE zeros == [j \in 1 .. m |-> 0]
<1>1. zeros \in [1 .. m -> Byte]
  BY Sizes
<1> HIDE DEF zeros
<1>2. zeros \in Seq(Byte)
  BY <1>1, SeqDef
<1>3. DOMAIN zeros = 1 .. Len(zeros) /\ Len(zeros) \in Nat /\ DOMAIN zeros = 1 .. m
  BY <1>1, <1>2, LenProperties
<1>4. Len(zeros) = m
  <2>1. PICK l \in Nat : l = Len(zeros)
    <3>1. Len(zeros) \in Nat
      BY <1>2, LenProperties
    <3> QED
      BY <3>1
  <2>2. 1 .. l = 1 .. m
    BY <1>3, <2>1
  <2> QED
    BY <2>1, <2>2
<1> QED
  BY <1>2, <1>4 DEF zeros

LEMMA PadZeroFacts ==
  ASSUME NEW data \in Seq(Byte)
  PROVE  /\ PadZero(data) \in Seq(Byte) /\ Len(PadZero(data)) = RoundUp(Len(data))
         /\ \A j \in 1 .. RoundUp(Len(data)) :
              PadZero(data)[j] = IF j <= Len(data) THEN data[j] ELSE 0
<1>1. Len(data) \in Nat /\ RoundUp(Len(data)) \in Nat /\ Len(data) <= RoundUp(Len(data))
  BY LenProperties, RoundUpFacts
<1>2. PICK m \in Nat : m = RoundUp(Len(data)) - Len(data)
  <2>1. RoundUp(Len(data)) - Len(data) \in Nat
    BY <1>1
  <2> QED
    BY <2>1
<1>3. PICK zeros \in Seq(Byte) : zeros = [j \in 1 .. m |-> 0] /\ Len(zeros) = m
  BY ZerosType
<1>4. PadZero(data) = data \o zeros
  BY <1>2, <1>3 DEF PadZero
<1>5. data \o zeros \in Seq(Byte) /\ Len(data \o zeros) = Len(data) + Len(zeros)
  BY ConcatProperties
<1>6. \A j \in 1 .. Len(data) + Len(zeros) :
        (data \o zeros)[j] = IF j <= Len(data) THEN data[j] ELSE zeros[j - Len(data)]
  BY ConcatProperties
<1>7. Len(data) + Len(zeros) = RoundUp(Len(data))
  BY <1>1, <1>2, <1>3
<1>8. ASSUME NEW j \in 1 .. RoundUp(Len(data)), ~(j <= Len(data)) PROVE zeros[j - Len(data)] = 0
  <2>1. j - Len(data) \in 1 .. m
    BY <1>1, <1>2, <1>8
  <2> QED
    BY <1>3, <2>1
<1> QED
  BY <1>4, <1>5, <1>6, <1>7, <1>8

\* The k-th block ghash reads is the k-th block of the padded data.
LEMMA ChunkOfPadded ==
  ASSUME NEW data \in Seq(Byte), NEW k \in 1 .. Rounds(Len(data)), NEW j \in 1 .. BlockSize
  PROVE  /\ (k - 1) * BlockSize + j \in 1 .. RoundUp(Len(data))
         /\ Chunk(data, (k - 1) * BlockSize)[j] = PadZero(data)[(k - 1) * BlockSize + j]
<1>1. /\ Len(data) \in Nat /\ BlockSize \in Nat \ {0}
      /\ Rounds(Len(data)) \in Nat /\ RoundUp(Len(data)) = BlockSize * Rounds(Len(data))
  BY Sizes, LenProperties, RoundUpFacts
<1>2. PICK n \in Nat : n = Rounds(Len(data))
  BY <1>1
<1>3. PICK from \in Nat : from = (k - 1) * BlockSize
  <2>1. (k - 1) * BlockSize \in Nat
    BY <1>1, <1>2
  <2> QED
    BY <2>1
<1>4. PICK rest \in Nat : rest = (n - k) * BlockSize
  <2>1. n - k \in Nat
    BY <1>2
  <2>2. (n - k) * BlockSize \in Nat
    BY <1>1, <2>1
  <2> QED
    BY <2>2
<1>5. RoundUp(Len(data)) = from + BlockSize + rest
  <2>1. k \in Nat
    BY <1>2
  <2>2. BlockSize * n = (k - 1) * BlockSize + BlockSize + (n - k) * BlockSize
    BY <1>1, <2>1
  <2> QED
    BY <1>1, <1>2, <1>3, <1>4, <2>2
<1>6. from + j \in 1 .. RoundUp(Len(data))
  BY <1>1, <1>5
<1>7. Chunk(data, from)[j] = IF from + j <= Len(data) THEN data[from + j] ELSE 0
  BY DEF Chunk
<1>8. PadZero(data)[from + j] = IF from + j <= Len(data) THEN data[from + j] ELSE 0
  BY <1>6, PadZeroFacts
<1> QED
  BY <1>3, <1>6, <1>7, <1>8

LEMMA ChunksType ==
  ASSUME NEW data \in Seq(Byte), NEW n \in Nat
  PROVE  Chunks(data, n) \in [1 .. n -> Block]
<1>1. ASSUME NEW k \in 1 .. n PROVE Chunk(data, (k - 1) * BlockSize) \in Block
  <2>1. k - 1 \in Nat
    OBVIOUS
  <2>2. (k - 1) * BlockSize \in Nat
    BY <2>1, Sizes
  <2> QED
    BY <2>2, ChunkType
<1> QED
  BY <1>1 DEF Chunks

\* ghash is the hash of the definition, of the padded data.
LEMMA GhashIsHash ==
  ASSUME NEW h \in Block, NEW data \in Seq(Byte)
  PROVE  Exponents(Ghash(h, data, Len(data))) = Hash(Exponents(h), PadZero(data))
<1>1. PICK n \in Nat : n = Rounds(Len(data)) /\ RoundUp(Len(data)) = BlockSize * n
  BY LenProperties, RoundUpFacts
<1>2. Len(data) \in Nat
  BY LenProperties
<1>3. PICK g \in [0 .. n -> Block] :
        GhashRounds(g, h, Chunks(data, n), n) /\ Ghash(h, data, Len(data)) = g[n]
  BY <1>1, <1>2, GhashLoop
<1>4. PICK c \in [1 .. n -> Block] : c = Chunks(data, n)
  BY ChunksType
<1>5. PICK full \in Seq(Byte) : full = PadZero(data) /\ Len(full) = BlockSize * n
  BY <1>1, PadZeroFacts
<1>6. ASSUME NEW k \in 1 .. n, NEW j \in 1 .. BlockSize
      PROVE  full[(k - 1) * BlockSize + j] = c[k][j]
  <2>1. c[k] = Chunk(data, (k - 1) * BlockSize)
    BY <1>4 DEF Chunks
  <2>2. k \in 1 .. Rounds(Len(data))
    BY <1>1
  <2> QED
    BY <1>5, <2>1, <2>2, ChunkOfPadded
<1>7. GhashRounds(g, h, c, n)
  BY <1>3, <1>4
<1>8. Hash(Exponents(h), full) = Exponents(g[n])
  <2>1. Joined(full, c, n)
    BY <1>5, <1>6 DEF Joined
  <2>2. Hashing(h, n, c, g, full)
    BY <1>7, <2>1 DEF Hashing
  <2> QED
    BY <2>2, HashOfBlocks
<1> QED
  BY <1>3, <1>5, <1>8

\* One more round takes a whole block after the padded data.
LEMMA GhashAndBlock ==
  ASSUME NEW h \in Block, NEW data \in Seq(Byte), NEW b \in Block
  PROVE  Exponents(Mul(XorBlock(Ghash(h, data, Len(data)), b), h))
           = Hash(Exponents(h), PadZero(data) \o b)
<1>1. PICK n \in Nat : n = Rounds(Len(data)) /\ RoundUp(Len(data)) = BlockSize * n
  BY LenProperties, RoundUpFacts
<1>2. Len(data) \in Nat /\ BlockSize \in Nat \ {0}
  BY LenProperties, Sizes
<1>3. PICK g \in [0 .. n -> Block] :
        GhashRounds(g, h, Chunks(data, n), n) /\ Ghash(h, data, Len(data)) = g[n]
  BY <1>1, <1>2, GhashLoop
<1>4. PICK c \in [1 .. n -> Block] : c = Chunks(data, n)
  BY ChunksType
<1>5. PICK pad \in Seq(Byte) : pad = PadZero(data) /\ Len(pad) = BlockSize * n
  BY <1>1, PadZeroFacts
<1>6. PICK m \in Nat : m = n + 1
  OBVIOUS
<1>7. PICK last \in Block : last = Mul(XorBlock(g[n], b), h)
  <2>1. PICK x \in Block : x = XorBlock(g[n], b)
    BY XorBlockType
  <2>2. Mul(x, h) \in Block
    BY MulType
  <2> QED
    BY <2>1, <2>2
<1> DEFINE c1 == [k \in 1 .. m |-> IF k = m THEN b ELSE c[k]]
           g1 == [k \in 0 .. m |-> IF k = m THEN last ELSE g[k]]
           full == pad \o b
<1>8. c1 \in [1 .. m -> Block] /\ g1 \in [0 .. m -> Block]
  BY <1>6
<1>9. GhashRounds(g1, h, c1, m)
  <2>1. g1[0] = ZeroBlock
    BY <1>3, <1>6 DEF GhashRounds
  <2>2. ASSUME NEW k \in 1 .. m PROVE g1[k] = Mul(XorBlock(g1[k - 1], c1[k]), h)
    <3>1. CASE k = m
      <4>1. k - 1 = n /\ n \in 0 .. m /\ n # m /\ m \in 0 .. m
        BY <1>6, <3>1
      <4>2. g1[k] = last /\ g1[k - 1] = g[n] /\ c1[k] = b
        BY <3>1, <4>1
      <4> QED
        BY <1>7, <4>2
    <3>2. CASE k # m
      <4>1. k \in 1 .. n /\ k - 1 \in 0 .. m /\ k - 1 # m /\ k \in 0 .. m
        BY <1>6, <3>2
      <4>2. g1[k] = g[k] /\ g1[k - 1] = g[k - 1] /\ c1[k] = c[k]
        BY <3>2, <4>1
      <4>3. g[k] = Mul(XorBlock(g[k - 1], c[k]), h)
        BY <1>3, <1>4, <4>1 DEF GhashRounds
      <4> QED
        BY <4>2, <4>3
    <3> QED
      BY <3>1, <3>2
  <2> HIDE DEF g1, c1
  <2> QED
    BY <2>1, <2>2 DEF GhashRounds
<1>10. b \in Seq(Byte) /\ Len(b) = BlockSize
  BY BlockIsSeq
<1>11. full \in Seq(Byte) /\ Len(full) = Len(pad) + Len(b)
  BY <1>10, ConcatProperties
<1>12. \A j \in 1 .. Len(pad) + Len(b) : full[j] = IF j <= Len(pad) THEN pad[j] ELSE b[j - Len(pad)]
  BY <1>10, ConcatProperties
<1>13. Len(full) = BlockSize * m
  <2>1. BlockSize * (n + 1) = BlockSize * n + BlockSize
    BY <1>2
  <2> QED
    BY <1>5, <1>6, <1>10, <1>11, <2>1
<1> HIDE DEF full
<1>14. ASSUME NEW k \in 1 .. m, NEW j \in 1 .. BlockSize
       PROVE  full[(k - 1) * BlockSize + j] = c1[k][j]
  <2>1. CASE k = m
    <3>1. k - 1 = n
      BY <1>6, <2>1
    <3>2. (k - 1) * BlockSize = BlockSize * n
      BY <1>2, <3>1
    <3>3. (k - 1) * BlockSize = Len(pad) /\ Len(pad) \in Nat
      BY <1>5, <3>2, LenProperties
    <3>4. PICK p \in Nat : p = Len(pad)
      BY <3>3
    <3>5. full[p + j] = b[j]
      <4>1. p + j \in 1 .. Len(pad) + Len(b) /\ ~(p + j <= Len(pad)) /\ (p + j) - Len(pad) = j
        BY <1>2, <1>10, <3>4
      <4> QED
        BY <1>12, <4>1
    <3>6. c1[k] = b
      BY <2>1
    <3> QED
      BY <3>3, <3>4, <3>5, <3>6
  <2>2. CASE k # m
    <3>1. k \in 1 .. n /\ k \in 1 .. Rounds(Len(data))
      BY <1>1, <1>6, <2>2
    <3>2. PICK at \in 1 .. RoundUp(Len(data)) :
            /\ at = (k - 1) * BlockSize + j
            /\ Chunk(data, (k - 1) * BlockSize)[j] = PadZero(data)[at]
      BY <3>1, ChunkOfPadded
    <3>3. c1[k] = Chunk(data, (k - 1) * BlockSize)
      BY <1>4, <2>2, <3>1 DEF Chunks
    <3>4. Len(pad) = RoundUp(Len(data)) /\ Len(pad) \in Nat
      BY <1>1, <1>5, LenProperties
    <3>5. at \in 1 .. Len(pad) + Len(b) /\ at <= Len(pad)
      BY <1>2, <1>10, <3>4
    <3>6. full[at] = pad[at]
      BY <1>12, <3>5
    <3> QED
      BY <1>5, <3>2, <3>3, <3>6
  <2> QED
    BY <2>1, <2>2
<1>15. g1[m] = last
  BY <1>6
<1> HIDE DEF c1, g1
<1>16. Joined(full, c1, m)
  BY <1>13, <1>14 DEF Joined
<1>17. Hashing(h, m, c1, g1, full)
  BY <1>8, <1>9, <1>11, <1>16 DEF Hashing
<1>18. Hash(Exponents(h), full) = Exponents(g1[m])
  BY <1>17, HashOfBlocks
<1> QED
  BY <1>3, <1>5, <1>7, <1>15, <1>18 DEF full

\* J0 is that of the definition, for IVs of both lengths.
LEMMA FirstCounterIs ==
  ASSUME NEW key \in Key, NEW iv \in Seq(Byte)
  PROVE  PreCounter(SubKey(key), iv) = FirstCounter(key, iv)
<1>1. CASE Len(iv) = Split
  BY <1>1 DEF PreCounter, FirstCounter
<1>2. CASE Len(iv) # Split
  <2>1. PICK h \in Block : h = SubKey(key) /\ h = Enc(key, ZeroBlock)
    <3>1. SubKey(key) \in Block
      BY EncType, ZeroBlockType DEF SubKey
    <3> QED
      BY <3>1 DEF SubKey
  <2>2. PICK zeros \in Seq(Byte) :
          zeros = [j \in 1 .. BlockSize \div 2 |-> 0] /\ Len(zeros) = BlockSize \div 2
    <3>1. BlockSize \div 2 \in Nat
      BY Sizes
    <3> QED
      BY <3>1, ZerosType
  <2>3. PICK field \in Seq(Byte) : field = LenField(Bits(iv)) /\ Len(field) = BlockSize \div 2
    BY BitsType
  <2>4. PICK pad \in Seq(Byte) : pad = PadZero(iv)
    BY PadZeroFacts
  <2>5. zeros \o field \in Seq(Byte) /\ Len(zeros \o field) = Len(zeros) + Len(field)
    BY ConcatProperties
  <2>6. PICK b \in Block : b = zeros \o field
    <3>1. Len(zeros \o field) = BlockSize
      BY <2>2, <2>3, <2>5, Sizes
    <3> QED
      BY <2>5, <3>1, SeqIsBlock
  <2>7. PreCounter(h, iv) = Mul(XorBlock(Ghash(h, iv, Len(iv)), b), h)
    BY <1>2, <2>2, <2>3, <2>6 DEF PreCounter
  <2>8. PreCounter(h, iv) \in Block
    BY PreCounterType
  <2>9. Exponents(PreCounter(h, iv)) = Hash(Exponents(h), pad \o b)
    BY <2>4, <2>7, GhashAndBlock
  <2>10. (pad \o zeros) \o field = pad \o (zeros \o field)
    BY ConcatAssociative
  <2>11. FirstCounter(key, iv) = ToBlock(Hash(Exponents(h), (pad \o zeros) \o field))
    BY <1>2, <2>1, <2>2, <2>3, <2>4 DEF FirstCounter
  <2>12. ToBlock(Exponents(PreCounter(h, iv))) = PreCounter(h, iv)
    BY <2>8, ToBlockOf
  <2> QED
    BY <2>1, <2>6, <2>9, <2>10, <2>11, <2>12
<1> QED
  BY <1>1, <1>2

LEMMA ThreeParts ==
  ASSUME NEW a \in Seq(Byte), NEW b \in Seq(Byte), NEW c \in Seq(Byte)
  PROVE  (a \o b) \o c = a \o (b \o c)
BY ConcatAssociative

\* Concatenation, as the provers can use it where many texts are about.
Joint(a, b) == a \o b

LEMMA FourParts ==
  ASSUME NEW a, NEW c, NEW u, NEW v,
         a \in Seq(Byte), c \in Seq(Byte), u \in Seq(Byte), v \in Seq(Byte)
  PROVE  Joint(Joint(Joint(a, c), u), v) = Joint(Joint(a, c), Joint(u, v))
<1>1. PICK w \in Seq(Byte) : w = a \o c
  BY ConcatProperties
<1>2. (w \o u) \o v = w \o (u \o v)
  BY ThreeParts
<1> QED
  BY <1>1, <1>2 DEF Joint

\* ghash_input is the padded AAD, the padded ciphertext and the length block.
LEMMA LayoutIs ==
  ASSUME NEW aad \in Seq(Byte), NEW ct \in Seq(Byte), SizeFits(aad, ct)
  PROVE  Layout(aad, ct).buf = (PadZero(aad) \o PadZero(ct)) \o LengthBlock(aad, ct)
<1>1. PICK a \in Seq(Byte) : a = PadZero(aad) /\ Len(a) = RoundUp(Len(aad))
  BY PadZeroFacts
<1>2. PICK c \in Seq(Byte) : c = PadZero(ct) /\ Len(c) = RoundUp(Len(ct))
  BY PadZeroFacts
<1>3. PICK l \in Seq(Byte) : l = LengthBlock(aad, ct) /\ Len(l) = BlockSize
  BY LengthBlockType
<1>4. PICK buf \in Seq(Byte) : buf = Layout(aad, ct).buf
  BY LayoutFacts
<1>5. PICK n \in Nat : n = BufSize(aad, ct) /\ Len(buf) = n /\ n = Len(a) + Len(c) + BlockSize
  <2>1. BufSize(aad, ct) \in Nat
    BY LayoutFacts
  <2>2. BufSize(aad, ct) = RoundUp(Len(aad)) + RoundUp(Len(ct)) + BlockSize
    BY LayoutFacts
  <2>3. Len(Layout(aad, ct).buf) = BufSize(aad, ct)
    BY LayoutFacts
  <2> QED
    BY <1>1, <1>2, <1>4, <2>1, <2>2, <2>3
<1>6. \A j \in 1 .. Len(aad) : buf[j] = aad[j]
  <2>1. \A j \in 1 .. Len(aad) : Layout(aad, ct).buf[j] = aad[j]
    BY LayoutFacts
  <2> QED
    BY <1>4, <2>1
<1>7. \A k \in 1 .. Len(ct) : buf[Len(a) + k] = ct[k]
  <2>1. \A j \in 1 .. Len(ct) : Layout(aad, ct).buf[RoundUp(Len(aad)) + j] = ct[j]
    BY LayoutFacts
  <2> QED
    BY <1>1, <1>4, <2>1
<1>8. \A k \in 1 .. BlockSize : buf[n - BlockSize + k] = l[k]
  <2>1. \A j \in 1 .. BlockSize :
          Layout(aad, ct).buf[BufSize(aad, ct) - BlockSize + j] = LengthBlock(aad, ct)[j]
    BY LayoutFacts
  <2> QED
    BY <1>3, <1>4, <1>5, <2>1
<1>9. \A j \in 1 .. n :
        (Len(aad) < j /\ j <= Len(a)) \/ (Len(a) + Len(ct) < j /\ j <= n - BlockSize)
          => buf[j] = 0
  <2>1. \A j \in 1 .. BufSize(aad, ct) :
          (Len(aad) < j /\ j <= RoundUp(Len(aad)))
            \/ (RoundUp(Len(aad)) + Len(ct) < j /\ j <= BufSize(aad, ct) - BlockSize)
          => Layout(aad, ct).buf[j] = 0
    BY LayoutFacts
  <2> QED
    BY <1>1, <1>4, <1>5, <2>1
<1>10. a \o c \in Seq(Byte) /\ Len(a \o c) = Len(a) + Len(c)
  BY ConcatProperties
<1>11. \A j \in 1 .. Len(a) + Len(c) : (a \o c)[j] = IF j <= Len(a) THEN a[j] ELSE c[j - Len(a)]
  BY ConcatProperties
<1>12. PICK w \in Seq(Byte) : w = a \o c
  BY <1>10
<1>13. w \o l \in Seq(Byte) /\ Len(w \o l) = Len(w) + Len(l)
  BY ConcatProperties
<1>14. \A j \in 1 .. Len(w) + Len(l) : (w \o l)[j] = IF j <= Len(w) THEN w[j] ELSE l[j - Len(w)]
  BY ConcatProperties
<1>15. /\ Len(a) \in Nat /\ Len(c) \in Nat /\ Len(w) = Len(a) + Len(c) /\ Len(l) = BlockSize
       /\ BlockSize \in Nat \ {0} /\ Len(aad) \in Nat /\ Len(ct) \in Nat
       /\ Len(aad) <= Len(a) /\ Len(ct) <= Len(c) /\ n = Len(a) + Len(c) + BlockSize
  <2>1. Len(aad) <= RoundUp(Len(aad)) /\ Len(ct) <= RoundUp(Len(ct))
    BY LenProperties, RoundUpFacts
  <2> QED
    BY <1>1, <1>2, <1>3, <1>5, <1>10, <1>12, <2>1, Sizes, LenProperties
<1>16. ASSUME NEW j \in 1 .. n PROVE buf[j] = (w \o l)[j]
  <2>1. CASE j <= Len(aad)
    <3>1. j \in 1 .. Len(aad) /\ j \in 1 .. RoundUp(Len(aad))
      BY <1>1, <1>15, <2>1
    <3>2. buf[j] = aad[j]
      BY <1>6, <3>1
    <3>3. a[j] = aad[j]
      BY <1>1, <2>1, <3>1, PadZeroFacts
    <3>4. (w \o l)[j] = a[j]
      BY <1>11, <1>12, <1>14, <1>15, <2>1
    <3> QED
      BY <3>2, <3>3, <3>4
  <2>2. CASE Len(aad) < j /\ j <= Len(a)
    <3>1. j \in 1 .. RoundUp(Len(aad)) /\ ~(j <= Len(aad))
      BY <1>1, <1>15, <2>2
    <3>2. buf[j] = 0
      BY <1>9, <2>2
    <3>3. a[j] = 0
      BY <1>1, <3>1, PadZeroFacts
    <3>4. (w \o l)[j] = a[j]
      BY <1>11, <1>12, <1>14, <1>15, <2>2
    <3> QED
      BY <3>2, <3>3, <3>4
  <2>3. CASE Len(a) < j /\ j <= Len(a) + Len(ct)
    <3>1. PICK k \in 1 .. Len(ct) : j = Len(a) + k
      <4>1. j - Len(a) \in 1 .. Len(ct) /\ j = Len(a) + (j - Len(a))
        BY <1>15, <2>3
      <4> QED
        BY <4>1
    <3>2. buf[j] = ct[k]
      BY <1>7, <3>1
    <3>3. k \in 1 .. RoundUp(Len(ct)) /\ k <= Len(ct) /\ j - Len(a) = k
      BY <1>2, <1>15, <3>1
    <3>4. c[k] = ct[k]
      BY <1>2, <3>3, PadZeroFacts
    <3>5. (w \o l)[j] = c[k]
      BY <1>11, <1>12, <1>14, <1>15, <2>3, <3>3
    <3> QED
      BY <3>2, <3>4, <3>5
  <2>4. CASE Len(a) + Len(ct) < j /\ j <= Len(a) + Len(c)
    <3>1. PICK k \in 1 .. RoundUp(Len(ct)) : k = j - Len(a) /\ ~(k <= Len(ct))
      <4>1. j - Len(a) \in 1 .. RoundUp(Len(ct)) /\ ~(j - Len(a) <= Len(ct))
        BY <1>2, <1>15, <2>4
      <4> QED
        BY <4>1
    <3>2. buf[j] = 0
      <4>1. Len(a) + Len(ct) < j /\ j <= n - BlockSize
        BY <1>15, <2>4
      <4> QED
        BY <1>9, <4>1
    <3>3. c[k] = 0
      BY <1>2, <3>1, PadZeroFacts
    <3>4. (w \o l)[j] = c[k]
      BY <1>11, <1>12, <1>14, <1>15, <2>4, <3>1
    <3> QED
      BY <3>2, <3>3, <3>4
  <2>5. CASE Len(a) + Len(c) < j
    <3>1. PICK k \in 1 .. BlockSize : k = j - Len(w) /\ j = n - BlockSize + k
      <4>1. j - Len(w) \in 1 .. BlockSize /\ j = n - BlockSize + (j - Len(w))
        BY <1>15, <2>5
      <4> QED
        BY <4>1
    <3>2. buf[j] = l[k]
      BY <1>8, <3>1
    <3>3. j \in 1 .. Len(w) + Len(l) /\ ~(j <= Len(w))
      BY <1>15, <2>5
    <3>4. (w \o l)[j] = l[k]
      BY <1>14, <3>1, <3>3
    <3> QED
      BY <3>2, <3>4
  <2> QED
    BY <1>15, <2>1, <2>2, <2>3, <2>4, <2>5
<1>17. PICK v \in Seq(Byte) : v = w \o l /\ Len(v) = n
  BY <1>5, <1>13, <1>15
<1>18. buf = v
  BY <1>5, <1>16, <1>17, SameSeq
<1> QED
  BY <1>1, <1>2, <1>3, <1>4, <1>12, <1>17, <1>18

LEMMA LayoutParts ==
  ASSUME NEW aad \in Seq(Byte), NEW ct \in Seq(Byte), SizeFits(aad, ct)
  PROVE  Layout(aad, ct).buf
           = ((PadZero(aad) \o PadZero(ct)) \o LenField(Bits(aad))) \o LenField(Bits(ct))
<1> DEFINE a == PadZero(aad)
           c == PadZero(ct)
           u == LenField(Bits(aad))
           v == LenField(Bits(ct))
<1>1. a \in Seq(Byte) /\ c \in Seq(Byte) /\ u \in Seq(Byte) /\ v \in Seq(Byte)
  BY PadZeroFacts, BitsType
<1>2. Layout(aad, ct).buf = (a \o c) \o (u \o v)
  BY LayoutIs DEF LengthBlock
<1> HIDE DEF a, c, u, v
<1>3. Joint(Joint(Joint(a, c), u), v) = Joint(Joint(a, c), Joint(u, v))
  BY <1>1, FourParts
<1>4. ((a \o c) \o u) \o v = (a \o c) \o (u \o v)
  BY <1>3 DEF Joint
<1> QED
  BY <1>2, <1>4 DEF a, c, u, v

LEMMA RoundUpWhole ==
  ASSUME NEW a \in Nat, NEW c \in Nat
  PROVE  RoundUp(RoundUp(a) + RoundUp(c) + BlockSize) = RoundUp(a) + RoundUp(c) + BlockSize
<1>1. BlockSize \in Nat \ {0} /\ RoundUp(a) \in Nat /\ RoundUp(c) \in Nat
  BY Sizes, RoundUpFacts
<1>2. PICK p \in Nat, q \in Nat : p = Rounds(a) /\ q = Rounds(c)
  BY RoundUpFacts
<1>3. RoundUp(a) = BlockSize * p /\ RoundUp(c) = BlockSize * q
  BY <1>2, RoundUpFacts
<1>4. PICK s \in Nat : s = p + q + 1
  OBVIOUS
<1>5. PICK n \in Nat : n = RoundUp(a) + RoundUp(c) + BlockSize
  BY <1>1
<1>6. BlockSize * s = n
  <2>1. BlockSize * (p + q + 1) = BlockSize * p + BlockSize * q + BlockSize
    BY <1>1
  <2> QED
    BY <1>3, <1>4, <1>5, <2>1
<1>7. PICK m \in Nat : m = n + BlockSize - 1 /\ m = BlockSize * s + (BlockSize - 1)
  BY <1>1, <1>6
<1>8. m \div BlockSize = s
  <2>1. BlockSize - 1 \in 0 .. BlockSize - 1
    BY <1>1
  <2> QED
    BY <1>1, <1>7, <2>1, Quotient
<1>9. RoundUp(n) = s * BlockSize
  BY <1>7, <1>8 DEF RoundUp
<1>10. s * BlockSize = BlockSize * s
  BY <1>1
<1> QED
  BY <1>5, <1>6, <1>9, <1>10

\* Whole blocks need no padding.
LEMMA PadZeroWhole ==
  ASSUME NEW data \in Seq(Byte), RoundUp(Len(data)) = Len(data)
  PROVE  PadZero(data) = data
<1>1. PICK d \in Seq(Byte) : d = PadZero(data) /\ Len(d) = Len(data)
  BY PadZeroFacts
<1>2. ASSUME NEW j \in 1 .. Len(data) PROVE d[j] = data[j]
  <2>1. j \in 1 .. RoundUp(Len(data)) /\ j <= Len(data)
    BY LenProperties
  <2> QED
    BY <1>1, <2>1, PadZeroFacts
<1> QED
  BY <1>1, <1>2, SameSeq

LEMMA XorBlockCommutes ==
  ASSUME NEW a \in Block, NEW b \in Block
  PROVE  XorBlock(a, b) = XorBlock(b, a)
<1>1. PICK c \in Block, d \in Block : c = XorBlock(a, b) /\ d = XorBlock(b, a)
  BY XorBlockType
<1>2. Exponents(c) = SymDiff(Exponents(a), Exponents(b)) /\ Exponents(d) = SymDiff(Exponents(b), Exponents(a))
  BY <1>1, XorExponents
<1>3. SymDiff(Exponents(a), Exponents(b)) = SymDiff(Exponents(b), Exponents(a))
  BY DEF SymDiff
<1> QED
  BY <1>1, <1>2, <1>3, SamePolynomial

\* The tag is that of the definition.
LEMMA TagForIs ==
  ASSUME NEW p, p.key \in Key, p.iv \in Seq(Byte), p.aad \in Seq(Byte), NEW ct \in Seq(Byte),
         SizeFits(p.aad, ct)
  PROVE  CodeTag(p, ct) = TagFor(p, ct)
<1>1. PICK key \in Key, iv \in Seq(Byte), aad \in Seq(Byte) :
        key = p.key /\ iv = p.iv /\ aad = p.aad /\ SizeFits(aad, ct)
  OBVIOUS
<1>2. PICK h \in Block : h = SubKey(key) /\ h = Enc(key, ZeroBlock)
  <2>1. SubKey(key) \in Block
    BY EncType, ZeroBlockType DEF SubKey
  <2> QED
    BY <2>1 DEF SubKey
<1>3. PICK buf \in Seq(Byte) : buf = Layout(aad, ct).buf /\ Len(buf) = Layout(aad, ct).len
  <2>1. Layout(aad, ct).buf \in Seq(Byte)
    BY <1>1, LayoutFacts
  <2>2. Len(Layout(aad, ct).buf) = Layout(aad, ct).len
    <3>1. Len(Layout(aad, ct).buf) = BufSize(aad, ct)
      BY <1>1, LayoutFacts
    <3>2. Layout(aad, ct).len = BufSize(aad, ct)
      BY <1>1, LayoutFacts
    <3> QED
      BY <3>1, <3>2
  <2> QED
    BY <2>1, <2>2
<1>4. RoundUp(Len(buf)) = Len(buf)
  <2>1. Len(buf) = RoundUp(Len(aad)) + RoundUp(Len(ct)) + BlockSize
    BY <1>1, <1>3, LayoutFacts
  <2>2. Len(aad) \in Nat /\ Len(ct) \in Nat
    BY LenProperties
  <2> QED
    BY <2>1, <2>2, RoundUpWhole
<1>5. PICK s \in Block : s = Ghash(h, buf, Len(buf))
  <2>1. Len(buf) \in Nat
    BY LenProperties
  <2>2. Rounds(Len(buf)) \in Nat
    BY <2>1, RoundUpFacts
  <2>3. Ghash(h, buf, Len(buf)) \in Block
    BY <2>1, <2>2, GhashType
  <2> QED
    BY <2>3
<1>6. Exponents(s) = Hash(Exponents(h), buf)
  <2>1. PadZero(buf) = buf
    BY <1>4, PadZeroWhole
  <2>2. Exponents(Ghash(h, buf, Len(buf))) = Hash(Exponents(h), PadZero(buf))
    BY GhashIsHash
  <2> QED
    BY <1>5, <2>1, <2>2
<1>7. buf = ((PadZero(aad) \o PadZero(ct)) \o LenField(Bits(aad))) \o LenField(Bits(ct))
  <2>1. Layout(aad, ct).buf
          = ((PadZero(aad) \o PadZero(ct)) \o LenField(Bits(aad))) \o LenField(Bits(ct))
    BY <1>1, LayoutParts
  <2> QED
    BY <1>3, <2>1
<1>8. ToBlock(Exponents(s)) = s
  BY ToBlockOf
<1>9. PICK first \in Block : first = PreCounter(h, iv) /\ first = FirstCounter(key, iv)
  <2>1. PreCounter(h, iv) \in Block
    BY PreCounterType
  <2>2. PreCounter(h, iv) = FirstCounter(key, iv)
    BY <1>2, FirstCounterIs
  <2> QED
    BY <2>1, <2>2
<1>10. PICK e \in Block : e = Enc(key, first)
  BY EncType
<1>11. CodeTag(p, ct) = XorBlock(s, e)
  BY <1>1, <1>2, <1>3, <1>5, <1>9, <1>10 DEF CodeTag, Start
<1>12. TagFor(p, ct) = XorBlock(e, ToBlock(Hash(Exponents(h), buf)))
  BY <1>1, <1>2, <1>7, <1>9, <1>10 DEF TagFor
<1>13. XorBlock(s, e) = XorBlock(e, s)
  BY XorBlockCommutes
<1> QED
  BY <1>6, <1>8, <1>11, <1>12, <1>13

\* The text is that of the definition.
LEMMA TextOfIs ==
  ASSUME NEW p, p.key \in Key, p.iv \in Seq(Byte), NEW data
  PROVE  CodeText(p, data) = TextOf(p, data)
<1>1. Start(p) = FirstCounter(p.key, p.iv)
  BY FirstCounterIs DEF Start
<1> QED
  BY <1>1 DEF CodeText, TextOf, MaskByte, Stream

-----------------------------------------------------------------------------
(* The inductive invariant *)

Locals == [ctx : Memory(Key), h : Memory(Block), j0 : Memory(Block), icb : Memory(Block),
           s : Memory(Block), computed : Memory(Block), counter : Memory(Block),
           encrypted : Memory(Block)]

StateInv ==
  /\ pc \in {"idle", "malloc", "ctr", "auth", "check"}
  /\ i \in 0 .. Len(out) + BlockSize
  /\ local \in Locals
  /\ out \in Seq(Byte \cup {Junk})
  /\ tag \in Block \cup {Junk}
  /\ ret \in {0, -1}
  /\ calls \in Nat

\* The call in progress, and that the output has the length of its input.
CallInv ==
  pc # "idle" =>
    /\ call.fn \in {"encrypt", "decrypt"}
    /\ call.key \in Key /\ call.iv \in Seq(Byte)
    /\ call.aad \in Texts /\ call.data \in Texts
    /\ call.fn = "decrypt" => call.given \in Block
    /\ Len(out) = Len(call.data)

Unwritten == tag = Junk /\ \A j \in 1 .. Len(out) : out[j] = Junk

Allocated ==
  ghashIn = [buf |-> [j \in 1 .. BufSize(call.aad, call.data) |-> Junk], len |-> 0]

MallocInv == pc = "malloc" => local = Uninitialised /\ ghashIn = Junk /\ Unwritten

\* The context, the subkey and J0 while they are needed.
KeyInv ==
  pc \in {"ctr", "auth", "check"} =>
    /\ local.ctx = call.key /\ local.h = SubKey(call.key) /\ local.j0 = Start(call)
    /\ Encrypting => local.computed = Junk

AuthInv == pc = "auth" => ~Encrypting /\ Unwritten /\ Allocated

\* After b iterations of gctr over the data.
Progress(b) ==
  /\ i = b * BlockSize
  /\ call.data # <<>> => local.counter = CounterAfter(Start(call), b + 1)
  /\ \A j \in 1 .. Len(out) : out[j] = IF j <= i THEN CodeText(Param, call.data)[j] ELSE Junk
  /\ \A s \in streams : s.n = calls => \A a \in DOMAIN s.used : \E k \in 0 .. b :
       s.used[a] = CounterAfter(Start(call), k) /\ (Encrypting => k # 0)

CtrInv ==
  pc = "ctr" =>
    /\ \E b \in 0 .. Rounds(Len(call.data)) : Progress(b)
    /\ tag = Junk
    /\ IF Encrypting THEN Allocated
       ELSE /\ ghashIn = Layout(call.aad, call.data)
            /\ call.given = CodeTag(Param, call.data)

CheckInv ==
  pc = "check" =>
    IF Encrypting
    THEN /\ out = CodeText(Param, call.data) /\ tag = CodeTag(Param, out)
         /\ ghashIn = Layout(call.aad, out)
    ELSE /\ Unwritten
         /\ local.computed = CodeTag(Param, call.data)
         /\ ghashIn = Layout(call.aad, call.data)
         /\ \A s \in streams : s.n = calls =>
              \A a \in DOMAIN s.used : s.used[a] = Start(call)

\* The blocks a call has enciphered are different counter blocks of its IV.
GoodStream(s) ==
  /\ s \in [n : Nat, key : Key, iv : Seq(Byte), used : Seq(Block)]
  /\ s.n <= calls
  /\ \A a, b \in DOMAIN s.used : a # b => s.used[a] # s.used[b]
  /\ \A a \in DOMAIN s.used : \A j \in 1 .. Split : s.used[a][j] = Start(s)[j]

StreamInv ==
  \A s \in streams :
    /\ GoodStream(s)
    /\ pc = "malloc" => s.n # calls
    /\ pc \in {"ctr", "auth", "check"} /\ s.n = calls => s.key = call.key /\ s.iv = call.iv
    /\ pc = "auth" /\ s.n = calls => s.used = <<>>

GoodParam(p) == p \in [key : Key, iv : Seq(Byte), aad : Seq(Byte)] /\ p.aad \in Texts

GoodSealing(e) ==
  /\ GoodParam(e.param)
  /\ e.pt \in Texts /\ e.ct \in Sealed /\ e.ct.ct \in Texts
  /\ e.ct.ct = CodeText(e.param, e.pt)
  /\ e.ct.tag = CodeTag(e.param, e.ct.ct)
  /\ e.authed = Layout(e.param.aad, e.ct.ct).buf

GoodRefusal(r) ==
  /\ GoodParam(r.param)
  /\ r \in [param : [key : Key, iv : Seq(Byte), aad : Seq(Byte)], ct : Sealed]
  /\ r.ct.tag # CodeTag(r.param, r.ct.ct)

HistoryInv ==
  /\ \A e \in sealings : GoodSealing(e)
  /\ \A r \in rejected : GoodRefusal(r)

\* A decryption that has written anything was given the tag the code computes.
TextOnlyAfterTag ==
  call.fn = "decrypt" /\ (\E j \in DOMAIN out : out[j] # Junk)
  => call.given = CodeTag(Param, call.data)

\* A call that fails leaves the output and the tag as they were.
FailureWritesNothing == pc = "idle" /\ ret = -1 => Unwritten

IInv ==
  /\ StateInv /\ CallInv /\ MallocInv /\ KeyInv /\ AuthInv /\ CtrInv /\ CheckInv
  /\ StreamInv /\ HistoryInv /\ CleanExit /\ TextOnlyAfterTag /\ FailureWritesNothing

\* What a step may add to the history a caller sees.
BoxStep ==
  \/ UNCHANGED <<sealings, rejected>>
  \/ \E e : GoodSealing(e) /\ sealings' = sealings \cup {e} /\ rejected' = rejected
  \/ \E r : GoodRefusal(r) /\ rejected' = rejected \cup {r} /\ sealings' = sealings

-----------------------------------------------------------------------------
(* The texts of the server *)

LEMMA Shorter ==
  ASSUME NEW d \in Texts, NEW e \in Seq(Byte), Len(e) <= Len(d)
  PROVE  e \in Texts
<1>1. Len(e) \in Nat /\ Len(d) \in Nat /\ Len(d) \in Lengths
  BY LenProperties DEF Texts
<1>2. PICK S \in AADs \cup Messages \cup {c.ct : c \in Strays} : Len(d) \in 0 .. Len(S)
  BY <1>1 DEF Lengths
<1>3. S \in Seq(Byte)
  BY <1>2, InputAssumption
<1>4. Len(S) \in Nat
  BY <1>3, LenProperties
<1>5. Len(e) \in 0 .. Len(S)
  BY <1>1, <1>2, <1>4
<1>6. Len(e) \in Lengths
  BY <1>2, <1>5 DEF Lengths
<1> QED
  BY <1>6 DEF Texts

LEMMA InputTexts ==
  /\ \A d \in AADs \cup Messages : d \in Texts
  /\ \A c \in Strays : c.ct \in Texts /\ c.tag \in Block
<1>1. ASSUME NEW d \in AADs \cup Messages \cup {c.ct : c \in Strays} PROVE d \in Texts
  <2>1. d \in Seq(Byte)
    BY InputAssumption
  <2>2. Len(d) \in 0 .. Len(d)
    BY <2>1, LenProperties
  <2>3. Len(d) \in Lengths
    BY <2>2 DEF Lengths
  <2> QED
    BY <2>1, <2>3 DEF Texts
<1> QED
  BY <1>1, InputAssumption

LEMMA RoundsBelow ==
  ASSUME NEW d \in Texts
  PROVE  /\ d \in Seq(Byte) /\ Len(d) \in Nat
         /\ Rounds(Len(d)) \in 0 .. Counters - 1 /\ Counters \in Nat \ {0}
<1>1. d \in Seq(Byte) /\ Len(d) \in Nat /\ Len(d) \in Lengths
  BY LenProperties DEF Texts
<1>2. Rounds(Len(d)) \in Nat /\ Rounds(Len(d)) = (Len(d) + BlockSize - 1) \div BlockSize
  BY <1>1, RoundUpFacts
<1>3. Rounds(Len(d)) < Counters
  BY <1>1, <1>2, LengthAssumption DEF Counters
<1>4. Counters \in Nat \ {0}
  <2>1. CounterSize \in 0 .. BlockSize
    BY Sizes
  <2> QED
    BY <2>1, Powers DEF Counters
<1> QED
  BY <1>1, <1>2, <1>3, <1>4

LEMMA FrontType ==
  ASSUME NEW s \in Seq(Byte), Len(s) \in Nat \ {0}
  PROVE  Front(s) \in Seq(Byte) /\ Len(Front(s)) = Len(s) - 1
<1>1. \A j \in 1 .. Len(s) - 1 : s[j] \in Byte
  BY ElementOfSeq
<1>2. /\ SubSeq(s, 1, Len(s) - 1) \in Seq(Byte)
      /\ Len(SubSeq(s, 1, Len(s) - 1))
           = IF 1 <= Len(s) - 1 THEN (Len(s) - 1) - 1 + 1 ELSE 0
  BY <1>1, SubSeqProperties
<1>3. Front(s) = SubSeq(s, 1, Len(s) - 1)
  BY DEF Front
<1>4. PICK n \in Nat \ {0} : n = Len(s)
  OBVIOUS
<1>5. (IF 1 <= n - 1 THEN (n - 1) - 1 + 1 ELSE 0) = n - 1
  BY <1>4
<1> QED
  BY <1>2, <1>3, <1>4, <1>5

\* What comes damaged is no longer than what was sealed.
LEMMA DamagedType ==
  ASSUME NEW c \in Sealed, c.ct \in Texts, NEW d \in Damaged(c)
  PROVE  d.ct \in Texts /\ d.tag \in Block
<1>1. /\ c.ct \in Seq(Byte) /\ Len(c.ct) \in Nat /\ DOMAIN c.ct = 1 .. Len(c.ct)
      /\ \A j \in 1 .. Len(c.ct) : c.ct[j] \in Byte
  BY LenProperties, ElementOfSeq DEF Texts
<1>2. c.tag \in Block /\ c.tag \in Seq(Byte) /\ Len(c.tag) = BlockSize
  BY BlockIsSeq DEF Sealed
<1>3. \A x \in Byte : (x + 1) % Base \in Byte
  BY Powers DEF Byte
<1>4. BlockSize \in Nat \ {0}
  BY Sizes
<1>5. ASSUME NEW j \in 1 .. BlockSize, d = [c EXCEPT !.tag[j] = (@ + 1) % Base]
      PROVE  d.ct \in Texts /\ d.tag \in Block
  <2>1. d.ct = c.ct /\ d.tag = [c.tag EXCEPT ![j] = (c.tag[j] + 1) % Base]
    BY <1>5 DEF Sealed
  <2>2. c.tag[j] \in Byte
    BY <1>2 DEF Block
  <2>3. (c.tag[j] + 1) % Base \in Byte
    BY <1>3, <2>2
  <2>4. [c.tag EXCEPT ![j] = (c.tag[j] + 1) % Base] \in Block
    BY <1>2, <2>3 DEF Block
  <2> QED
    BY <2>1, <2>4
<1>6. ASSUME NEW j \in DOMAIN c.ct, d = [c EXCEPT !.ct[j] = (@ + 1) % Base]
      PROVE  d.ct \in Texts /\ d.tag \in Block
  <2>1. d.tag = c.tag /\ d.ct = [c.ct EXCEPT ![j] = (c.ct[j] + 1) % Base]
    BY <1>6 DEF Sealed
  <2>2. (c.ct[j] + 1) % Base \in Byte
    BY <1>1, <1>3
  <2>3. d.ct \in Seq(Byte) /\ Len(d.ct) = Len(c.ct)
    BY <1>1, <2>1, <2>2, ExceptSeq
  <2>4. d.ct \in Texts
    BY <1>1, <2>3, Shorter
  <2> QED
    BY <1>2, <2>1, <2>4
<1>7. ASSUME c.ct # <<>> PROVE /\ Front(c.ct) \in Texts
                               /\ <<Last(c.ct)>> \o Front(c.tag) \in Block
  <2>1. Len(c.ct) \in Nat \ {0}
    BY <1>1, <1>7, EmptySeq
  <2>2. Front(c.ct) \in Seq(Byte) /\ Len(Front(c.ct)) = Len(c.ct) - 1
    BY <1>1, <2>1, FrontType
  <2>3. Len(Front(c.ct)) <= Len(c.ct)
    BY <1>1, <2>2
  <2>4. Front(c.ct) \in Texts
    BY <2>2, <2>3, Shorter
  <2>5. Front(c.tag) \in Seq(Byte) /\ Len(Front(c.tag)) = BlockSize - 1
    BY <1>2, <1>4, FrontType
  <2>6. Last(c.ct) \in Byte
    BY <1>1, <2>1 DEF Last
  <2>7. PICK l \in Seq(Byte) : l = <<Last(c.ct)>> /\ Len(l) = 1
    <3>1. PICK x \in Byte : x = Last(c.ct)
      BY <2>6
    <3>2. <<x>> \in Seq(Byte) /\ Len(<<x>>) = 1
      OBVIOUS
    <3> QED
      BY <3>1, <3>2
  <2>8. l \o Front(c.tag) \in Seq(Byte) /\ Len(l \o Front(c.tag)) = Len(l) + Len(Front(c.tag))
    BY <2>5, ConcatProperties
  <2>9. l \o Front(c.tag) \in Block
    <3>1. Len(l \o Front(c.tag)) = BlockSize
      BY <1>4, <2>5, <2>7, <2>8
    <3> QED
      BY <2>8, <3>1, SeqIsBlock
  <2> QED
    BY <2>4, <2>7, <2>9
<1>8. ASSUME c.ct # <<>>, d \in {[ct |-> Front(c.ct), tag |-> c.tag],
                                 [ct |-> Front(c.ct), tag |-> <<Last(c.ct)>> \o Front(c.tag)]}
      PROVE  d.ct \in Texts /\ d.tag \in Block
  <2>1. d.ct = Front(c.ct) /\ (d.tag = c.tag \/ d.tag = <<Last(c.ct)>> \o Front(c.tag))
    BY <1>8
  <2> QED
    BY <1>2, <1>7, <1>8, <2>1
<1> QED
  BY <1>5, <1>6, <1>8 DEF Damaged

-----------------------------------------------------------------------------
(* The streams *)

LEMMA AppendFacts ==
  ASSUME NEW u \in Seq(Block), NEW b \in Block
  PROVE  /\ Append(u, b) \in Seq(Block)
         /\ DOMAIN u = 1 .. Len(u) /\ Len(u) \in Nat
         /\ DOMAIN Append(u, b) = 1 .. Len(u) + 1
         /\ \A a \in 1 .. Len(u) : Append(u, b)[a] = u[a]
         /\ Append(u, b)[Len(u) + 1] = b
BY AppendProperties, LenProperties

\* A counter block that is new in its call keeps the stream good.
LEMMA GoodAppend ==
  ASSUME NEW s, GoodStream(s), NEW b \in Block,
         \A j \in 1 .. Split : b[j] = Start(s)[j],
         \A a \in DOMAIN s.used : s.used[a] # b
  PROVE  /\ GoodStream([s EXCEPT !.used = Append(@, b)])
         /\ [s EXCEPT !.used = Append(@, b)].n = s.n
         /\ [s EXCEPT !.used = Append(@, b)].key = s.key
         /\ [s EXCEPT !.used = Append(@, b)].iv = s.iv
         /\ \A a \in DOMAIN Append(s.used, b) :
              Append(s.used, b)[a] = b \/ \E c \in DOMAIN s.used : Append(s.used, b)[a] = s.used[c]
<1> DEFINE t == [s EXCEPT !.used = Append(@, b)]
           u == s.used
           v == Append(u, b)
<1>1. s \in [n : Nat, key : Key, iv : Seq(Byte), used : Seq(Block)] /\ u \in Seq(Block)
  BY DEF GoodStream
<1>2. /\ v \in Seq(Block) /\ DOMAIN u = 1 .. Len(u) /\ Len(u) \in Nat
      /\ DOMAIN v = 1 .. Len(u) + 1
      /\ \A a \in 1 .. Len(u) : v[a] = u[a]
      /\ v[Len(u) + 1] = b
  BY <1>1, AppendFacts
<1>3. /\ \A a, c \in DOMAIN u : a # c => u[a] # u[c]
      /\ \A a \in DOMAIN u : \A j \in 1 .. Split : u[a][j] = Start(s)[j]
      /\ \A a \in DOMAIN u : u[a] # b
      /\ s.n <= calls
  BY DEF GoodStream
<1> HIDE DEF v, u
<1>4. /\ t \in [n : Nat, key : Key, iv : Seq(Byte), used : Seq(Block)]
      /\ t.n = s.n /\ t.key = s.key /\ t.iv = s.iv /\ t.used = v
  BY <1>1, <1>2 DEF u, v
<1> HIDE DEF t
<1>5. \A a \in DOMAIN v : (a \in DOMAIN u /\ v[a] = u[a]) \/ (a \notin DOMAIN u /\ v[a] = b)
  BY <1>2
<1>6. \A a, c \in DOMAIN v : a # c => v[a] # v[c]
  BY <1>2, <1>3
<1>7. Start(t) = Start(s)
  BY <1>4 DEF Start
<1>8. \A a \in DOMAIN v : \A j \in 1 .. Split : v[a][j] = Start(s)[j]
  BY <1>3, <1>5
<1>9. GoodStream(t)
  BY <1>3, <1>4, <1>6, <1>7, <1>8 DEF GoodStream
<1> QED
  BY <1>4, <1>5, <1>9 DEF t, u, v

\* What Note does to the streams.
LEMMA NoteFacts ==
  ASSUME StreamInv, pc \in {"ctr", "auth"}, NEW b \in Block, Note(b),
         call' = call, calls' = calls, pc' \in {"ctr", "check"},
         \A j \in 1 .. Split : b[j] = Start(call)[j],
         \A s \in streams : s.n = calls => \A a \in DOMAIN s.used : s.used[a] # b
  PROVE  /\ StreamInv'
         /\ \A s \in streams' : s.n = calls => \A a \in DOMAIN s.used :
              s.used[a] = b \/ \E t \in streams : t.n = calls /\
                                 \E c \in DOMAIN t.used : s.used[a] = t.used[c]
<1>1. \A s \in streams : GoodStream(s)
  BY DEF StreamInv
<1>2. ASSUME NEW s \in streams, s.n # calls
      PROVE  GoodStream(s)'
  BY <1>1 DEF GoodStream
<1>3. ASSUME NEW s \in streams, s.n = calls, NEW t, t = [s EXCEPT !.used = Append(@, b)]
      PROVE  /\ GoodStream(t)' /\ t.key = call.key /\ t.iv = call.iv
             /\ \A a \in DOMAIN t.used :
                  t.used[a] = b \/ \E c \in DOMAIN s.used : t.used[a] = s.used[c]
  <2>1. s.key = call.key /\ s.iv = call.iv
    BY <1>3 DEF StreamInv
  <2>2. Start(s) = Start(call)
    BY <2>1 DEF Start
  <2>3. GoodStream(s)
    BY <1>1, <1>3
  <2>4. /\ \A j \in 1 .. Split : b[j] = Start(s)[j]
        /\ \A a \in DOMAIN s.used : s.used[a] # b
    BY <1>3, <2>2
  <2>5. /\ GoodStream(t) /\ t.key = s.key /\ t.iv = s.iv
        /\ \A a \in DOMAIN Append(s.used, b) :
             Append(s.used, b)[a] = b
             \/ \E c \in DOMAIN s.used : Append(s.used, b)[a] = s.used[c]
    BY <1>3, <2>3, <2>4, GoodAppend
  <2>6. t.used = Append(s.used, b)
    BY <1>3, <2>3 DEF GoodStream
  <2>7. GoodStream(t)'
    BY <2>5 DEF GoodStream
  <2> QED
    BY <2>1, <2>5, <2>6, <2>7
<1>4. \A t \in streams' : \E s \in streams :
        t = IF s.n = calls THEN [s EXCEPT !.used = Append(@, b)] ELSE s
  BY DEF Note
<1>5. ASSUME NEW t \in streams'
      PROVE  /\ GoodStream(t)'
             /\ t.n = calls => t.key = call.key /\ t.iv = call.iv
             /\ t.n = calls => \A a \in DOMAIN t.used :
                  t.used[a] = b \/ \E s \in streams : s.n = calls /\
                                     \E c \in DOMAIN s.used : t.used[a] = s.used[c]
  <2>1. PICK s \in streams :
          t = IF s.n = calls THEN [s EXCEPT !.used = Append(@, b)] ELSE s
    BY <1>4
  <2>2. CASE s.n = calls
    <3>1. t = [s EXCEPT !.used = Append(@, b)]
      BY <2>1, <2>2
    <3>2. GoodStream(t)' /\ t.key = call.key /\ t.iv = call.iv
      BY <1>3, <2>2, <3>1
    <3>3. \A a \in DOMAIN t.used :
            t.used[a] = b \/ \E c \in DOMAIN s.used : t.used[a] = s.used[c]
      BY <1>3, <2>2, <3>1
    <3> QED
      BY <2>2, <3>2, <3>3
  <2>3. CASE s.n # calls
    BY <1>2, <2>1, <2>3
  <2> QED
    BY <2>2, <2>3
<1>6. StreamInv'
  BY <1>5 DEF StreamInv
<1> QED
  BY <1>5, <1>6

\* The same computations, whether they are given the call or its parameters.
LEMMA ParamFacts ==
  /\ Param.key = call.key /\ Param.iv = call.iv /\ Param.aad = call.aad
  /\ Start(Param) = Start(call)
  /\ \A k : Stream(Param, k) = Enc(call.key, CounterAfter(Start(call), k))
BY DEF Param, Start, Stream

LEMMA GoodCallParam ==
  ASSUME CallInv, pc # "idle"
  PROVE  /\ GoodParam(Param) /\ Param.aad \in Seq(Byte)
         /\ call.key \in Key /\ call.iv \in Seq(Byte)
         /\ call.aad \in Texts /\ call.aad \in Seq(Byte)
         /\ call.data \in Texts /\ call.data \in Seq(Byte)
         /\ Len(call.data) \in Nat /\ Len(out) = Len(call.data)
         /\ Rounds(Len(call.data)) \in Nat
         /\ Start(call) \in Block /\ SubKey(call.key) \in Block
<1>1. /\ call.key \in Key /\ call.iv \in Seq(Byte) /\ call.aad \in Texts /\ call.data \in Texts
      /\ Len(out) = Len(call.data)
  BY DEF CallInv
<1>2. call.aad \in Seq(Byte) /\ call.data \in Seq(Byte) /\ Len(call.data) \in Nat
  BY <1>1, RoundsBelow
<1>3. Start(call) \in Block /\ SubKey(call.key) \in Block
  BY <1>1, StartType
<1>4. GoodParam(Param) /\ Param.aad \in Seq(Byte)
  BY <1>1, <1>2 DEF GoodParam, Param
<1>5. Rounds(Len(call.data)) \in Nat
  BY <1>2, RoundUpFacts
<1> QED
  BY <1>1, <1>2, <1>3, <1>4, <1>5

-----------------------------------------------------------------------------
(* The steps *)

LEMMA JunkOut ==
  ASSUME NEW n \in Nat
  PROVE  /\ [j \in 1 .. n |-> Junk] \in Seq(Byte \cup {Junk})
         /\ Len([j \in 1 .. n |-> Junk]) = n
         /\ \A j \in 1 .. n : [k \in 1 .. n |-> Junk][j] = Junk
<1> DEFINE f == [j \in 1 .. n |-> Junk]
<1>1. f \in [1 .. n -> Byte \cup {Junk}]
  OBVIOUS
<1>2. f \in Seq(Byte \cup {Junk})
  BY <1>1, SeqDef
<1>3. DOMAIN f = 1 .. Len(f) /\ Len(f) \in Nat
  BY <1>2, LenProperties
<1> QED
  BY <1>2, <1>3

LEMMA UninitialisedType ==
  /\ Uninitialised \in Locals
  /\ \A f \in {"ctx", "h", "j0", "s", "computed"} : Uninitialised[f] \in {Junk, Zeroed}
BY DEF Uninitialised, Locals, Memory

LEMMA InitInvariant ==
  ASSUME Init
  PROVE  IInv
<1>1. /\ pc = "idle" /\ call = [fn |-> "none"] /\ i = 0 /\ local = Uninitialised
      /\ ghashIn = Junk /\ out = <<>> /\ tag = Junk /\ ret = 0 /\ calls = 0
      /\ sealings = {} /\ rejected = {} /\ streams = {}
  BY DEF Init
<1>2. StateInv
  <2>1. out \in Seq(Byte \cup {Junk}) /\ Len(out) = 0
    BY <1>1
  <2>2. i \in 0 .. Len(out) + BlockSize
    BY <1>1, <2>1, Sizes
  <2> QED
    BY <1>1, <2>1, <2>2, UninitialisedType DEF StateInv
<1>3. CallInv /\ MallocInv /\ KeyInv /\ AuthInv /\ CtrInv /\ CheckInv
  BY <1>1 DEF CallInv, MallocInv, KeyInv, AuthInv, CtrInv, CheckInv
<1>4. StreamInv /\ HistoryInv
  BY <1>1 DEF StreamInv, HistoryInv
<1>5. CleanExit
  BY <1>1, UninitialisedType DEF CleanExit
<1>6. TextOnlyAfterTag /\ FailureWritesNothing
  BY <1>1 DEF TextOnlyAfterTag, FailureWritesNothing
<1> QED
  BY <1>2, <1>3, <1>4, <1>5, <1>6 DEF IInv

LEMMA CallPreserves ==
  ASSUME IInv, pc = "idle", NEW fn \in {"encrypt", "decrypt"}, NEW key \in Key, NEW iv \in IVs,
         NEW aad \in AADs, NEW data \in Texts, NEW given, fn = "decrypt" => given \in Block,
         Call(fn, key, iv, aad, data, given)
  PROVE  IInv' /\ BoxStep
<1>1. /\ calls' = calls + 1
      /\ call' = [fn |-> fn, key |-> key, iv |-> iv, aad |-> aad, data |-> data, given |-> given]
      /\ i' = 0 /\ local' = Uninitialised /\ out' = [j \in 1 .. Len(data) |-> Junk]
      /\ tag' = Junk /\ pc' = "malloc"
      /\ ghashIn' = ghashIn /\ ret' = ret
      /\ sealings' = sealings /\ rejected' = rejected /\ streams' = streams
  BY DEF Call
<1>2. iv \in Seq(Byte) /\ aad \in Texts /\ Len(data) \in Nat
  BY InputAssumption, InputTexts, RoundsBelow
<1>3. /\ out' \in Seq(Byte \cup {Junk}) /\ Len(out') = Len(data)
      /\ \A j \in 1 .. Len(out') : out'[j] = Junk
  BY <1>1, <1>2, JunkOut
<1>4. StateInv'
  <2>1. i' \in 0 .. Len(out') + BlockSize
    BY <1>1, <1>2, <1>3, Sizes
  <2>2. ret' \in {0, -1} /\ calls' \in Nat
    BY <1>1 DEF IInv, StateInv
  <2> QED
    BY <1>1, <1>3, <2>1, <2>2, UninitialisedType DEF StateInv
<1>5. CallInv'
  BY <1>1, <1>2, <1>3 DEF CallInv
<1>6. Unwritten'
  BY <1>1, <1>3 DEF Unwritten
<1>7. MallocInv'
  BY <1>1, <1>6 DEF IInv, CleanExit, MallocInv
<1>8. KeyInv' /\ AuthInv' /\ CtrInv' /\ CheckInv' /\ CleanExit' /\ FailureWritesNothing'
  BY <1>1 DEF KeyInv, AuthInv, CtrInv, CheckInv, CleanExit, FailureWritesNothing
<1>9. StreamInv'
  <2>1. ASSUME NEW s \in streams PROVE GoodStream(s)' /\ s.n # calls'
    <3>1. GoodStream(s) /\ s.n \in Nat /\ s.n <= calls /\ calls \in Nat
      BY DEF IInv, StreamInv, StateInv, GoodStream
    <3>2. s.n <= calls' /\ s.n # calls'
      BY <1>1, <3>1
    <3> QED
      BY <3>1, <3>2 DEF GoodStream
  <2> QED
    BY <1>1, <2>1 DEF StreamInv
<1>10. HistoryInv'
  BY <1>1 DEF IInv, HistoryInv
<1>11. TextOnlyAfterTag'
  BY <1>1 DEF TextOnlyAfterTag
<1>12. BoxStep
  BY <1>1 DEF BoxStep
<1> QED
  BY <1>4, <1>5, <1>7, <1>8, <1>9, <1>10, <1>11, <1>12 DEF IInv

LEMMA MallocFailsPreserves ==
  ASSUME IInv, MallocFails
  PROVE  IInv' /\ BoxStep
<1>1. /\ pc = "malloc" /\ pc' = "idle" /\ ret' = -1
      /\ UNCHANGED <<call, i, local, ghashIn, out, tag, calls, sealings, rejected, streams>>
  BY DEF MallocFails, Return
<1>2. local = Uninitialised /\ ghashIn = Junk /\ Unwritten
  BY <1>1 DEF IInv, MallocInv
<1>3. StateInv'
  BY <1>1 DEF IInv, StateInv
<1>4. CallInv' /\ MallocInv' /\ KeyInv' /\ AuthInv' /\ CtrInv' /\ CheckInv'
  BY <1>1 DEF CallInv, MallocInv, KeyInv, AuthInv, CtrInv, CheckInv
<1>5. StreamInv'
  BY <1>1 DEF IInv, StreamInv, GoodStream
<1>6. HistoryInv'
  BY <1>1 DEF IInv, HistoryInv
<1>7. CleanExit'
  BY <1>1, <1>2, UninitialisedType DEF CleanExit
<1>8. TextOnlyAfterTag'
  BY <1>1 DEF IInv, TextOnlyAfterTag, Param
<1>9. FailureWritesNothing'
  BY <1>1, <1>2 DEF FailureWritesNothing, Unwritten
<1>10. BoxStep
  BY <1>1 DEF BoxStep
<1> QED
  BY <1>3, <1>4, <1>5, <1>6, <1>7, <1>8, <1>9, <1>10 DEF IInv

LEMMA FirstInc ==
  ASSUME NEW b \in Block
  PROVE  Inc(b) = CounterAfter(b, 1) /\ Inc(b) \in Block
<1>1. CounterAfter(b, 0) = b
  BY CounterStart
<1>2. Inc(CounterAfter(b, 0)) = CounterAfter(b, 0 + 1)
  BY IncIsNext
<1>3. CounterAfter(b, 1) \in Block
  BY CounterAfterFacts
<1> QED
  BY <1>1, <1>2, <1>3

LEMMA EnterCtrFacts ==
  ASSUME CallInv, pc # "idle", NEW l \in Locals, l.j0 = Start(call), EnterCtr(l)
  PROVE  /\ pc' = "ctr" /\ i' = 0 /\ local' \in Locals
         /\ local'.ctx = l.ctx /\ local'.h = l.h /\ local'.j0 = l.j0
         /\ local'.computed = l.computed
         /\ call.data # <<>> => local'.counter = CounterAfter(Start(call), 1)
<1>1. Start(call) \in Block
  BY GoodCallParam
<1>2. PICK x \in Block : x = Inc(l.j0) /\ x = CounterAfter(Start(call), 1)
  BY <1>1, FirstInc
<1>3. /\ pc' = "ctr" /\ i' = 0
      /\ local' = [l EXCEPT !.icb = x, !.counter = IF call.data = <<>> THEN l.counter ELSE x]
  BY <1>2 DEF EnterCtr
<1>4. x \in Memory(Block) /\ l.counter \in Memory(Block)
  BY DEF Memory, Locals
<1> QED
  BY <1>2, <1>3, <1>4 DEF Locals

\* The state that enters the loop over the data.
LEMMA CtrEntered ==
  ASSUME StateInv, CallInv, pc # "idle", Unwritten, i' = 0, call' = call, out' = out,
         calls' = calls,
         call.data # <<>> => local'.counter = CounterAfter(Start(call), 1),
         \A s \in streams' : s.n = calls => \A a \in DOMAIN s.used :
           s.used[a] = CounterAfter(Start(call), 0) /\ ~Encrypting
  PROVE  (\E b \in 0 .. Rounds(Len(call.data)) : Progress(b))'
<1>1. 0 \in 0 .. Rounds(Len(call.data))
  <2>1. call.data \in Texts
    BY GoodCallParam
  <2>2. Rounds(Len(call.data)) \in 0 .. Counters - 1 /\ Counters \in Nat
    BY <2>1, RoundsBelow
  <2> QED
    BY <2>2
<1>2. \A j \in 1 .. Len(out) : out[j] = IF j <= 0 THEN CodeText(Param, call.data)[j] ELSE Junk
  <2> TAKE j \in 1 .. Len(out)
  <2>1. ~(j <= 0)
    OBVIOUS
  <2> QED
    BY <2>1 DEF Unwritten
<1>3. i' = 0 * BlockSize
  BY Sizes
<1>4. \A s \in streams' : s.n = calls => \A a \in DOMAIN s.used : \E k \in 0 .. 0 :
        s.used[a] = CounterAfter(Start(call), k) /\ (Encrypting => k # 0)
  <2> TAKE s \in streams'
  <2> HAVE s.n = calls
  <2> TAKE a \in DOMAIN s.used
  <2>1. s.used[a] = CounterAfter(Start(call), 0) /\ ~Encrypting
    OBVIOUS
  <2>2. 0 \in 0 .. 0
    OBVIOUS
  <2> QED
    BY <2>1, <2>2
<1>5. Progress(0)'
  <2>1. (call.data # <<>> => local.counter = CounterAfter(Start(call), 0 + 1))'
    <3>1. 0 + 1 = 1
      OBVIOUS
    <3> QED
      BY <3>1
  <2>2. (\A j \in 1 .. Len(out) : out[j] = IF j <= i THEN CodeText(Param, call.data)[j] ELSE Junk)'
    BY <1>2 DEF Param
  <2>3. (\A s \in streams : s.n = calls => \A a \in DOMAIN s.used : \E k \in 0 .. 0 :
          s.used[a] = CounterAfter(Start(call), k) /\ (Encrypting => k # 0))'
    BY <1>4 DEF Encrypting
  <2> QED
    BY <1>3, <2>1, <2>2, <2>3 DEF Progress
<1> QED
  BY <1>1, <1>5

LEMMA PreparePreserves ==
  ASSUME IInv, Prepare
  PROVE  IInv' /\ BoxStep
<1> DEFINE l == [local EXCEPT !.ctx = call.key, !.h = SubKey(call.key), !.j0 = Start(call)]
           new == [n |-> calls, key |-> call.key, iv |-> call.iv, used |-> <<>>]
<1>1. /\ pc = "malloc" /\ Allocated'
      /\ IF Encrypting THEN EnterCtr(l) ELSE pc' = "auth" /\ local' = l /\ i' = i
      /\ streams' = streams \cup {new}
      /\ UNCHANGED <<call, out, tag, ret, calls, sealings, rejected>>
  BY DEF Prepare, Allocated, SubKey, Start
<1>2. /\ StateInv /\ CallInv /\ StreamInv /\ HistoryInv
      /\ local = Uninitialised /\ local \in Locals /\ ghashIn = Junk /\ Unwritten
  BY <1>1 DEF IInv, MallocInv, StateInv
<1>3. /\ call.key \in Key /\ call.iv \in Seq(Byte) /\ Start(call) \in Block
      /\ SubKey(call.key) \in Block /\ Len(out) \in Nat
  BY <1>1, <1>2, GoodCallParam
<1>4. /\ l \in Locals /\ l.ctx = call.key /\ l.h = SubKey(call.key) /\ l.j0 = Start(call)
      /\ l.computed = Junk
  BY <1>2, <1>3 DEF Locals, Memory, Uninitialised
<1> HIDE DEF l
<1>5. /\ pc' = IF Encrypting THEN "ctr" ELSE "auth"
      /\ i' \in 0 .. Len(out) + BlockSize /\ local' \in Locals
      /\ local'.ctx = call.key /\ local'.h = SubKey(call.key) /\ local'.j0 = Start(call)
      /\ local'.computed = Junk
  <2>1. CASE Encrypting
    <3>1. EnterCtr(l)
      BY <1>1, <2>1
    <3>2. /\ pc' = "ctr" /\ i' = 0 /\ local' \in Locals
          /\ local'.ctx = l.ctx /\ local'.h = l.h /\ local'.j0 = l.j0
          /\ local'.computed = l.computed
      BY <1>1, <1>2, <1>4, <3>1, EnterCtrFacts
    <3>3. 0 \in 0 .. Len(out) + BlockSize
      BY <1>3, Sizes
    <3> QED
      BY <1>4, <2>1, <3>2, <3>3
  <2>2. CASE ~Encrypting
    BY <1>1, <1>2, <1>4, <2>2 DEF StateInv
  <2> QED
    BY <2>1, <2>2
<1>6. StateInv'
  BY <1>1, <1>2, <1>5 DEF StateInv
<1>7. CallInv' /\ MallocInv' /\ KeyInv' /\ CheckInv'
  <2>1. CallInv'
    BY <1>1, <1>2 DEF CallInv
  <2>2. KeyInv'
    BY <1>1, <1>5 DEF KeyInv, Encrypting, Start
  <2> QED
    BY <1>5, <2>1, <2>2 DEF MallocInv, CheckInv
<1>8. Unwritten'
  BY <1>1, <1>2 DEF Unwritten
<1>9. AuthInv'
  <2>1. pc' = "auth" => ~Encrypting'
    BY <1>1, <1>5 DEF Encrypting
  <2> QED
    BY <1>1, <1>8, <2>1 DEF AuthInv
<1>10. \A s \in streams' : s.n = calls => s = new
  BY <1>1, <1>2 DEF StreamInv
<1>11. new.used = <<>> /\ new.key = call.key /\ new.iv = call.iv
       /\ \A a \in DOMAIN new.used : FALSE
  OBVIOUS
<1>12. GoodStream(new)
  <2>1. new \in [n : Nat, key : Key, iv : Seq(Byte), used : Seq(Block)] /\ new.n <= calls
    BY <1>2, <1>3 DEF StateInv
  <2> QED
    BY <1>11, <2>1 DEF GoodStream
<1> HIDE DEF new
<1>13. StreamInv'
  <2>1. \A s \in streams' : GoodStream(s)
    BY <1>1, <1>2, <1>12 DEF StreamInv
  <2>2. \A s \in streams' : GoodStream(s)'
    BY <1>1, <2>1 DEF GoodStream
  <2>3. pc' # "malloc"
    BY <1>5
  <2> QED
    BY <1>1, <1>10, <1>11, <2>2, <2>3 DEF StreamInv
<1>14. CtrInv'
  <2>1. SUFFICES ASSUME Encrypting PROVE CtrInv'
    BY <1>5 DEF CtrInv
  <2>2. EnterCtr(l)
    BY <1>1, <2>1
  <2>3. i' = 0 /\ (call.data # <<>> => local'.counter = CounterAfter(Start(call), 1))
    BY <1>1, <1>2, <1>4, <2>2, EnterCtrFacts
  <2>4. \A s \in streams' : s.n = calls => \A a \in DOMAIN s.used :
          s.used[a] = CounterAfter(Start(call), 0) /\ ~Encrypting
    BY <1>10, <1>11
  <2>5. (\E b \in 0 .. Rounds(Len(call.data)) : Progress(b))'
    BY <1>1, <1>2, <2>3, <2>4, CtrEntered
  <2>6. tag' = Junk /\ Encrypting'
    BY <1>1, <1>2, <2>1 DEF Unwritten, Encrypting
  <2> QED
    BY <1>1, <2>5, <2>6 DEF CtrInv
<1>15. HistoryInv' /\ CleanExit' /\ FailureWritesNothing' /\ BoxStep
  <2>1. HistoryInv'
    BY <1>1, <1>2 DEF HistoryInv
  <2>2. pc' # "idle"
    BY <1>5
  <2> QED
    BY <1>1, <2>1, <2>2 DEF CleanExit, FailureWritesNothing, BoxStep
<1>16. TextOnlyAfterTag'
  BY <1>1 DEF IInv, TextOnlyAfterTag, Param
<1> QED
  BY <1>6, <1>7, <1>9, <1>13, <1>14, <1>15, <1>16 DEF IInv

LEMMA MaskPlace ==
  ASSUME NEW p, NEW b \in Nat, NEW r \in 1 .. BlockSize
  PROVE  MaskByte(p, (b * BlockSize) + r) = Stream(p, b + 1)[r]
<1>1. BlockSize \in Nat \ {0}
  BY Sizes
<1>2. PICK n \in Nat : n = (b * BlockSize) + r - 1
  <2>1. b * BlockSize \in Nat
    BY <1>1
  <2> QED
    BY <1>1, <2>1
<1>3. b * BlockSize = BlockSize * b /\ r - 1 \in 0 .. BlockSize - 1
  BY <1>1
<1>4. n = BlockSize * b + (r - 1)
  BY <1>1, <1>2, <1>3
<1>5. n \div BlockSize = b /\ n % BlockSize = r - 1
  <2>1. PICK q \in 0 .. BlockSize - 1 : q = r - 1
    BY <1>3
  <2>2. n = BlockSize * b + q
    BY <1>4, <2>1
  <2>3. n \div BlockSize = b /\ n % BlockSize = q
    BY <1>1, <2>2, Quotient
  <2> QED
    BY <2>1, <2>3
<1>6. (r - 1) + 1 = r
  BY <1>1
<1>7. ((b * BlockSize) + r) - 1 = n
  BY <1>1, <1>2, <1>3
<1> QED
  BY <1>5, <1>6, <1>7 DEF MaskByte

\* One iteration of gctr writes the next block of the text and nothing else.
LEMMA MaskFacts ==
  ASSUME NEW p, p.key \in Key, p.iv \in Seq(Byte), NEW data \in Seq(Byte), NEW b \in Nat,
         NEW at, at = b * BlockSize,
         out \in Seq(Byte \cup {Junk}), Len(out) = Len(data),
         \A j \in 1 .. Len(out) : out[j] = IF j <= at THEN CodeText(p, data)[j] ELSE Junk
  PROVE  /\ Mask(data, Stream(p, b + 1), at) \in Seq(Byte \cup {Junk})
         /\ Len(Mask(data, Stream(p, b + 1), at)) = Len(data)
         /\ \A j \in 1 .. Len(data) : Mask(data, Stream(p, b + 1), at)[j]
              = IF j <= at + BlockSize THEN CodeText(p, data)[j] ELSE Junk
<1> DEFINE e == Stream(p, b + 1)
           f == Mask(data, e, at)
           N == Len(data)
<1>1. N \in Nat /\ DOMAIN data = 1 .. N /\ BlockSize \in Nat /\ at \in Nat
  <2>1. BlockSize \in Nat
    BY Sizes
  <2> QED
    BY <2>1, LenProperties
<1>2. f = [j \in 1 .. N |-> IF j \in at + 1 .. at + BlockSize
                            THEN XorByte(data[j], e[j - at]) ELSE out[j]]
  BY <1>1 DEF Mask
<1>3. \A j \in 1 .. N : CodeText(p, data)[j] = XorByte(data[j], MaskByte(p, j))
  BY DEF CodeText
<1>4. \A j \in 1 .. N : CodeText(p, data)[j] \in Byte
  <2>1. CodeText(p, data) \in Seq(Byte) /\ Len(CodeText(p, data)) = N
    BY CodeTextFacts
  <2> QED
    BY <2>1, ElementOfSeq
<1>5. ASSUME NEW j \in 1 .. N, j \in at + 1 .. at + BlockSize PROVE e[j - at] = MaskByte(p, j)
  <2>1. PICK r \in 1 .. BlockSize : r = j - at
    BY <1>1, <1>5
  <2>2. j = (b * BlockSize) + r
    BY <1>1, <2>1
  <2>3. MaskByte(p, (b * BlockSize) + r) = e[r]
    BY MaskPlace
  <2> QED
    BY <2>1, <2>2, <2>3
<1> HIDE DEF e, f, N
<1>6. ASSUME NEW j \in 1 .. N
      PROVE  /\ f[j] = IF j <= at + BlockSize THEN CodeText(p, data)[j] ELSE Junk
             /\ f[j] \in Byte \cup {Junk}
  <2>1. CASE j \in at + 1 .. at + BlockSize
    <3>1. f[j] = CodeText(p, data)[j]
      BY <1>2, <1>3, <1>5, <2>1
    <3>2. j <= at + BlockSize
      BY <1>1, <2>1
    <3> QED
      BY <1>4, <3>1, <3>2
  <2>2. CASE j \notin at + 1 .. at + BlockSize
    <3>1. f[j] = out[j]
      BY <1>2, <2>2
    <3>2. (j <= at) = (j <= at + BlockSize)
      BY <1>1, <2>2
    <3>3. out[j] = IF j <= at THEN CodeText(p, data)[j] ELSE Junk
      BY DEF N
    <3> QED
      BY <1>4, <3>1, <3>2, <3>3
  <2> QED
    BY <2>1, <2>2
<1>7. f \in [1 .. N -> Byte \cup {Junk}]
  <2>1. f = [j \in 1 .. N |-> f[j]]
    BY <1>2
  <2> QED
    BY <1>6, <2>1
<1>8. f \in Seq(Byte \cup {Junk})
  BY <1>1, <1>7, SeqDef
<1>9. Len(f) = N
  <2>1. DOMAIN f = 1 .. Len(f) /\ Len(f) \in Nat
    BY <1>8, LenProperties
  <2>2. DOMAIN f = 1 .. N
    BY <1>7
  <2>3. PICK m \in Nat : m = Len(f)
    BY <2>1
  <2>4. ASSUME m < N PROVE FALSE
    <3>1. N \in 1 .. N /\ N \notin 1 .. m
      BY <1>1, <2>4
    <3> QED
      BY <2>1, <2>2, <2>3, <3>1
  <2>5. ASSUME N < m PROVE FALSE
    <3>1. m \in 1 .. m /\ m \notin 1 .. N
      BY <1>1, <2>5
    <3> QED
      BY <2>1, <2>2, <2>3, <3>1
  <2> QED
    BY <1>1, <2>3, <2>4, <2>5
<1> QED
  BY <1>6, <1>8, <1>9 DEF e, f, N

\* While data is left there are blocks left.
LEMMA BlocksLeft ==
  ASSUME NEW n \in Nat, NEW b \in Nat, b * BlockSize < n
  PROVE  b + 1 <= Rounds(n)
<1>1. BlockSize \in Nat \ {0} /\ b * BlockSize = BlockSize * b
  BY Sizes
<1>2. Rounds(n) \in Nat /\ RoundUp(n) = BlockSize * Rounds(n) /\ n <= RoundUp(n)
      /\ RoundUp(n) \in Nat
  BY RoundUpFacts
<1>3. ~(Rounds(n) <= b)
  <2> SUFFICES ASSUME Rounds(n) <= b PROVE FALSE
    OBVIOUS
  <2>1. BlockSize * Rounds(n) <= BlockSize * b /\ BlockSize * b \in Nat
    <3>1. PICK c \in Nat : c = BlockSize
      BY <1>1
    <3>2. PICK a \in Nat : a = Rounds(n)
      BY <1>2
    <3>3. c * a <= c * b
      BY <3>2, TimesMonotone
    <3> QED
      BY <1>1, <3>1, <3>2, <3>3
  <2> QED
    BY <1>1, <1>2, <2>1
<1> QED
  BY <1>2, <1>3

\* Two counter blocks of a call differ.
LEMMA CallCountersDiffer ==
  ASSUME CallInv, pc # "idle", NEW k \in 0 .. Rounds(Len(call.data)),
         NEW l \in 0 .. Rounds(Len(call.data)), k # l
  PROVE  CounterAfter(Start(call), k) # CounterAfter(Start(call), l)
<1>1. call.data \in Texts /\ Start(call) \in Block
  BY GoodCallParam
<1>2. Rounds(Len(call.data)) \in 0 .. Counters - 1 /\ Counters \in Nat \ {0}
  BY <1>1, RoundsBelow
<1>3. k \in 0 .. Counters - 1 /\ l \in 0 .. Counters - 1
  BY <1>2
<1> QED
  BY <1>1, <1>3, CountersDiffer

LEMMA CtrBlockPreserves ==
  ASSUME IInv, CtrBlock
  PROVE  IInv' /\ BoxStep
<1> DEFINE S == Start(call)
           N == Len(call.data)
<1>1. /\ pc = "ctr" /\ i < N
      /\ UNCHANGED <<pc, call, ghashIn, tag, ret, calls, sealings, rejected>>
      /\ i' = i + BlockSize
      /\ Note(local.counter)
      /\ out' = Mask(call.data, Enc(local.ctx, local.counter), i)
      /\ local' = [local EXCEPT !.encrypted = Enc(local.ctx, local.counter),
                                !.counter = Inc(local.counter)]
  BY DEF CtrBlock
<1>2. /\ StateInv /\ CallInv /\ KeyInv /\ CtrInv /\ StreamInv /\ HistoryInv
      /\ local \in Locals /\ out \in Seq(Byte \cup {Junk})
  BY DEF IInv, StateInv
<1>3. /\ call.key \in Key /\ call.data \in Seq(Byte) /\ N \in Nat /\ Len(out) = N
      /\ S \in Block /\ GoodParam(Param)
  BY <1>1, <1>2, GoodCallParam
<1>4. PICK b \in 0 .. Rounds(N) : Progress(b)
  BY <1>1, <1>2 DEF CtrInv
<1>5. /\ b \in Nat /\ i = b * BlockSize /\ BlockSize \in Nat \ {0} /\ b * BlockSize \in Nat
      /\ Rounds(N) \in Nat
  <2>1. b \in Nat /\ Rounds(N) \in Nat
    <3>1. PICK n \in Nat : n = N
      BY <1>3
    <3>2. Rounds(n) \in Nat
      BY RoundUpFacts
    <3> QED
      BY <1>4, <3>1, <3>2
  <2> QED
    BY <1>4, <2>1, Sizes DEF Progress
<1>6. /\ call.data # <<>>
      /\ local.counter = CounterAfter(S, b + 1)
      /\ \A j \in 1 .. Len(out) : out[j] = IF j <= i THEN CodeText(Param, call.data)[j] ELSE Junk
      /\ \A s \in streams : s.n = calls => \A a \in DOMAIN s.used : \E k \in 0 .. b :
           s.used[a] = CounterAfter(S, k) /\ (Encrypting => k # 0)
  <2>1. call.data # <<>>
    <3>1. N > 0
      BY <1>1, <1>3, <1>5
    <3>2. Len(<<>>) = 0
      OBVIOUS
    <3> QED
      BY <3>1, <3>2
  <2> QED
    BY <1>4, <2>1 DEF Progress
<1>7. b + 1 \in 0 .. Rounds(N)
  <2>1. b + 1 <= Rounds(N)
    BY <1>1, <1>3, <1>5, BlocksLeft
  <2> QED
    BY <1>5, <2>1
<1> HIDE DEF S, N
<1>8. PICK c \in Block : c = local.counter /\ c = CounterAfter(S, b + 1)
  <2>1. b + 1 \in Nat
    BY <1>5
  <2> QED
    BY <1>3, <1>6, <2>1, CounterAfterFacts
<1>9. Inc(c) = CounterAfter(S, (b + 1) + 1) /\ Inc(c) \in Block
  <2>1. b + 1 \in Nat /\ (b + 1) + 1 \in Nat
    BY <1>5
  <2>2. Inc(CounterAfter(S, b + 1)) = CounterAfter(S, (b + 1) + 1)
    BY <1>3, <2>1, IncIsNext
  <2>3. CounterAfter(S, (b + 1) + 1) \in Block
    BY <1>3, <2>1, CounterAfterFacts
  <2> QED
    BY <1>8, <2>2, <2>3
<1>10. PICK e \in Block : e = Enc(call.key, c)
  BY <1>3, EncType
<1>11. local.ctx = call.key
  BY <1>1, <1>2 DEF KeyInv
<1>12. /\ local' \in Locals /\ local'.counter = Inc(c)
       /\ local'.ctx = local.ctx /\ local'.h = local.h /\ local'.j0 = local.j0
       /\ local'.computed = local.computed
  <2>1. local' = [local EXCEPT !.encrypted = e, !.counter = Inc(c)]
    BY <1>1, <1>8, <1>10, <1>11
  <2>2. e \in Memory(Block) /\ Inc(c) \in Memory(Block)
    BY <1>9 DEF Memory
  <2> QED
    BY <1>2, <2>1, <2>2 DEF Locals
<1>13. e = Stream(Param, b + 1)
  BY <1>8, <1>10, ParamFacts DEF S
<1>14. /\ out' \in Seq(Byte \cup {Junk}) /\ Len(out') = N
       /\ \A j \in 1 .. N : out'[j] = IF j <= i' THEN CodeText(Param, call.data)[j] ELSE Junk
  <2>1. out' = Mask(call.data, Stream(Param, b + 1), i)
    BY <1>1, <1>8, <1>10, <1>11, <1>13
  <2>2. Param.key \in Key /\ Param.iv \in Seq(Byte)
    BY <1>3 DEF GoodParam
  <2>3. Len(out) = Len(call.data)
    BY <1>3 DEF N
  <2>4. /\ Mask(call.data, Stream(Param, b + 1), i) \in Seq(Byte \cup {Junk})
        /\ Len(Mask(call.data, Stream(Param, b + 1), i)) = Len(call.data)
        /\ \A j \in 1 .. Len(call.data) : Mask(call.data, Stream(Param, b + 1), i)[j]
             = IF j <= i + BlockSize THEN CodeText(Param, call.data)[j] ELSE Junk
    <3>1. PICK p : p = Param
      OBVIOUS
    <3>2. p.key \in Key /\ p.iv \in Seq(Byte)
      BY <2>2, <3>1
    <3>3. \A j \in 1 .. Len(out) : out[j] = IF j <= i THEN CodeText(p, call.data)[j] ELSE Junk
      BY <1>6, <3>1
    <3>4. call.data \in Seq(Byte) /\ out \in Seq(Byte \cup {Junk}) /\ i = b * BlockSize /\ b \in Nat
      BY <1>2, <1>3, <1>5
    <3>5. /\ Mask(call.data, Stream(p, b + 1), i) \in Seq(Byte \cup {Junk})
          /\ Len(Mask(call.data, Stream(p, b + 1), i)) = Len(call.data)
          /\ \A j \in 1 .. Len(call.data) : Mask(call.data, Stream(p, b + 1), i)[j]
               = IF j <= i + BlockSize THEN CodeText(p, call.data)[j] ELSE Junk
      <4>1. Len(out) = Len(call.data)
        BY <2>3
      <4>2. PICK data \in Seq(Byte) : data = call.data
        BY <3>4
      <4>3. Len(out) = Len(data)
            /\ \A j \in 1 .. Len(out) : out[j] = IF j <= i THEN CodeText(p, data)[j] ELSE Junk
        BY <4>1, <3>3, <4>2
      <4>4. Mask(data, Stream(p, b + 1), i) \in Seq(Byte \cup {Junk})
        BY <3>2, <3>4, <4>3, MaskFacts
      <4>5. Len(Mask(data, Stream(p, b + 1), i)) = Len(data)
        BY <3>2, <3>4, <4>3, MaskFacts
      <4>6. \A j \in 1 .. Len(data) : Mask(data, Stream(p, b + 1), i)[j]
              = IF j <= i + BlockSize THEN CodeText(p, data)[j] ELSE Junk
        BY <3>2, <3>4, <4>3, MaskFacts
      <4> QED
        BY <4>2, <4>4, <4>5, <4>6
    <3> QED
      BY <3>1, <3>5
  <2> QED
    BY <1>1, <2>1, <2>4 DEF N
<1>15. /\ StreamInv'
       /\ \A s \in streams' : s.n = calls => \A a \in DOMAIN s.used :
            s.used[a] = c \/ \E t \in streams : t.n = calls /\
                               \E d \in DOMAIN t.used : s.used[a] = t.used[d]
  <2>1. \A j \in 1 .. Split : c[j] = Start(call)[j]
    <3>1. b + 1 \in Nat
      BY <1>5
    <3> QED
      BY <1>3, <1>8, <3>1, CounterAfterFacts DEF S
  <2>2. ASSUME NEW s \in streams, s.n = calls, NEW a \in DOMAIN s.used PROVE s.used[a] # c
    <3>1. PICK k \in 0 .. b : s.used[a] = CounterAfter(S, k)
      BY <1>6, <2>2
    <3>2. k \in 0 .. Rounds(N) /\ k # b + 1
      BY <1>5, <1>7
    <3>3. CounterAfter(S, k) # CounterAfter(S, b + 1)
      BY <1>1, <1>2, <1>7, <3>2, CallCountersDiffer DEF S, N
    <3> QED
      BY <1>8, <3>1, <3>3
  <2>3. Note(c) /\ pc \in {"ctr", "auth"} /\ pc' \in {"ctr", "check"}
        /\ call' = call /\ calls' = calls
    BY <1>1, <1>8
  <2> QED
    BY <1>2, <2>1, <2>2, <2>3, NoteFacts
<1>16. StateInv'
  <2>1. i' \in 0 .. Len(out') + BlockSize
    BY <1>1, <1>3, <1>5, <1>14
  <2> QED
    BY <1>1, <1>2, <1>12, <1>14, <2>1 DEF StateInv
<1>17. CallInv' /\ MallocInv' /\ KeyInv' /\ AuthInv' /\ CheckInv'
  <2>1. CallInv'
    BY <1>1, <1>2, <1>3, <1>14 DEF CallInv, N
  <2>2. KeyInv'
    BY <1>1, <1>2, <1>12 DEF KeyInv, Encrypting, Start
  <2> QED
    BY <1>1, <2>1, <2>2 DEF MallocInv, AuthInv, CheckInv
<1>18. Progress(b + 1)'
  <2>1. i' = (b + 1) * BlockSize
    BY <1>1, <1>5
  <2>2. (\A j \in 1 .. Len(out) : out[j] = IF j <= i THEN CodeText(Param, call.data)[j] ELSE Junk)'
    BY <1>1, <1>14 DEF Param
  <2>3. ASSUME NEW s \in streams', s.n = calls, NEW a \in DOMAIN s.used
        PROVE  \E k \in 0 .. b + 1 : s.used[a] = CounterAfter(S, k) /\ (Encrypting => k # 0)
    <3>1. CASE s.used[a] = c
      <4>1. b + 1 \in 0 .. b + 1 /\ b + 1 # 0
        BY <1>5
      <4> QED
        BY <1>8, <3>1, <4>1
    <3>2. CASE \E t \in streams : t.n = calls /\ \E d \in DOMAIN t.used : s.used[a] = t.used[d]
      <4>1. PICK t \in streams : t.n = calls /\ \E d \in DOMAIN t.used : s.used[a] = t.used[d]
        BY <3>2
      <4>2. PICK d \in DOMAIN t.used : s.used[a] = t.used[d]
        BY <4>1
      <4>3. PICK k \in 0 .. b : t.used[d] = CounterAfter(S, k) /\ (Encrypting => k # 0)
        BY <1>6, <4>1, <4>2
      <4>4. k \in 0 .. b + 1
        BY <1>5
      <4> QED
        BY <4>2, <4>3, <4>4
    <3> QED
      BY <1>15, <2>3, <3>1, <3>2
  <2>4. (call.data # <<>> => local.counter = CounterAfter(Start(call), (b + 1) + 1))'
    BY <1>1, <1>9, <1>12 DEF S, Start
  <2>5. (\A s \in streams : s.n = calls => \A a \in DOMAIN s.used : \E k \in 0 .. b + 1 :
           s.used[a] = CounterAfter(Start(call), k) /\ (Encrypting => k # 0))'
    BY <1>1, <2>3 DEF S, Encrypting, Start
  <2> QED
    BY <2>1, <2>2, <2>4, <2>5 DEF Progress
<1>19. CtrInv'
  <2>1. (\E k \in 0 .. Rounds(Len(call.data)) : Progress(k))'
    BY <1>1, <1>7, <1>18 DEF N
  <2>2. /\ tag' = Junk
        /\ IF Encrypting THEN Allocated'
           ELSE /\ ghashIn' = Layout(call.aad, call.data)
                /\ call.given = CodeTag(Param, call.data)
    BY <1>1, <1>2 DEF CtrInv, Allocated
  <2>3. (Encrypting' <=> Encrypting) /\ Param' = Param
    BY <1>1 DEF Encrypting, Param
  <2> QED
    BY <1>1, <2>1, <2>2, <2>3 DEF CtrInv
<1>20. HistoryInv' /\ CleanExit' /\ FailureWritesNothing' /\ BoxStep
  BY <1>1, <1>2 DEF HistoryInv, CleanExit, FailureWritesNothing, BoxStep
<1>21. TextOnlyAfterTag'
  <2>1. ~Encrypting => call.given = CodeTag(Param, call.data)
    BY <1>1, <1>2 DEF CtrInv
  <2> QED
    BY <1>1, <2>1 DEF TextOnlyAfterTag, Encrypting, Param
<1> QED
  BY <1>15, <1>16, <1>17, <1>19, <1>20, <1>21 DEF IInv

\* The loop ends when the whole text is written.
LEMMA LoopDone ==
  ASSUME IInv, pc = "ctr", i >= Len(call.data)
  PROVE  /\ out = CodeText(Param, call.data)
         /\ out \in Texts
         /\ \A s \in streams : s.n = calls => \A a \in DOMAIN s.used :
              \E k \in 0 .. Rounds(Len(call.data)) :
                s.used[a] = CounterAfter(Start(call), k) /\ (Encrypting => k # 0)
<1>1. CallInv /\ CtrInv /\ out \in Seq(Byte \cup {Junk}) /\ i \in Nat
  <2>1. i \in 0 .. Len(out) + BlockSize
    BY DEF IInv, StateInv
  <2>2. Len(out) + BlockSize \in Nat
    <3>1. CallInv
      BY DEF IInv
    <3>2. Len(out) \in Nat
      BY <3>1, GoodCallParam
    <3> QED
      BY <3>2, Sizes
  <2> QED
    BY <2>1, <2>2 DEF IInv, StateInv
<1>2. /\ GoodParam(Param) /\ call.data \in Seq(Byte) /\ call.data \in Texts
      /\ Len(call.data) \in Nat /\ Len(out) = Len(call.data)
      /\ Rounds(Len(call.data)) \in Nat
  BY <1>1, GoodCallParam
<1>3. PICK b \in 0 .. Rounds(Len(call.data)) : Progress(b)
  BY <1>1 DEF CtrInv
<1>4. /\ \A j \in 1 .. Len(out) : out[j] = IF j <= i THEN CodeText(Param, call.data)[j] ELSE Junk
      /\ \A s \in streams : s.n = calls => \A a \in DOMAIN s.used : \E k \in 0 .. b :
           s.used[a] = CounterAfter(Start(call), k) /\ (Encrypting => k # 0)
  BY <1>3 DEF Progress
<1>5. \A j \in 1 .. Len(out) : out[j] = CodeText(Param, call.data)[j]
  BY <1>1, <1>2, <1>4
<1>6. PICK t \in Seq(Byte) : t = CodeText(Param, call.data) /\ Len(t) = Len(call.data)
  <2>1. PICK p : p = Param
    OBVIOUS
  <2>2. p.key \in Key /\ p.iv \in Seq(Byte)
    BY <1>2, <2>1 DEF GoodParam
  <2>3. CodeText(p, call.data) \in Seq(Byte) /\ Len(CodeText(p, call.data)) = Len(call.data)
    BY <1>2, <2>2, CodeTextFacts
  <2> QED
    BY <2>1, <2>3
<1>7. out = t
  <2>1. /\ t = [j \in 1 .. Len(t) |-> t[j]] /\ out = [j \in 1 .. Len(out) |-> out[j]]
    BY <1>1, LenProperties
  <2> QED
    BY <1>2, <1>5, <1>6, <2>1
<1>8. out \in Texts
  BY <1>2, <1>6, <1>7, Shorter
<1>9. ASSUME NEW s \in streams, s.n = calls, NEW a \in DOMAIN s.used
      PROVE  \E k \in 0 .. Rounds(Len(call.data)) :
               s.used[a] = CounterAfter(Start(call), k) /\ (Encrypting => k # 0)
  <2>1. PICK k \in 0 .. b : s.used[a] = CounterAfter(Start(call), k) /\ (Encrypting => k # 0)
    BY <1>4, <1>9
  <2>2. k \in 0 .. Rounds(Len(call.data))
    BY <1>2
  <2> QED
    BY <2>1, <2>2
<1> QED
  BY <1>6, <1>7, <1>8, <1>9

LEMMA TagFacts ==
  ASSUME StateInv, CallInv, KeyInv, pc \in {"ctr", "auth"}, NEW ct \in Texts, TagOf(ct)
  PROVE  /\ ghashIn' = Layout(call.aad, ct)
         /\ local' \in Locals
         /\ local'.ctx = local.ctx /\ local'.h = local.h /\ local'.j0 = local.j0
         /\ local'.computed = IF Encrypting THEN local.computed ELSE CodeTag(Param, ct)
         /\ tag' = IF Encrypting THEN CodeTag(Param, ct) ELSE tag
         /\ CodeTag(Param, ct) \in Block
         /\ Note(Start(call))
<1>1. /\ local \in Locals /\ local.ctx = call.key /\ local.h = SubKey(call.key)
      /\ local.j0 = Start(call)
  BY DEF StateInv, KeyInv
<1>2. /\ GoodParam(Param) /\ Param.aad \in Seq(Byte) /\ call.key \in Key
      /\ Start(call) \in Block
  BY GoodCallParam
<1> DEFINE filled == Layout(call.aad, ct)
           s == Ghash(local.h, filled.buf, filled.len)
           e == Enc(local.ctx, local.j0)
<1>3. /\ ghashIn' = filled
      /\ local' = [local EXCEPT !.s = s, !.encrypted = e, !.counter = Inc(local.j0),
                                !.computed = IF Encrypting THEN @ ELSE XorBlock(s, e)]
      /\ tag' = IF Encrypting THEN XorBlock(s, e) ELSE tag
      /\ Note(Start(call))
  BY <1>1 DEF TagOf
<1>4. /\ Param.key = call.key /\ Param.iv = call.iv /\ Param.aad = call.aad
      /\ Start(Param) = Start(call)
  BY ParamFacts
<1>5. s = Ghash(SubKey(Param.key), Layout(Param.aad, ct).buf, Layout(Param.aad, ct).len)
      /\ e = Enc(Param.key, Start(Param))
  BY <1>1, <1>4
<1>6. CodeTag(Param, ct) = XorBlock(s, e)
  BY <1>5 DEF CodeTag
<1>7. s \in Block /\ CodeTag(Param, ct) \in Block
  <2>1. PICK p : p = Param
    OBVIOUS
  <2>2. /\ p.key \in Key /\ p.iv \in Seq(Byte) /\ p.aad \in Seq(Byte) /\ ct \in Seq(Byte)
        /\ SizeFits(p.aad, ct)
    BY <1>2, <2>1, TextsFit DEF GoodParam, Texts
  <2>3. /\ Ghash(SubKey(p.key), Layout(p.aad, ct).buf, Layout(p.aad, ct).len) \in Block
        /\ CodeTag(p, ct) \in Block
    BY <2>2, CodeTagType
  <2> QED
    BY <1>5, <2>1, <2>3
<1>8. e \in Block /\ Inc(local.j0) \in Block
  BY <1>1, <1>2, EncType, FirstInc
<1> HIDE DEF s, e, filled
<1>9. PICK x \in Memory(Block) : x = IF Encrypting THEN local.computed ELSE XorBlock(s, e)
  BY <1>1, <1>6, <1>7 DEF Memory, Locals
<1>10. local' = [local EXCEPT !.s = s, !.encrypted = e, !.counter = Inc(local.j0),
                              !.computed = x]
  BY <1>3, <1>9
<1>11. {s, e, Inc(local.j0)} \subseteq Memory(Block)
  BY <1>7, <1>8 DEF Memory
<1>12. /\ local' \in Locals
       /\ local'.ctx = local.ctx /\ local'.h = local.h /\ local'.j0 = local.j0
       /\ local'.computed = x
  BY <1>1, <1>10, <1>11 DEF Locals
<1> QED
  BY <1>3, <1>6, <1>7, <1>9, <1>12 DEF filled

LEMMA EncryptTagPreserves ==
  ASSUME IInv, EncryptTag
  PROVE  IInv' /\ BoxStep
<1>1. /\ pc = "ctr" /\ Encrypting /\ i >= Len(call.data) /\ TagOf(out) /\ pc' = "check"
      /\ UNCHANGED <<call, i, out, ret, calls, sealings, rejected>>
  BY DEF EncryptTag
<1>2. /\ StateInv /\ CallInv /\ KeyInv /\ CtrInv /\ StreamInv /\ HistoryInv
  BY DEF IInv
<1>3. /\ out = CodeText(Param, call.data) /\ out \in Texts
      /\ \A s \in streams : s.n = calls => \A a \in DOMAIN s.used :
           \E k \in 0 .. Rounds(Len(call.data)) :
             s.used[a] = CounterAfter(Start(call), k) /\ (Encrypting => k # 0)
  BY <1>1, LoopDone
<1>4. /\ Start(call) \in Block /\ out \in Seq(Byte) /\ Rounds(Len(call.data)) \in Nat
  BY <1>1, <1>2, <1>3, GoodCallParam, RoundsBelow
<1>5. /\ ghashIn' = Layout(call.aad, out)
      /\ local' \in Locals
      /\ local'.ctx = local.ctx /\ local'.h = local.h /\ local'.j0 = local.j0
      /\ local'.computed = local.computed
      /\ tag' = CodeTag(Param, out) /\ tag' \in Block
      /\ Note(Start(call))
  BY <1>1, <1>2, <1>3, TagFacts
<1>6. StreamInv'
  <2>1. ASSUME NEW s \in streams, s.n = calls, NEW a \in DOMAIN s.used
        PROVE  s.used[a] # Start(call)
    <3>1. PICK k \in 0 .. Rounds(Len(call.data)) :
            s.used[a] = CounterAfter(Start(call), k) /\ k # 0
      BY <1>1, <1>3, <2>1
    <3>2. 0 \in 0 .. Rounds(Len(call.data))
      BY <1>4
    <3>3. CounterAfter(Start(call), k) # CounterAfter(Start(call), 0)
      BY <1>1, <1>2, <3>1, <3>2, CallCountersDiffer
    <3>4. CounterAfter(Start(call), 0) = Start(call)
      BY <1>4, CounterStart
    <3> QED
      BY <3>1, <3>3, <3>4
  <2>2. pc \in {"ctr", "auth"} /\ pc' \in {"ctr", "check"} /\ call' = call /\ calls' = calls
    BY <1>1
  <2> QED
    BY <1>2, <1>4, <1>5, <2>1, <2>2, NoteFacts
<1>7. StateInv'
  BY <1>1, <1>2, <1>5 DEF StateInv
<1>8. CallInv' /\ MallocInv' /\ KeyInv' /\ AuthInv' /\ CtrInv'
  <2>1. CallInv'
    BY <1>1, <1>2 DEF CallInv
  <2>2. KeyInv'
    BY <1>1, <1>2, <1>5 DEF KeyInv, Encrypting, Start
  <2> QED
    BY <1>1, <2>1, <2>2 DEF MallocInv, AuthInv, CtrInv
<1>9. CheckInv'
  <2>1. Encrypting' /\ Param' = Param
    BY <1>1 DEF Encrypting, Param
  <2> QED
    BY <1>1, <1>3, <1>5, <2>1 DEF CheckInv
<1>10. HistoryInv' /\ CleanExit' /\ FailureWritesNothing' /\ BoxStep
  BY <1>1, <1>2 DEF HistoryInv, CleanExit, FailureWritesNothing, BoxStep
<1>11. TextOnlyAfterTag'
  BY <1>1 DEF TextOnlyAfterTag, Encrypting
<1> QED
  BY <1>6, <1>7, <1>8, <1>9, <1>10, <1>11 DEF IInv

LEMMA DecryptTagPreserves ==
  ASSUME IInv, DecryptTag
  PROVE  IInv' /\ BoxStep
<1>1. /\ pc = "auth" /\ TagOf(call.data) /\ pc' = "check"
      /\ UNCHANGED <<call, i, out, ret, calls, sealings, rejected>>
  BY DEF DecryptTag
<1>2. /\ StateInv /\ CallInv /\ KeyInv /\ AuthInv /\ StreamInv /\ HistoryInv
      /\ ~Encrypting /\ Unwritten
  BY <1>1 DEF IInv, AuthInv
<1>3. Start(call) \in Block /\ call.data \in Texts
  BY <1>1, <1>2, GoodCallParam
<1>4. /\ ghashIn' = Layout(call.aad, call.data)
      /\ local' \in Locals
      /\ local'.ctx = local.ctx /\ local'.h = local.h /\ local'.j0 = local.j0
      /\ local'.computed = CodeTag(Param, call.data)
      /\ tag' = tag
      /\ Note(Start(call))
  BY <1>1, <1>2, <1>3, TagFacts
<1>5. \A s \in streams : s.n = calls => s.used = <<>>
  BY <1>1, <1>2 DEF StreamInv
<1>6. \A s \in streams : s.n = calls => \A a \in DOMAIN s.used : FALSE
  BY <1>5
<1>7. /\ StreamInv'
      /\ \A s \in streams' : s.n = calls => \A a \in DOMAIN s.used : s.used[a] = Start(call)
  <2>1. pc \in {"ctr", "auth"} /\ pc' \in {"ctr", "check"} /\ call' = call /\ calls' = calls
    BY <1>1
  <2>2. /\ StreamInv'
        /\ \A s \in streams' : s.n = calls => \A a \in DOMAIN s.used :
             s.used[a] = Start(call) \/ \E t \in streams : t.n = calls /\
                                          \E c \in DOMAIN t.used : s.used[a] = t.used[c]
    BY <1>2, <1>3, <1>4, <1>6, <2>1, NoteFacts
  <2> QED
    BY <1>6, <2>2
<1>8. StateInv'
  BY <1>1, <1>2, <1>4 DEF StateInv
<1>9. CallInv' /\ MallocInv' /\ KeyInv' /\ AuthInv' /\ CtrInv'
  <2>1. CallInv'
    BY <1>1, <1>2 DEF CallInv
  <2>2. KeyInv'
    BY <1>1, <1>2, <1>4 DEF KeyInv, Encrypting, Start
  <2> QED
    BY <1>1, <2>1, <2>2 DEF MallocInv, AuthInv, CtrInv
<1>10. CheckInv'
  <2>1. ~Encrypting' /\ Param' = Param /\ Start(call)' = Start(call)
    BY <1>1, <1>2 DEF Encrypting, Param, Start
  <2>2. Unwritten'
    BY <1>1, <1>2, <1>4 DEF Unwritten
  <2> QED
    BY <1>1, <1>4, <1>7, <2>1, <2>2 DEF CheckInv
<1>11. HistoryInv' /\ CleanExit' /\ FailureWritesNothing' /\ BoxStep
  BY <1>1, <1>2 DEF HistoryInv, CleanExit, FailureWritesNothing, BoxStep
<1>12. TextOnlyAfterTag'
  BY <1>1 DEF IInv, TextOnlyAfterTag, Param
<1> QED
  BY <1>7, <1>8, <1>9, <1>10, <1>11, <1>12 DEF IInv

LEMMA CleanedFacts ==
  ASSUME StateInv, KeyInv, pc \in {"ctr", "auth", "check"}
  PROVE  /\ Cleaned \in Locals /\ [Cleaned EXCEPT !.icb = Zeroed] \in Locals
         /\ \A f \in {"ctx", "h", "j0", "s", "computed"} :
              Cleaned[f] \in {Junk, Zeroed} /\ [Cleaned EXCEPT !.icb = Zeroed][f] \in {Junk, Zeroed}
<1>1. local \in Locals /\ (Encrypting => local.computed = Junk)
  BY DEF StateInv, KeyInv
<1>2. PICK x \in {Junk, Zeroed} : x = IF Encrypting THEN local.computed ELSE Zeroed
  BY <1>1
<1>3. Cleaned = [local EXCEPT !.ctx = Zeroed, !.h = Zeroed, !.j0 = Zeroed, !.s = Zeroed,
                              !.computed = x]
  BY <1>2 DEF Cleaned
<1>4. Cleaned \in Locals
  BY <1>1, <1>3 DEF Locals, Memory
<1>5. [Cleaned EXCEPT !.icb = Zeroed] \in Locals
  BY <1>4 DEF Locals, Memory
<1>6. ASSUME NEW f \in {"ctx", "h", "j0", "s", "computed"}
      PROVE  /\ Cleaned[f] \in {Junk, Zeroed}
             /\ [Cleaned EXCEPT !.icb = Zeroed][f] = Cleaned[f]
  <2>1. Cleaned[f] \in {Junk, Zeroed}
    BY <1>1, <1>3 DEF Locals
  <2>2. [Cleaned EXCEPT !.icb = Zeroed][f] = Cleaned[f]
    BY <1>4 DEF Locals
  <2> QED
    BY <2>1, <2>2
<1> QED
  BY <1>4, <1>5, <1>6

\* What a call of the code seals is a good answer.
LEMMA SealingFacts ==
  ASSUME CallInv, pc # "idle", NEW pt \in Texts, NEW ct, NEW t,
         ct = CodeText(Param, pt), t = CodeTag(Param, ct),
         NEW authed, authed = Layout(call.aad, ct).buf
  PROVE  GoodSealing([param |-> Param, pt |-> pt, ct |-> [ct |-> ct, tag |-> t],
                      authed |-> authed])
<1>1. GoodParam(Param) /\ Param.aad \in Seq(Byte) /\ Param.aad = call.aad
  BY GoodCallParam, ParamFacts
<1>2. PICK p : p = Param
  OBVIOUS
<1>3. p.key \in Key /\ p.iv \in Seq(Byte) /\ p.aad \in Seq(Byte)
  BY <1>1, <1>2 DEF GoodParam
<1>4. pt \in Seq(Byte) /\ Len(pt) \in Nat
  BY RoundsBelow
<1>5. CodeText(p, pt) \in Seq(Byte) /\ Len(CodeText(p, pt)) = Len(pt)
  BY <1>3, <1>4, CodeTextFacts
<1>6. ct \in Seq(Byte) /\ Len(ct) <= Len(pt)
  BY <1>2, <1>4, <1>5
<1>7. ct \in Texts
  BY <1>6, Shorter
<1>8. CodeTag(p, ct) \in Block
  <2>1. SizeFits(p.aad, ct)
    BY <1>1, <1>2, <1>7, TextsFit DEF GoodParam
  <2> QED
    BY <1>3, <1>6, <2>1, CodeTagType
<1>9. t \in Block
  BY <1>2, <1>8
<1>10. [ct |-> ct, tag |-> t] \in Sealed
  BY <1>6, <1>9 DEF Sealed
<1>11. authed = Layout(Param.aad, ct).buf
  BY <1>1
<1> QED
  BY <1>1, <1>7, <1>10, <1>11 DEF GoodSealing

LEMMA FinishEncryptPreserves ==
  ASSUME IInv, FinishEncrypt
  PROVE  IInv' /\ BoxStep
<1> DEFINE e == [param |-> Param, pt |-> call.data, ct |-> [ct |-> out, tag |-> tag],
                 authed |-> ghashIn.buf]
<1>1. /\ pc = "check" /\ Encrypting /\ local' = Cleaned
      /\ sealings' = sealings \cup {e} /\ ghashIn' = Junk /\ ret' = 0 /\ pc' = "idle"
      /\ UNCHANGED <<call, i, out, tag, calls, rejected, streams>>
  BY DEF FinishEncrypt, Return
<1>2. /\ StateInv /\ CallInv /\ KeyInv /\ StreamInv /\ HistoryInv
      /\ out = CodeText(Param, call.data) /\ tag = CodeTag(Param, out)
      /\ ghashIn = Layout(call.aad, out)
  BY <1>1 DEF IInv, CheckInv
<1>3. call.data \in Texts
  BY <1>1, <1>2, GoodCallParam
<1>4. GoodSealing(e)
  BY <1>1, <1>2, <1>3, SealingFacts
<1> HIDE DEF e
<1>5. /\ local' \in Locals
      /\ \A f \in {"ctx", "h", "j0", "s", "computed"} : local'[f] \in {Junk, Zeroed}
  BY <1>1, <1>2, CleanedFacts
<1>6. StateInv'
  BY <1>1, <1>2, <1>5 DEF StateInv
<1>7. CallInv' /\ MallocInv' /\ KeyInv' /\ AuthInv' /\ CtrInv' /\ CheckInv'
  BY <1>1 DEF CallInv, MallocInv, KeyInv, AuthInv, CtrInv, CheckInv
<1>8. StreamInv'
  BY <1>1, <1>2 DEF StreamInv, GoodStream
<1>9. HistoryInv' /\ BoxStep
  BY <1>1, <1>2, <1>4 DEF HistoryInv, BoxStep
<1>10. CleanExit' /\ FailureWritesNothing'
  BY <1>1, <1>5 DEF CleanExit, FailureWritesNothing
<1>11. TextOnlyAfterTag'
  BY <1>1 DEF TextOnlyAfterTag, Encrypting
<1> QED
  BY <1>6, <1>7, <1>8, <1>9, <1>10, <1>11 DEF IInv

LEMMA RejectTagPreserves ==
  ASSUME IInv, RejectTag
  PROVE  IInv' /\ BoxStep
<1> DEFINE r == [param |-> Param, ct |-> Given]
<1>1. /\ pc = "check" /\ ~Encrypting /\ Differs(local.computed, call.given)
      /\ local' = Cleaned /\ ghashIn' = Junk /\ rejected' = rejected \cup {r}
      /\ ret' = -1 /\ pc' = "idle"
      /\ UNCHANGED <<call, i, out, tag, calls, sealings, streams>>
  BY DEF RejectTag, Return
<1>2. /\ StateInv /\ CallInv /\ KeyInv /\ StreamInv /\ HistoryInv
      /\ Unwritten /\ local.computed = CodeTag(Param, call.data)
  BY <1>1 DEF IInv, CheckInv
<1>3. GoodParam(Param) /\ call.data \in Seq(Byte)
  BY <1>1, <1>2, GoodCallParam
<1>4. GoodRefusal(r)
  <2>1. call.given \in Block
    BY <1>1, <1>2 DEF CallInv, Encrypting
  <2>2. Given \in Sealed /\ Given.ct = call.data /\ Given.tag = call.given
    BY <1>3, <2>1 DEF Given, Sealed
  <2>3. local.computed # call.given
    BY <1>1 DEF Differs
  <2>4. Param \in [key : Key, iv : Seq(Byte), aad : Seq(Byte)]
    BY <1>3 DEF GoodParam
  <2>5. r.param = Param /\ r.ct = Given
    OBVIOUS
  <2>6. r \in [param : [key : Key, iv : Seq(Byte), aad : Seq(Byte)], ct : Sealed]
    BY <2>2, <2>4
  <2> HIDE DEF r
  <2> QED
    BY <1>2, <1>3, <2>2, <2>3, <2>5, <2>6 DEF GoodRefusal
<1> HIDE DEF r
<1>5. /\ local' \in Locals
      /\ \A f \in {"ctx", "h", "j0", "s", "computed"} : local'[f] \in {Junk, Zeroed}
  BY <1>1, <1>2, CleanedFacts
<1>6. StateInv'
  BY <1>1, <1>2, <1>5 DEF StateInv
<1>7. CallInv' /\ MallocInv' /\ KeyInv' /\ AuthInv' /\ CtrInv' /\ CheckInv'
  BY <1>1 DEF CallInv, MallocInv, KeyInv, AuthInv, CtrInv, CheckInv
<1>8. StreamInv'
  BY <1>1, <1>2 DEF StreamInv, GoodStream
<1>9. HistoryInv' /\ BoxStep
  BY <1>1, <1>2, <1>4 DEF HistoryInv, BoxStep
<1>10. CleanExit' /\ FailureWritesNothing'
  BY <1>1, <1>2, <1>5 DEF CleanExit, FailureWritesNothing, Unwritten
<1>11. TextOnlyAfterTag'
  BY <1>1 DEF IInv, TextOnlyAfterTag, Param
<1> QED
  BY <1>6, <1>7, <1>8, <1>9, <1>10, <1>11 DEF IInv

LEMMA AcceptTagPreserves ==
  ASSUME IInv, AcceptTag
  PROVE  IInv' /\ BoxStep
<1>1. /\ pc = "check" /\ ~Encrypting /\ ~Differs(local.computed, call.given)
      /\ EnterCtr(local)
      /\ UNCHANGED <<call, ghashIn, out, tag, ret, calls, sealings, rejected, streams>>
  BY DEF AcceptTag
<1>2. /\ StateInv /\ CallInv /\ KeyInv /\ StreamInv /\ HistoryInv
      /\ Unwritten /\ local.computed = CodeTag(Param, call.data)
      /\ ghashIn = Layout(call.aad, call.data)
      /\ \A s \in streams : s.n = calls => \A a \in DOMAIN s.used : s.used[a] = Start(call)
  BY <1>1 DEF IInv, CheckInv
<1>3. /\ GoodParam(Param) /\ Param.aad \in Seq(Byte) /\ call.data \in Seq(Byte)
      /\ Start(call) \in Block /\ Len(out) \in Nat
  BY <1>1, <1>2, GoodCallParam
<1>4. call.given = CodeTag(Param, call.data)
  <2>1. call.given \in Block
    BY <1>1, <1>2 DEF CallInv, Encrypting
  <2>2. CodeTag(Param, call.data) \in Block
    <3>1. PICK p : p = Param
      OBVIOUS
    <3>2. p.key \in Key /\ p.iv \in Seq(Byte) /\ p.aad \in Seq(Byte)
      BY <1>3, <3>1 DEF GoodParam
    <3>3. SizeFits(p.aad, call.data) /\ call.data \in Seq(Byte)
      BY <1>1, <1>2, <1>3, <3>1, GoodCallParam, TextsFit DEF GoodParam
    <3>4. CodeTag(p, call.data) \in Block
      BY <3>2, <3>3, CodeTagType
    <3> QED
      BY <3>1, <3>4
  <2>3. \A j \in 1 .. BlockSize : CodeTag(Param, call.data)[j] = call.given[j]
    BY <1>1, <1>2 DEF Differs
  <2>4. PICK a \in Block, b \in Block : a = CodeTag(Param, call.data) /\ b = call.given
    BY <2>1, <2>2
  <2>5. a = [j \in 1 .. BlockSize |-> a[j]] /\ b = [j \in 1 .. BlockSize |-> b[j]]
    BY DEF Block
  <2> QED
    BY <2>3, <2>4, <2>5
<1>5. local \in Locals /\ local.ctx = call.key /\ local.h = SubKey(call.key)
      /\ local.j0 = Start(call)
  BY <1>1, <1>2 DEF StateInv, KeyInv
<1>6. /\ pc' = "ctr" /\ i' = 0 /\ local' \in Locals
      /\ local'.ctx = local.ctx /\ local'.h = local.h /\ local'.j0 = local.j0
      /\ call.data # <<>> => local'.counter = CounterAfter(Start(call), 1)
  BY <1>1, <1>2, <1>5, EnterCtrFacts
<1>7. StateInv'
  <2>1. 0 \in 0 .. Len(out) + BlockSize
    BY <1>3, Sizes
  <2> QED
    BY <1>1, <1>2, <1>6, <2>1 DEF StateInv
<1>8. CallInv' /\ MallocInv' /\ KeyInv' /\ AuthInv' /\ CheckInv'
  <2>1. CallInv'
    BY <1>1, <1>2 DEF CallInv
  <2>2. KeyInv'
    BY <1>1, <1>5, <1>6 DEF KeyInv, Encrypting, Start
  <2> QED
    BY <1>6, <2>1, <2>2 DEF MallocInv, AuthInv, CheckInv
<1>9. CtrInv'
  <2>1. CounterAfter(Start(call), 0) = Start(call)
    BY <1>3, CounterStart
  <2>2. \A s \in streams' : s.n = calls => \A a \in DOMAIN s.used :
          s.used[a] = CounterAfter(Start(call), 0) /\ ~Encrypting
    BY <1>1, <1>2, <2>1
  <2>3. (\E b \in 0 .. Rounds(Len(call.data)) : Progress(b))'
    BY <1>1, <1>2, <1>6, <2>2, CtrEntered
  <2>4. tag' = Junk /\ ~Encrypting' /\ Param' = Param
    BY <1>1, <1>2 DEF Unwritten, Encrypting, Param
  <2> QED
    BY <1>1, <1>2, <1>4, <2>3, <2>4 DEF CtrInv
<1>10. StreamInv'
  BY <1>1, <1>2, <1>6 DEF StreamInv, GoodStream
<1>11. HistoryInv' /\ CleanExit' /\ FailureWritesNothing' /\ BoxStep
  BY <1>1, <1>2, <1>6 DEF HistoryInv, CleanExit, FailureWritesNothing, BoxStep
<1>12. TextOnlyAfterTag'
  BY <1>1 DEF IInv, TextOnlyAfterTag, Param
<1> QED
  BY <1>7, <1>8, <1>9, <1>10, <1>11, <1>12 DEF IInv

LEMMA FinishDecryptPreserves ==
  ASSUME IInv, FinishDecrypt
  PROVE  IInv' /\ BoxStep
<1> DEFINE e == [param |-> Param, pt |-> out, ct |-> Given, authed |-> ghashIn.buf]
<1>1. /\ pc = "ctr" /\ ~Encrypting /\ i >= Len(call.data)
      /\ local' = [Cleaned EXCEPT !.icb = Zeroed]
      /\ sealings' = sealings \cup {e} /\ ghashIn' = Junk /\ ret' = 0 /\ pc' = "idle"
      /\ UNCHANGED <<call, i, out, tag, calls, rejected, streams>>
  BY DEF FinishDecrypt, Return
<1>2. /\ StateInv /\ CallInv /\ KeyInv /\ StreamInv /\ HistoryInv
      /\ ghashIn = Layout(call.aad, call.data) /\ call.given = CodeTag(Param, call.data)
  BY <1>1 DEF IInv, CtrInv
<1>3. out = CodeText(Param, call.data) /\ out \in Texts
  BY <1>1, LoopDone
<1>4. call.data = CodeText(Param, out)
  <2>1. GoodParam(Param) /\ call.data \in Seq(Byte)
    BY <1>1, <1>2, GoodCallParam
  <2>2. PICK p : p = Param
    OBVIOUS
  <2>3. p.key \in Key /\ p.iv \in Seq(Byte)
    BY <2>1, <2>2 DEF GoodParam
  <2>4. CodeText(p, CodeText(p, call.data)) = call.data
    BY <2>1, <2>3, CodeTextFacts
  <2> QED
    BY <1>3, <2>2, <2>4
<1>5. GoodSealing(e)
  <2>1. Given = [ct |-> call.data, tag |-> call.given]
    BY DEF Given
  <2>2. ghashIn.buf = Layout(call.aad, call.data).buf
    BY <1>2
  <2>3. GoodSealing([param |-> Param, pt |-> out, ct |-> [ct |-> call.data, tag |-> call.given],
                     authed |-> ghashIn.buf])
    BY <1>1, <1>2, <1>3, <1>4, <2>2, SealingFacts
  <2> QED
    BY <2>1, <2>3
<1> HIDE DEF e
<1>6. /\ local' \in Locals
      /\ \A f \in {"ctx", "h", "j0", "s", "computed"} : local'[f] \in {Junk, Zeroed}
  BY <1>1, <1>2, CleanedFacts
<1>7. StateInv'
  BY <1>1, <1>2, <1>6 DEF StateInv
<1>8. CallInv' /\ MallocInv' /\ KeyInv' /\ AuthInv' /\ CtrInv' /\ CheckInv'
  BY <1>1 DEF CallInv, MallocInv, KeyInv, AuthInv, CtrInv, CheckInv
<1>9. StreamInv'
  BY <1>1, <1>2 DEF StreamInv, GoodStream
<1>10. HistoryInv' /\ BoxStep
  BY <1>1, <1>2, <1>5 DEF HistoryInv, BoxStep
<1>11. CleanExit' /\ FailureWritesNothing'
  BY <1>1, <1>6 DEF CleanExit, FailureWritesNothing
<1>12. TextOnlyAfterTag'
  BY <1>1, <1>2 DEF TextOnlyAfterTag, Param
<1> QED
  BY <1>7, <1>8, <1>9, <1>10, <1>11, <1>12 DEF IInv

LEMMA NextPreserves ==
  ASSUME IInv, [Next]_vars
  PROVE  IInv' /\ BoxStep
<1>1. ASSUME pc = "idle", NEW key \in Key, NEW iv \in IVs, NEW aad \in AADs,
             NEW m \in Messages, CallEncrypt(key, iv, aad, m)
      PROVE  IInv' /\ BoxStep
  <2>1. m \in Texts
    BY InputTexts
  <2>2. Call("encrypt", key, iv, aad, m, Junk)
    BY <1>1 DEF CallEncrypt
  <2>3. "encrypt" \in {"encrypt", "decrypt"} /\ ("encrypt" = "decrypt" => Junk \in Block)
    OBVIOUS
  <2> QED
    BY <1>1, <2>1, <2>2, <2>3, CallPreserves
<1>2. ASSUME pc = "idle", NEW key \in Key, NEW iv \in IVs, NEW aad \in AADs,
             NEW c \in Strays \cup Known \cup UNION {Damaged(d) : d \in Known},
             CallDecrypt(key, iv, aad, c)
      PROVE  IInv' /\ BoxStep
  <2>1. \A d \in Known : d \in Sealed /\ d.ct \in Texts /\ d.tag \in Block
    BY DEF IInv, HistoryInv, GoodSealing, Known, Sealed
  <2>2. c.ct \in Texts /\ c.tag \in Block
    <3>1. CASE c \in Strays
      BY <3>1, InputTexts
    <3>2. CASE c \in Known
      BY <2>1, <3>2
    <3>3. ASSUME NEW d \in Known, c \in Damaged(d) PROVE c.ct \in Texts /\ c.tag \in Block
      BY <2>1, <3>3, DamagedType
    <3> QED
      BY <3>1, <3>2, <3>3
  <2>3. Call("decrypt", key, iv, aad, c.ct, c.tag)
    BY <1>2 DEF CallDecrypt
  <2>4. PICK t \in Texts, g \in Block : t = c.ct /\ g = c.tag
    BY <2>2
  <2>5. Call("decrypt", key, iv, aad, t, g)
    BY <2>3, <2>4
  <2>6. "decrypt" \in {"encrypt", "decrypt"} /\ ("decrypt" = "decrypt" => g \in Block)
    OBVIOUS
  <2> QED
    BY <1>2, <2>5, <2>6, CallPreserves
<1>3. CASE UNCHANGED vars
  <2>1. UNCHANGED <<pc, call, i, local, ghashIn, out, tag, ret, calls, sealings, rejected, streams>>
    BY <1>3 DEF vars
  <2>2. StateInv' /\ CallInv' /\ MallocInv'
    BY <2>1 DEF IInv, StateInv, CallInv, MallocInv, Unwritten
  <2>3. KeyInv' /\ AuthInv'
    BY <2>1 DEF IInv, KeyInv, AuthInv, Encrypting, Start, Unwritten, Allocated
  <2>4. Param' = Param /\ (Encrypting' <=> Encrypting) /\ Start(call)' = Start(call)
    BY <2>1 DEF Param, Encrypting, Start
  <2>5. \A b : Progress(b)' <=> Progress(b)
    BY <2>1, <2>4 DEF Progress
  <2>6. CtrInv' /\ CheckInv'
    BY <2>1, <2>4, <2>5 DEF IInv, CtrInv, CheckInv, Allocated, Unwritten
  <2>7. StreamInv' /\ HistoryInv' /\ CleanExit'
    BY <2>1 DEF IInv, StreamInv, GoodStream, HistoryInv, CleanExit
  <2>8. TextOnlyAfterTag' /\ FailureWritesNothing'
    BY <2>1, <2>4 DEF IInv, TextOnlyAfterTag, FailureWritesNothing, Unwritten
  <2> QED
    BY <2>1, <2>2, <2>3, <2>6, <2>7, <2>8 DEF IInv, BoxStep
<1>4. CASE Next
  <2>1. CASE pc = "idle" /\ calls < MaxCalls /\ \E key \in Key, iv \in IVs, aad \in AADs :
               \/ \E m \in Messages : CallEncrypt(key, iv, aad, m)
               \/ \E c \in Strays \cup Known \cup UNION {Damaged(d) : d \in Known} :
                    CallDecrypt(key, iv, aad, c)
    BY <1>1, <1>2, <2>1
  <2> QED
    BY <1>4, <2>1, MallocFailsPreserves, PreparePreserves, CtrBlockPreserves,
       EncryptTagPreserves, DecryptTagPreserves, FinishEncryptPreserves, RejectTagPreserves,
       AcceptTagPreserves, FinishDecryptPreserves DEF Next
<1> QED
  BY <1>3, <1>4

\* The inductive invariant holds: what the state of a call is at each point of the two
\* functions, and what the calls so far have sealed, refused and enciphered.
THEOREM GcmInvariant == Spec => []IInv
<1>1. Init => IInv
  BY InitInvariant
<1>2. IInv /\ [Next]_vars => IInv'
  BY NextPreserves
<1> QED
  BY <1>1, <1>2, PTL DEF Spec

-----------------------------------------------------------------------------
(* The theorems *)

\* What is hashed while it is there.
LEMMA HashInput ==
  ASSUME IInv
  PROVE  \/ ghashIn = Junk
         \/ pc \in {"ctr", "auth"} /\ Allocated
         \/ \E ct \in Texts : ghashIn = Layout(call.aad, ct)
<1>1. CASE pc \in {"idle", "malloc"}
  BY <1>1 DEF IInv, CleanExit, MallocInv
<1>2. CASE pc = "auth"
  BY <1>2 DEF IInv, AuthInv
<1>3. CASE pc = "ctr"
  <2>1. call.data \in Texts
    BY <1>3, GoodCallParam DEF IInv
  <2> QED
    BY <1>3, <2>1 DEF IInv, CtrInv
<1>4. CASE pc = "check"
  <2>1. call.data \in Texts /\ call.data \in Seq(Byte) /\ GoodParam(Param)
    BY <1>4, GoodCallParam DEF IInv
  <2>2. PICK p : p = Param
    OBVIOUS
  <2>3. p.key \in Key /\ p.iv \in Seq(Byte)
    BY <2>1, <2>2 DEF GoodParam
  <2>4. CodeText(p, call.data) \in Texts
    <3>1. CodeText(p, call.data) \in Seq(Byte) /\ Len(CodeText(p, call.data)) = Len(call.data)
      BY <2>1, <2>3, CodeTextFacts
    <3> QED
      BY <2>1, <3>1 DEF Texts
  <2>5. Encrypting => out \in Texts
    BY <1>4, <2>2, <2>4 DEF IInv, CheckInv
  <2> QED
    BY <1>4, <2>1, <2>5 DEF IInv, CheckInv
<1> QED
  BY <1>1, <1>2, <1>3, <1>4 DEF IInv, StateInv

\* Every counter, hash and tag the code computes is a block, whatever the lengths of
\* the IV, AAD and text and wherever the counter starts.
THEOREM GcmTypeCorrect == Spec => []TypeOK
<1>1. IInv => TypeOK
  <2> SUFFICES ASSUME IInv PROVE TypeOK
    OBVIOUS
  <2>1. /\ pc \in {"idle", "malloc", "ctr", "auth", "check"}
        /\ i \in 0 .. Len(out) + BlockSize
        /\ out \in Seq(Byte \cup {Junk}) /\ tag \in Block \cup {Junk} /\ ret \in {0, -1}
        /\ local \in Locals
    BY DEF IInv, StateInv
  <2>2. /\ local.ctx \in Memory(Key)
        /\ \A f \in DOMAIN local \ {"ctx"} : local[f] \in Memory(Block)
    BY <2>1 DEF Locals
  <2>3. /\ \A e \in sealings : e.pt \in Seq(Byte) /\ e.ct \in Sealed
        /\ \A e \in rejected : e.ct \in Sealed
    BY RoundsBelow DEF IInv, HistoryInv, GoodSealing, GoodRefusal
  <2>4. ghashIn # Junk => ghashIn.len \in Nat /\ ghashIn.buf \in Seq(Byte \cup {Junk})
    <3>1. CASE pc \in {"ctr", "auth"} /\ Allocated
      <4>1. /\ call.aad \in Seq(Byte) /\ call.data \in Seq(Byte)
            /\ SizeFits(call.aad, call.data)
        BY <3>1, GoodCallParam, TextsFit DEF IInv
      <4>2. BufSize(call.aad, call.data) \in Nat
        BY <4>1, LayoutFacts
      <4>3. [j \in 1 .. BufSize(call.aad, call.data) |-> Junk] \in Seq(Byte \cup {Junk})
        BY <4>2, JunkOut
      <4> QED
        BY <3>1, <4>3 DEF Allocated
    <3>2. ASSUME pc # "idle", NEW ct \in Texts, ghashIn = Layout(call.aad, ct)
          PROVE  ghashIn.len \in Nat /\ ghashIn.buf \in Seq(Byte \cup {Junk})
      <4>1. call.aad \in Texts /\ call.aad \in Seq(Byte)
        BY <3>2, GoodCallParam DEF IInv
      <4>2. PICK a \in Seq(Byte) : a = call.aad
        BY <4>1
      <4>3. SizeFits(a, ct) /\ ct \in Seq(Byte)
        BY <4>1, <4>2, TextsFit DEF Texts
      <4>6. Layout(a, ct).len \in Nat /\ Layout(a, ct).buf \in Seq(Byte)
        BY <4>3, LayoutFacts
      <4>4. PICK buf \in Seq(Byte) : buf = Layout(a, ct).buf
        BY <4>6
      <4>5. buf \in Seq(Byte \cup {Junk})
        OBVIOUS
      <4> QED
        BY <3>2, <4>2, <4>6, <4>4, <4>5
    <3>3. pc = "idle" => ghashIn = Junk
      BY DEF IInv, CleanExit
    <3> QED
      BY <3>1, <3>2, <3>3, HashInput
  <2> QED
    BY <2>1, <2>2, <2>3, <2>4 DEF TypeOK
<1> QED
  BY GcmInvariant, <1>1, PTL

\* AAD, text and length block fill the allocated buffer exactly, for all lengths.
THEOREM GcmInBounds == Spec => []InBounds
<1>1. IInv => InBounds
  <2> SUFFICES ASSUME IInv, pc = "check" PROVE ghashIn.len = Len(ghashIn.buf)
    BY DEF InBounds
  <2>1. /\ call.aad \in Texts /\ call.aad \in Seq(Byte)
        /\ call.data \in Texts /\ call.data \in Seq(Byte) /\ GoodParam(Param)
    BY GoodCallParam DEF IInv
  <2>2. PICK ct \in Texts : ghashIn = Layout(call.aad, ct)
    <3>1. PICK p : p = Param
      OBVIOUS
    <3>2. p.key \in Key /\ p.iv \in Seq(Byte)
      BY <2>1, <3>1 DEF GoodParam
    <3>3. CodeText(p, call.data) \in Texts
      <4>1. CodeText(p, call.data) \in Seq(Byte) /\ Len(CodeText(p, call.data)) = Len(call.data)
        BY <2>1, <3>2, CodeTextFacts
      <4> QED
        BY <2>1, <4>1 DEF Texts
    <3>4. Encrypting => out \in Texts
      BY <3>1, <3>3 DEF IInv, CheckInv
    <3> QED
      BY <2>1, <3>4 DEF IInv, CheckInv
  <2>3. PICK a \in Seq(Byte) : a = call.aad /\ SizeFits(a, ct)
    BY <2>1, TextsFit
  <2>4. Layout(a, ct).len = BufSize(a, ct) /\ Len(Layout(a, ct).buf) = BufSize(a, ct)
    <3>1. ct \in Seq(Byte)
      BY DEF Texts
    <3> QED
      BY <2>3, <3>1, LayoutFacts
  <2> QED
    BY <2>2, <2>3, <2>4
<1> QED
  BY GcmInvariant, <1>1, PTL

\* On every way out ghash_input is freed and the round keys, H, J0, S and the computed
\* tag are wiped or never written.
THEOREM GcmCleanExit == Spec => []CleanExit
<1>1. IInv => CleanExit
  BY DEF IInv
<1> QED
  BY GcmInvariant, <1>1, PTL

\* sm4_gcm_decrypt has written no byte of text unless the tag it was given is the one
\* sm4_gcm_encrypt computes, and a call that fails has written nothing.
THEOREM GcmTextOnlyAfterTag == Spec => [](TextOnlyAfterTag /\ FailureWritesNothing)
<1>1. IInv => TextOnlyAfterTag /\ FailureWritesNothing
  BY DEF IInv
<1> QED
  BY GcmInvariant, <1>1, PTL

\* The counter blocks of one call differ, however many bytes the text has and wherever
\* its counter wraps; those of calls with different IVs of the recommended length differ.
THEOREM GcmNoKeystreamReuse == Spec => []NoKeystreamReuse
<1>1. IInv => NoKeystreamReuse
  <2> SUFFICES ASSUME IInv PROVE NoKeystreamReuse
    OBVIOUS
  <2>1. \A s \in streams : GoodStream(s)
    BY DEF IInv, StreamInv
  <2>2. \A s \in streams : \A a, b \in DOMAIN s.used : a # b => s.used[a] # s.used[b]
    BY <2>1 DEF GoodStream
  <2>3. ASSUME NEW s \in streams, NEW t \in streams, s.iv # t.iv, Len(s.iv) = Split,
               Len(t.iv) = Split, NEW x, x \in ToSet(s.used), x \in ToSet(t.used)
        PROVE  FALSE
    <3>1. /\ s.key \in Key /\ s.iv \in Seq(Byte) /\ t.key \in Key /\ t.iv \in Seq(Byte)
          /\ \A a \in DOMAIN s.used : \A j \in 1 .. Split : s.used[a][j] = Start(s)[j]
          /\ \A a \in DOMAIN t.used : \A j \in 1 .. Split : t.used[a][j] = Start(t)[j]
      BY <2>1 DEF GoodStream
    <3>2. PICK a \in DOMAIN s.used : x = s.used[a]
      BY <2>3 DEF ToSet
    <3>3. PICK b \in DOMAIN t.used : x = t.used[b]
      BY <2>3 DEF ToSet
    <3>4. \A j \in 1 .. Split : Start(s)[j] = s.iv[j]
      BY <2>3, <3>1, StartType
    <3>5. \A j \in 1 .. Split : Start(t)[j] = t.iv[j]
      BY <2>3, <3>1, StartType
    <3>6. \A j \in 1 .. Split : s.iv[j] = t.iv[j]
      <4> TAKE j \in 1 .. Split
      <4>1. x[j] = Start(s)[j]
        BY <3>1, <3>2
      <4>2. x[j] = Start(t)[j]
        BY <3>1, <3>3
      <4> QED
        BY <3>4, <3>5, <4>1, <4>2
    <3> QED
      BY <2>3, <3>1, <3>6, SameSeq
  <2> QED
    BY <2>2, <2>3 DEF NoKeystreamReuse
<1> QED
  BY GcmInvariant, <1>1, PTL

\* The bytes that are hashed determine the AAD and the ciphertext.
THEOREM GcmHashInputInjective == Spec => []HashInputInjective
<1>1. IInv => HashInputInjective
  <2> SUFFICES ASSUME IInv, NEW e \in sealings, NEW f \in sealings, e.authed = f.authed
               PROVE  e.param.aad = f.param.aad /\ e.ct.ct = f.ct.ct
    BY DEF HashInputInjective
  <2>1. GoodSealing(e) /\ GoodSealing(f)
    BY DEF IInv, HistoryInv
  <2>2. PICK a \in Texts, c \in Texts : a = e.param.aad /\ c = e.ct.ct
    BY <2>1 DEF GoodSealing, GoodParam
  <2>3. PICK b \in Texts, d \in Texts : b = f.param.aad /\ d = f.ct.ct
    BY <2>1 DEF GoodSealing, GoodParam
  <2>4. Layout(a, c).buf = Layout(b, d).buf
    BY <2>1, <2>2, <2>3 DEF GoodSealing
  <2>5. {a, b, c, d} \subseteq Seq(Byte) /\ {Len(a), Len(b), Len(c), Len(d)} \subseteq Lengths
    BY DEF Texts
  <2>6. a = b /\ c = d
    <3>1. SizeFits(a, c) /\ SizeFits(b, d)
      BY TextsFit
    <3> QED
      BY <2>4, <2>5, <3>1, LayoutInjective
  <2> QED
    BY <2>2, <2>3, <2>6
<1> QED
  BY GcmInvariant, <1>1, PTL

\* What is sealed or opened has the ciphertext and the tag GCM defines for its text.
TextsMatch ==
  \A e \in sealings :
     e.ct.ct = TextOf(e.param, e.pt) /\ e.ct.tag = TagFor(e.param, e.ct.ct)

\* Every ciphertext and tag the two functions ever sealed or opened are those of the
\* definition of GCM, for every block cipher and IVs and texts of every length.
THEOREM GcmTextsMatch == Spec => []TextsMatch
<1>1. IInv => TextsMatch
  <2> SUFFICES ASSUME IInv, NEW e \in sealings
               PROVE  e.ct.ct = TextOf(e.param, e.pt) /\ e.ct.tag = TagFor(e.param, e.ct.ct)
    BY DEF TextsMatch
  <2>1. PICK p, c : p = e.param /\ c = e.ct.ct
    OBVIOUS
  <2>2. p.key \in Key /\ p.iv \in Seq(Byte) /\ p.aad \in Seq(Byte) /\ c \in Seq(Byte)
    BY <2>1 DEF IInv, HistoryInv, GoodSealing, GoodParam, Texts
  <2>3. c = CodeText(p, e.pt) /\ e.ct.tag = CodeTag(p, c)
    BY <2>1 DEF IInv, HistoryInv, GoodSealing
  <2>4. CodeText(p, e.pt) = TextOf(p, e.pt)
    BY <2>2, TextOfIs
  <2>5. CodeTag(p, c) = TagFor(p, c)
    <3>1. p.aad \in Texts /\ c \in Texts
      BY <2>1 DEF IInv, HistoryInv, GoodSealing, GoodParam
    <3>2. SizeFits(p.aad, c)
      BY <3>1, TextsFit
    <3> QED
      BY <2>2, <3>2, TagForIs
  <2> QED
    BY <2>1, <2>3, <2>4, <2>5
<1> QED
  BY GcmInvariant, <1>1, PTL

LEMMA SealedOnce ==
  ASSUME NEW e, GoodSealing(e), NEW f, GoodSealing(f), e.param = f.param
  PROVE  e.pt = f.pt <=> e.ct = f.ct
<1>1. PICK p : p = e.param /\ p = f.param
  OBVIOUS
<1>2. p.key \in Key /\ p.iv \in Seq(Byte)
  BY <1>1 DEF GoodSealing, GoodParam
<1>3. /\ e.ct \in Sealed /\ e.ct.ct = CodeText(p, e.pt) /\ e.ct.tag = CodeTag(p, e.ct.ct)
      /\ f.ct \in Sealed /\ f.ct.ct = CodeText(p, f.pt) /\ f.ct.tag = CodeTag(p, f.ct.ct)
      /\ e.pt \in Texts /\ f.pt \in Texts
  BY <1>1 DEF GoodSealing
<1>4. e.pt \in Seq(Byte) /\ f.pt \in Seq(Byte)
  BY <1>3, RoundsBelow
<1>5. CodeText(p, CodeText(p, e.pt)) = e.pt /\ CodeText(p, CodeText(p, f.pt)) = f.pt
  BY <1>2, <1>4, CodeTextFacts
<1>6. e.ct.ct = f.ct.ct /\ e.ct.tag = f.ct.tag => e.ct = f.ct
  BY <1>3 DEF Sealed
<1> QED
  BY <1>3, <1>5, <1>6

LEMMA BoxEntries ==
  ASSUME HistoryInv
  PROVE  Box!Bijective /\ Box!NeverBoth
<1>1. ASSUME NEW e \in sealings, NEW f \in sealings, e.param = f.param
      PROVE  e.pt = f.pt <=> e.ct = f.ct
  BY <1>1, SealedOnce DEF HistoryInv
<1>2. ASSUME NEW e \in sealings, NEW r \in rejected, e.param = r.param PROVE e.ct # r.ct
  BY <1>2 DEF HistoryInv, GoodSealing, GoodRefusal
<1> QED
  BY <1>1, <1>2 DEF Box!Bijective, Box!NeverBoth

\* Sealing and opening are one bijection between the texts and what sm4_gcm_decrypt
\* accepts, and what it refuses is never produced by sm4_gcm_encrypt.
THEOREM GcmRefinement == Spec => ImplementsBox
<1> DEFINE table == {[param |-> e.param, pt |-> e.pt, ct |-> e.ct] : e \in sealings}
<1>1. Init => Box!Init
  BY DEF Init, Box!Init
<1>2. IInv /\ [Next]_vars => [Box!Next]_<<table, rejected>>
  <2> SUFFICES ASSUME IInv, [Next]_vars PROVE [Box!Next]_<<table, rejected>>
    OBVIOUS
  <2>1. IInv' /\ BoxStep
    BY NextPreserves
  <2>2. (Box!Bijective /\ Box!NeverBoth)'
    BY <2>1, BoxEntries, PTL DEF IInv
  <2>3. CASE UNCHANGED <<sealings, rejected>>
    BY <2>3
  <2>4. ASSUME NEW e, GoodSealing(e), sealings' = sealings \cup {e}, rejected' = rejected
        PROVE  Box!Answer
    <3>1. PICK x : x = [param |-> e.param, pt |-> e.pt, ct |-> e.ct]
      OBVIOUS
    <3>2. x \in Box!Entry
      <4>1. e.pt \in Seq(Byte)
        BY <2>4, RoundsBelow DEF GoodSealing
      <4> QED
        BY <2>4, <3>1, <4>1 DEF GoodSealing, GoodParam, Box!Entry
    <3>3. table' = table \cup {x} /\ x \in table'
      BY <2>4, <3>1
    <3> QED
      BY <2>4, <3>2, <3>3 DEF Box!Answer
  <2>5. ASSUME NEW r, GoodRefusal(r), rejected' = rejected \cup {r}, sealings' = sealings
        PROVE  Box!Refuse
    <3>1. r \in Box!Refusal /\ r \in rejected'
      BY <2>5 DEF GoodRefusal, Box!Refusal
    <3>2. table' = table
      BY <2>5
    <3> QED
      BY <2>5, <3>1, <3>2 DEF Box!Refuse
  <2>6. CASE Box!Answer \/ Box!Refuse
    BY <2>2, <2>6 DEF Box!Next
  <2> QED
    BY <2>1, <2>3, <2>4, <2>5, <2>6 DEF BoxStep
<1> QED
  BY GcmInvariant, <1>1, <1>2, PTL DEF Spec, ImplementsBox, Box!Spec

-----------------------------------------------------------------------------
(* The answers *)

\* The arguments of a call outlive it.
CalledInv ==
  \/ call = [fn |-> "none"] /\ calls = 0
  \/ /\ call.key \in Key /\ call.iv \in Seq(Byte)
     /\ call.aad \in Texts /\ call.data \in Texts

\* What a call that succeeded has left.
Answered ==
  /\ out = CodeText(Param, call.data)
  /\ IF Encrypting THEN tag = CodeTag(Param, out) ELSE call.given = CodeTag(Param, call.data)

AnswerInv == CalledInv /\ (pc = "idle" /\ ret = 0 /\ calls > 0 => Answered)

LEMMA AnswerPreserved ==
  ASSUME IInv, AnswerInv, [Next]_vars
  PROVE  AnswerInv'
<1>1. ASSUME NEW fn, NEW key \in Key, NEW iv \in IVs, NEW aad \in AADs, NEW data \in Texts,
             NEW given, Call(fn, key, iv, aad, data, given)
      PROVE  AnswerInv'
  <2>1. /\ call' = [fn |-> fn, key |-> key, iv |-> iv, aad |-> aad, data |-> data, given |-> given]
        /\ pc' = "malloc"
    BY <1>1 DEF Call
  <2>2. iv \in Seq(Byte) /\ aad \in Texts
    BY InputAssumption, InputTexts
  <2>3. /\ call'.key \in Key /\ call'.iv \in Seq(Byte)
        /\ call'.aad \in Texts /\ call'.data \in Texts
    BY <2>1, <2>2
  <2> QED
    BY <2>1, <2>3 DEF AnswerInv, CalledInv
<1>2. ASSUME NEW key \in Key, NEW iv \in IVs, NEW aad \in AADs,
             NEW m \in Messages, CallEncrypt(key, iv, aad, m)
      PROVE  AnswerInv'
  <2>1. m \in Texts
    BY InputTexts
  <2> QED
    BY <1>1, <1>2, <2>1 DEF CallEncrypt
<1>3. ASSUME NEW key \in Key, NEW iv \in IVs, NEW aad \in AADs,
             NEW c \in Strays \cup Known \cup UNION {Damaged(d) : d \in Known},
             CallDecrypt(key, iv, aad, c)
      PROVE  AnswerInv'
  <2>1. \A d \in Known : d \in Sealed /\ d.ct \in Texts /\ d.tag \in Block
    BY DEF IInv, HistoryInv, GoodSealing, Known, Sealed
  <2>2. c.ct \in Texts
    <3>1. CASE c \in Strays
      BY <3>1, InputTexts
    <3>2. CASE c \in Known
      BY <2>1, <3>2
    <3>3. ASSUME NEW d \in Known, c \in Damaged(d) PROVE c.ct \in Texts
      BY <2>1, <3>3, DamagedType
    <3> QED
      BY <3>1, <3>2, <3>3
  <2>3. Call("decrypt", key, iv, aad, c.ct, c.tag)
    BY <1>3 DEF CallDecrypt
  <2> QED
    BY <1>1, <2>2, <2>3
<1>4. ASSUME UNCHANGED <<call, calls>>, pc' # "idle" \/ ret' # 0 PROVE AnswerInv'
  BY <1>4 DEF AnswerInv, CalledInv
<1>5. ASSUME UNCHANGED <<call, calls, out, tag>>, Answered PROVE AnswerInv'
  BY <1>5 DEF AnswerInv, CalledInv, Answered, Encrypting, Param
<1>6. ASSUME MallocFails \/ RejectTag PROVE AnswerInv'
  <2>1. UNCHANGED <<call, calls>> /\ ret' = -1
    BY <1>6 DEF MallocFails, RejectTag, Return
  <2> QED
    BY <1>4, <2>1
<1>7. ASSUME Prepare \/ CtrBlock \/ EncryptTag \/ DecryptTag \/ AcceptTag PROVE AnswerInv'
  <2>1. UNCHANGED <<call, calls>>
    BY <1>7 DEF Prepare, CtrBlock, EncryptTag, DecryptTag, AcceptTag
  <2>2. pc' # "idle"
    BY <1>7 DEF Prepare, CtrBlock, EncryptTag, DecryptTag, AcceptTag, EnterCtr
  <2> QED
    BY <1>4, <2>1, <2>2
<1>8. CASE FinishEncrypt
  <2>1. pc = "check" /\ Encrypting /\ UNCHANGED <<call, calls, out, tag>>
    BY <1>8 DEF FinishEncrypt
  <2>2. Answered
    BY <2>1 DEF IInv, CheckInv, Answered
  <2> QED
    BY <1>5, <2>1, <2>2
<1>9. CASE FinishDecrypt
  <2>1. pc = "ctr" /\ ~Encrypting /\ i >= Len(call.data) /\ UNCHANGED <<call, calls, out, tag>>
    BY <1>9 DEF FinishDecrypt
  <2>2. out = CodeText(Param, call.data)
    BY <2>1, LoopDone
  <2>3. call.given = CodeTag(Param, call.data)
    BY <2>1 DEF IInv, CtrInv
  <2>4. Answered
    BY <2>1, <2>2, <2>3 DEF Answered
  <2> QED
    BY <1>5, <2>1, <2>4
<1>10. CASE UNCHANGED vars
  BY <1>10 DEF vars, AnswerInv, CalledInv, Answered, Encrypting, Param
<1>11. CASE Next
  BY <1>2, <1>3, <1>6, <1>7, <1>8, <1>9, <1>11 DEF Next
<1> QED
  BY <1>10, <1>11

\* In terms of the definition of GCM.
LEMMA AsDefined ==
  ASSUME CalledInv, calls # 0 \/ call.fn # "none", NEW data \in Texts
  PROVE  CodeText(Param, data) = TextOf(Param, data) /\ CodeTag(Param, data) = TagFor(Param, data)
<1>1. /\ call.key \in Key /\ call.iv \in Seq(Byte)
      /\ call.aad \in Texts /\ call.data \in Texts /\ data \in Seq(Byte)
  BY DEF CalledInv, Texts
<1>2. PICK p : p = Param
  OBVIOUS
<1>3. p.key \in Key /\ p.iv \in Seq(Byte) /\ p.aad \in Seq(Byte) /\ SizeFits(p.aad, data)
  BY <1>1, <1>2, TextsFit DEF Param, Texts
<1>4. CodeText(p, data) = TextOf(p, data)
  BY <1>1, <1>3, TextOfIs
<1>5. CodeTag(p, data) = TagFor(p, data)
  BY <1>1, <1>3, TagForIs
<1> QED
  BY <1>2, <1>4, <1>5

\* The arguments of a call stay as they were given, and a call that returned 0 has left
\* the text and the tag the code's own functions give.
THEOREM GcmAnswers == Spec => []AnswerInv
<1>1. Init => AnswerInv
  BY DEF Init, AnswerInv, CalledInv
<1>2. IInv /\ AnswerInv /\ [Next]_vars => AnswerInv'
  BY AnswerPreserved
<1> QED
  BY <1>1, <1>2, GcmInvariant, PTL DEF Spec

\* sm4_gcm_decrypt has written no byte of plaintext unless the tag it was given is the
\* one that the definition of GCM gives.
THEOREM GcmOnlyAuthenticPlaintext == Spec => []OnlyAuthenticPlaintext
<1>1. IInv /\ AnswerInv => OnlyAuthenticPlaintext
  <2> SUFFICES ASSUME IInv, AnswerInv PROVE OnlyAuthenticPlaintext
    OBVIOUS
  <2>1. ASSUME call.fn = "decrypt", \E j \in DOMAIN out : out[j] # Junk
        PROVE  call.given = TagFor(Param, call.data)
    <3>1. call.given = CodeTag(Param, call.data)
      BY <2>1 DEF IInv, TextOnlyAfterTag
    <3>2. CalledInv /\ call.fn # "none"
      BY <2>1 DEF AnswerInv
    <3>3. call.data \in Texts
      BY <3>2 DEF CalledInv
    <3>4. CodeTag(Param, call.data) = TagFor(Param, call.data)
      BY <3>2, <3>3, AsDefined
    <3> QED
      BY <3>1, <3>4
  <2>2. ASSUME pc = "idle", ret = -1 PROVE tag = Junk /\ \A j \in DOMAIN out : out[j] = Junk
    <3>1. tag = Junk /\ \A j \in 1 .. Len(out) : out[j] = Junk
      BY <2>2 DEF IInv, FailureWritesNothing, Unwritten
    <3>2. DOMAIN out = 1 .. Len(out)
      BY LenProperties DEF IInv, StateInv
    <3> QED
      BY <3>1, <3>2
  <2> QED
    BY <2>1, <2>2 DEF OnlyAuthenticPlaintext
<1> QED
  BY <1>1, GcmInvariant, GcmAnswers, PTL

\* What sm4_gcm_encrypt and sm4_gcm_decrypt answer is what the definition of GCM says.
THEOREM GcmMatchesDefinition == Spec => []MatchesDefinition
<1>1. IInv /\ AnswerInv => MatchesDefinition
  <2> SUFFICES ASSUME IInv, AnswerInv, pc = "idle", ret = 0, calls > 0
               PROVE  /\ out = TextOf(Param, call.data)
                      /\ IF Encrypting THEN tag = TagFor(Param, out)
                         ELSE call.given = TagFor(Param, call.data)
    BY DEF MatchesDefinition
  <2>1. Answered /\ CalledInv /\ calls # 0
    BY DEF AnswerInv, IInv, StateInv
  <2>2. call.data \in Texts /\ call.data \in Seq(Byte) /\ call.key \in Key /\ call.iv \in Seq(Byte)
    BY <2>1 DEF CalledInv, Texts
  <2>3. out \in Texts
    <3>1. PICK p : p = Param
      OBVIOUS
    <3>2. p.key \in Key /\ p.iv \in Seq(Byte)
      BY <2>2, <3>1 DEF Param
    <3>3. CodeText(p, call.data) \in Seq(Byte) /\ Len(CodeText(p, call.data)) = Len(call.data)
      BY <2>2, <3>2, CodeTextFacts
    <3> QED
      BY <2>1, <2>2, <3>1, <3>3 DEF Answered, Texts
  <2>4. CodeText(Param, call.data) = TextOf(Param, call.data)
    BY <2>1, <2>2, AsDefined
  <2>5. CodeTag(Param, call.data) = TagFor(Param, call.data)
    BY <2>1, <2>2, AsDefined
  <2>6. CodeTag(Param, out) = TagFor(Param, out)
    BY <2>1, <2>3, AsDefined
  <2> QED
    BY <2>1, <2>4, <2>5, <2>6 DEF Answered
<1> QED
  BY <1>1, GcmInvariant, GcmAnswers, PTL

=============================================================================

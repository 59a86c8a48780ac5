--------------------------- MODULE SM4BlockProofs ---------------------------
(***************************************************************************)
(* Theorems about the block layer of sm4_c/sm4.c, for every word type with   *)
(* an exclusive or, every pair of round functions and every number of        *)
(* rounds.                                                                   *)
(***************************************************************************)
EXTENDS SM4Block, TLAPS

-----------------------------------------------------------------------------
(* The inductive invariant *)

\* k[j] of sm4_setkey: the key whitened with FK, then the round keys.
K(key, roundKeys, j) == IF j <= 3 THEN Xor(key[j], FK[j]) ELSE roundKeys[j - 4]

\* roundKeys[0 .. n-1] are the first n round keys of key.
Scheduled(key, roundKeys, n) ==
  \A j \in 0 .. n - 1 :
    roundKeys[j] = Xor(K(key, roundKeys, j),
                       TPrime(Mix(K(key, roundKeys, j + 1), K(key, roundKeys, j + 2),
                                  K(key, roundKeys, j + 3), CK[j])))

\* x is the array of an encryption under roundKeys.
Enciphered(x, roundKeys) ==
  \A j \in 0 .. NumRounds - 1 : x[j + 4] = CipherRound(x, j, roundKeys[j])

\* Four consecutive words of x from m on are those of y from n on.
SameWindow(x, m, y, n) ==
  /\ x[m] = y[n]
  /\ x[m + 1] = y[n + 1]
  /\ x[m + 2] = y[n + 2]
  /\ x[m + 3] = y[n + 3]

\* The same, y being read towards lower indices.
MirrorWindow(x, m, y, n) ==
  /\ x[m] = y[n]
  /\ x[m + 1] = y[n - 1]
  /\ x[m + 2] = y[n - 2]
  /\ x[m + 3] = y[n - 3]

\* How many round keys of the context belong to the key it was last given.
Known == IF op = "setkey" THEN i ELSE NumRounds

ScheduleInv ==
  keyed # NoKey =>
    /\ Scheduled(keyed, rk, Known)
    /\ op = "setkey" => \A j \in 0 .. i + 3 : buf[j] = K(keyed, rk, j)
    /\ \A r \in runs : r.key = keyed => \A j \in 0 .. Known - 1 : rk[j] = r.rk[j]

RunsInv ==
  /\ \A r \in runs : Enciphered(r.x, r.rk)
  /\ \A r \in runs : Scheduled(r.key, r.rk, NumRounds)
  /\ \A r, s \in runs : r.key = s.key => r.rk = s.rk

EncryptInv ==
  op = "encrypt" =>
    /\ \A j \in 0 .. i - 1 : buf[j + 4] = CipherRound(buf, j, rk[j])
    /\ \A r \in runs : r.key = keyed =>
         (SameWindow(buf, i, r.x, i) <=> SameWindow(buf, 0, r.x, 0))

DecryptInv ==
  op = "decrypt" =>
    /\ \A j \in 0 .. i - 1 :
         buf[j + 4] = CipherRound(buf, j, rk[NumRounds - 1 - j])
    /\ \A r \in runs : r.key = keyed =>
         (MirrorWindow(buf, i, r.x, Last - i) <=> MirrorWindow(buf, 0, r.x, Last))

WindowBijective ==
  \A r, s \in runs : r.key = s.key =>
    (SameWindow(r.x, 0, s.x, 0) <=> SameWindow(r.x, NumRounds, s.x, NumRounds))

IInv ==
  /\ TypeOK
  /\ ScheduleInv
  /\ RunsInv
  /\ EncryptInv
  /\ DecryptInv
  /\ WindowBijective

-----------------------------------------------------------------------------
(* Words *)

\* The argument of T is a word, and the three middle words of a round may be
\* met in either order: sm4_decrypt_block meets them from last to first.
LEMMA MixWord ==
  ASSUME NEW a \in Word, NEW b \in Word, NEW c \in Word, NEW d \in Word
  PROVE  /\ Mix(a, b, c, d) \in Word
         /\ Mix(a, b, c, d) = Mix(c, b, a, d)
<1>1. /\ Xor(a, b) \in Word /\ Xor(b, c) \in Word /\ Xor(c, b) \in Word
      /\ Xor(Xor(a, b), c) \in Word
  BY XorAssumption
<1>2. Xor(Xor(a, b), c) = Xor(Xor(c, b), a)
  <2>1. Xor(Xor(a, b), c) = Xor(a, Xor(b, c))
    BY XorAssumption
  <2>2. Xor(a, Xor(b, c)) = Xor(Xor(b, c), a)
    BY <1>1, XorAssumption
  <2>3. Xor(b, c) = Xor(c, b)
    BY XorAssumption
  <2> QED
    BY <2>1, <2>2, <2>3
<1> QED
  BY <1>1, <1>2, XorAssumption DEF Mix

\* One round is undone by a round with the words in reverse order and the same
\* round key.
LEMMA RoundInverse ==
  ASSUME NEW a \in Word, NEW b \in Word, NEW c \in Word, NEW d \in Word,
         NEW k \in Word
  PROVE  /\ Xor(a, T(Mix(b, c, d, k))) \in Word
         /\ Xor(Xor(a, T(Mix(b, c, d, k))), T(Mix(d, c, b, k))) = a
<1>1. T(Mix(b, c, d, k)) \in Word
  BY MixWord, RoundFunctionAssumption
<1>2. T(Mix(b, c, d, k)) = T(Mix(d, c, b, k))
  BY MixWord
<1> QED
  BY <1>1, <1>2, XorAssumption

\* A round maps equal windows to equal windows and different ones to different.
LEMMA RoundInjective ==
  ASSUME NEW a \in Word, NEW b \in Word, NEW c \in Word, NEW d \in Word,
         NEW e \in Word, NEW k \in Word
  PROVE  a = e <=> Xor(a, T(Mix(b, c, d, k))) = Xor(e, T(Mix(b, c, d, k)))
<1>1. Xor(Xor(a, T(Mix(b, c, d, k))), T(Mix(d, c, b, k))) = a
  BY RoundInverse
<1>2. Xor(Xor(e, T(Mix(b, c, d, k))), T(Mix(d, c, b, k))) = e
  BY RoundInverse
<1> QED
  BY <1>1, <1>2

\* x[j], ..., x[j+3] hold words.
WordsAt(x, j) == /\ x[j] \in Word /\ x[j + 1] \in Word
                 /\ x[j + 2] \in Word /\ x[j + 3] \in Word

\* The same of two arrays whose last three words of the round agree.
LEMMA RoundWindow ==
  ASSUME NEW x, NEW j, NEW y, NEW n, NEW k \in Word, WordsAt(x, j), WordsAt(y, n),
         x[j + 1] = y[n + 1], x[j + 2] = y[n + 2], x[j + 3] = y[n + 3]
  PROVE  x[j] = y[n] <=> CipherRound(x, j, k) = CipherRound(y, n, k)
<1>1. PICK a \in Word, b \in Word, c \in Word, d \in Word, e \in Word :
        a = x[j] /\ b = y[n + 1] /\ c = y[n + 2] /\ d = y[n + 3] /\ e = y[n]
  BY DEF WordsAt
<1>2. a = e <=> Xor(a, T(Mix(b, c, d, k))) = Xor(e, T(Mix(b, c, d, k)))
  BY RoundInjective
<1> QED
  BY <1>1, <1>2 DEF CipherRound

\* A round run backwards: met from last to first with the same round key, the
\* words after a round give back the word it replaced, and no other word does.
LEMMA MirrorRound ==
  ASSUME NEW y, NEW m, NEW k \in Word, NEW a \in Word, WordsAt(y, m)
  PROVE  a = CipherRound(y, m, k) <=>
           Xor(a, T(Mix(y[m + 3], y[m + 2], y[m + 1], k))) = y[m]
<1>1. PICK b \in Word, c \in Word, d \in Word, e \in Word :
        b = y[m + 3] /\ c = y[m + 2] /\ d = y[m + 1] /\ e = y[m]
  BY DEF WordsAt
<1>2. PICK f \in Word : f = Xor(e, T(Mix(d, c, b, k)))
  BY RoundInverse
<1>3. Xor(f, T(Mix(b, c, d, k))) = e
  BY <1>2, RoundInverse
<1>4. a = f <=> Xor(a, T(Mix(b, c, d, k))) = Xor(f, T(Mix(b, c, d, k)))
  BY RoundInjective
<1> QED
  BY <1>1, <1>2, <1>3, <1>4 DEF CipherRound

\* A round of either loop computes a word from words.
LEMMA RoundWord ==
  ASSUME NEW x, NEW j, WordsAt(x, j), NEW k \in Word
  PROVE  CipherRound(x, j, k) \in Word
BY RoundInverse DEF CipherRound, WordsAt

LEMMA ScheduleWord ==
  ASSUME NEW x, NEW j \in 0 .. NumRounds - 1, WordsAt(x, j)
  PROVE  ScheduleRound(x, j) \in Word
<1>1. CK[j] \in Word
  BY WordAssumption
<1>2. TPrime(Mix(x[j + 1], x[j + 2], x[j + 3], CK[j])) \in Word
  <2>1. Mix(x[j + 1], x[j + 2], x[j + 3], CK[j]) \in Word
    BY <1>1, MixWord DEF WordsAt
  <2> QED
    BY <2>1, RoundFunctionAssumption
<1> QED
  BY <1>2, XorAssumption DEF ScheduleRound, WordsAt

-----------------------------------------------------------------------------
(* Type correctness *)

LEMMA TypeStep == TypeOK /\ [Next]_vars => TypeOK'
<1> USE WordAssumption
<1> SUFFICES ASSUME TypeOK, [Next]_vars PROVE TypeOK'
  OBVIOUS
<1> USE DEF TypeOK, Ops, Last, Quad
<1>1. ASSUME NEW key \in Keys, StartSetKey(key) PROVE TypeOK'
  <2>1. \A j \in 0 .. 3 : Xor(key[j], FK[j]) \in Word
    <3>1. key \in Quad
      BY Zenon
    <3> QED
      BY <3>1, XorAssumption
  <2> QED
    BY <1>1, <2>1 DEF StartSetKey, Loaded
<1>2. CASE SetKeyRound
  <2>1. ScheduleRound(buf, i) \in Word
    <3>1. i \in 0 .. NumRounds - 1 /\ WordsAt(buf, i)
      BY <1>2 DEF SetKeyRound, WordsAt
    <3> QED
      BY <3>1, ScheduleWord
  <2> QED
    BY <1>2, <2>1 DEF SetKeyRound
<1>3. CASE ReturnSetKey
  BY <1>3 DEF ReturnSetKey, Wiped, Cleared
<1>4. ASSUME NEW block \in Quad, StartEncrypt(block) PROVE TypeOK'
  BY <1>4 DEF StartEncrypt, Loaded
<1>5. CASE EncryptRound
  <2>1. CipherRound(buf, i, rk[i]) \in Word
    <3>1. WordsAt(buf, i) /\ rk[i] \in Word
      BY <1>5 DEF EncryptRound, WordsAt
    <3> QED
      BY <3>1, RoundWord
  <2> QED
    BY <1>5, <2>1 DEF EncryptRound
<1>6. CASE ReturnEncrypt
  <2>1. [key |-> keyed, rk |-> rk, x |-> buf] \in Run
    BY <1>6 DEF ReturnEncrypt, Run
  <2> QED
    BY <1>6, <2>1 DEF ReturnEncrypt, Wiped, Cleared
<1>7. ASSUME NEW block \in Quad, StartDecrypt(block) PROVE TypeOK'
  BY <1>7 DEF StartDecrypt, Loaded
<1>8. CASE DecryptRound
  <2>1. CipherRound(buf, i, rk[NumRounds - 1 - i]) \in Word
    <3>1. WordsAt(buf, i) /\ rk[NumRounds - 1 - i] \in Word
      BY <1>8 DEF DecryptRound, WordsAt
    <3> QED
      BY <3>1, RoundWord
  <2> QED
    BY <1>8, <2>1 DEF DecryptRound
<1>9. CASE ReturnDecrypt
  <2>1. [key |-> keyed, rk |-> rk, x |-> Reversed(buf)] \in Run
    BY <1>9 DEF ReturnDecrypt, Run, Reversed
  <2> QED
    BY <1>9, <2>1 DEF ReturnDecrypt, Wiped, Cleared
<1>10. CASE Clean
  BY <1>10 DEF Clean
<1>11. CASE UNCHANGED vars
  BY <1>11 DEF vars
<1>12. Presented \subseteq Quad
  BY DEF Presented, Cipher, Run
<1> QED
  BY <1>1, <1>2, <1>3, <1>4, <1>5, <1>6, <1>7, <1>8, <1>9, <1>10, <1>11, <1>12
  DEF Next

\* Every variable keeps its type, and no loop of sm4_setkey, sm4_encrypt_block
\* or sm4_decrypt_block reads a word that was not written before.
THEOREM TypeCorrect == Spec => []TypeOK
<1>1. Init => TypeOK
  BY WordAssumption DEF Init, TypeOK, Ops, Cleared, Last, Quad
<1> QED
  BY <1>1, TypeStep, PTL DEF Spec

-----------------------------------------------------------------------------
(* The invariant is inductive: sm4_setkey *)

\* K reads only round keys that the schedule has already produced.
LEMMA KPrefix ==
  ASSUME NEW key, NEW p, NEW q, NEW n \in Nat,
         \A j \in 0 .. n - 1 : p[j] = q[j]
  PROVE  \A j \in 0 .. n + 3 : K(key, p, j) = K(key, q, j)
<1> SUFFICES ASSUME NEW j \in 0 .. n + 3 PROVE K(key, p, j) = K(key, q, j)
  OBVIOUS
<1>1. CASE j <= 3
  BY <1>1 DEF K
<1>2. CASE j > 3
  <2>1. j - 4 \in 0 .. n - 1
    BY <1>2
  <2> QED
    BY <1>2, <2>1 DEF K
<1> QED
  BY <1>1, <1>2

LEMMA SetKeyRoundInv ==
  ASSUME IInv, SetKeyRound PROVE ScheduleInv'
<1> USE WordAssumption
<1>0. /\ op = "setkey" /\ op' = "setkey" /\ keyed' = keyed /\ keyed # NoKey
      /\ i \in Nat /\ i < NumRounds /\ i' = i + 1 /\ runs' = runs
  BY DEF IInv, TypeOK, SetKeyRound
<1>1. /\ Scheduled(keyed, rk, i)
      /\ \A j \in 0 .. i + 3 : buf[j] = K(keyed, rk, j)
      /\ \A r \in runs : r.key = keyed => \A j \in 0 .. i - 1 : rk[j] = r.rk[j]
  BY <1>0 DEF IInv, ScheduleInv, Known
<1>2. /\ \A j \in 0 .. i - 1 : rk'[j] = rk[j]
      /\ rk'[i] = ScheduleRound(buf, i)
      /\ \A j \in 0 .. i + 3 : buf'[j] = buf[j]
      /\ buf'[i + 4] = ScheduleRound(buf, i)
  BY <1>0 DEF IInv, TypeOK, SetKeyRound, Last
<1>3. \A j \in 0 .. i + 3 : K(keyed, rk', j) = K(keyed, rk, j)
  BY <1>0, <1>2, KPrefix
<1>4. ScheduleRound(buf, i) =
        Xor(K(keyed, rk', i),
            TPrime(Mix(K(keyed, rk', i + 1), K(keyed, rk', i + 2),
                       K(keyed, rk', i + 3), CK[i])))
  <2>1. /\ buf[i] = K(keyed, rk', i) /\ buf[i + 1] = K(keyed, rk', i + 1)
        /\ buf[i + 2] = K(keyed, rk', i + 2) /\ buf[i + 3] = K(keyed, rk', i + 3)
    BY <1>0, <1>1, <1>3
  <2> QED
    BY <2>1 DEF ScheduleRound
<1>5. Scheduled(keyed, rk', i + 1)
  <2> SUFFICES ASSUME NEW j \in 0 .. i
               PROVE  rk'[j] = Xor(K(keyed, rk', j),
                                   TPrime(Mix(K(keyed, rk', j + 1), K(keyed, rk', j + 2),
                                              K(keyed, rk', j + 3), CK[j])))
    BY <1>0 DEF Scheduled
  <2>1. CASE j = i
    BY <1>2, <1>4, <2>1
  <2>2. CASE j \in 0 .. i - 1
    <3>1. rk[j] = Xor(K(keyed, rk, j),
                      TPrime(Mix(K(keyed, rk, j + 1), K(keyed, rk, j + 2),
                                 K(keyed, rk, j + 3), CK[j])))
      BY <1>1, <2>2 DEF Scheduled
    <3>2. /\ K(keyed, rk', j) = K(keyed, rk, j)
          /\ K(keyed, rk', j + 1) = K(keyed, rk, j + 1)
          /\ K(keyed, rk', j + 2) = K(keyed, rk, j + 2)
          /\ K(keyed, rk', j + 3) = K(keyed, rk, j + 3)
      BY <1>0, <1>3, <2>2
    <3> QED
      BY <1>2, <2>2, <3>1, <3>2
  <2> QED
    BY <1>0, <2>1, <2>2
<1>6. \A j \in 0 .. i + 4 : buf'[j] = K(keyed, rk', j)
  <2>1. buf'[i + 4] = K(keyed, rk', i + 4)
    BY <1>0, <1>2 DEF K
  <2> QED
    BY <1>0, <1>1, <1>2, <1>3, <2>1
<1>7. ASSUME NEW r \in runs, r.key = keyed
      PROVE  \A j \in 0 .. i : rk'[j] = r.rk[j]
  <2>1. \A j \in 0 .. i + 3 : K(keyed, rk, j) = K(keyed, r.rk, j)
    <3>1. PICK q : q = r.rk
      OBVIOUS
    <3>2. \A j \in 0 .. i - 1 : rk[j] = q[j]
      BY <1>1, <1>7, <3>1
    <3>3. \A j \in 0 .. i + 3 : K(keyed, rk, j) = K(keyed, q, j)
      <4> SUFFICES ASSUME NEW j \in 0 .. i + 3, j > 3 PROVE rk[j - 4] = q[j - 4]
        BY DEF K
      <4>1. j - 4 \in 0 .. i - 1
        BY <1>0
      <4> QED
        BY <3>2, <4>1
    <3> QED
      BY <3>1, <3>3
  <2>2. r.rk[i] = Xor(K(keyed, r.rk, i),
                      TPrime(Mix(K(keyed, r.rk, i + 1), K(keyed, r.rk, i + 2),
                                 K(keyed, r.rk, i + 3), CK[i])))
    BY <1>0, <1>7 DEF IInv, RunsInv, Scheduled
  <2>3. /\ K(keyed, rk', i) = K(keyed, r.rk, i)
        /\ K(keyed, rk', i + 1) = K(keyed, r.rk, i + 1)
        /\ K(keyed, rk', i + 2) = K(keyed, r.rk, i + 2)
        /\ K(keyed, rk', i + 3) = K(keyed, r.rk, i + 3)
    BY <1>0, <1>3, <2>1
  <2>4. rk'[i] = r.rk[i]
    BY <1>2, <1>4, <2>2, <2>3
  <2> QED
    BY <1>0, <1>1, <1>2, <1>7, <2>4
<1> QED
  BY <1>0, <1>5, <1>6, <1>7 DEF ScheduleInv, Known

-----------------------------------------------------------------------------
(* The invariant is inductive: the block loops *)

\* A round of the loop of sm4_encrypt_block against a round of an earlier run.
LEMMA EncryptRoundInv ==
  ASSUME IInv, EncryptRound PROVE EncryptInv'
<1> USE WordAssumption
<1>0. /\ op = "encrypt" /\ op' = "encrypt" /\ keyed' = keyed /\ keyed # NoKey
      /\ i \in Nat /\ i < NumRounds /\ i' = i + 1 /\ runs' = runs /\ rk' = rk
  BY DEF IInv, TypeOK, EncryptRound
<1>1. /\ \A j \in 0 .. i + 3 : buf'[j] = buf[j]
      /\ buf'[i + 4] = CipherRound(buf, i, rk[i])
  BY <1>0 DEF IInv, TypeOK, EncryptRound, Last
<1>2. \A j \in 0 .. i : buf'[j + 4] = CipherRound(buf', j, rk'[j])
  <2> SUFFICES ASSUME NEW j \in 0 .. i
               PROVE  buf'[j + 4] = CipherRound(buf', j, rk[j])
    BY <1>0
  <2>1. CipherRound(buf', j, rk[j]) = CipherRound(buf, j, rk[j])
    BY <1>0, <1>1 DEF CipherRound
  <2>2. CASE j = i
    BY <1>1, <2>1, <2>2
  <2>3. CASE j \in 0 .. i - 1
    <3>1. buf[j + 4] = CipherRound(buf, j, rk[j])
      BY <1>0, <2>3 DEF IInv, EncryptInv
    <3> QED
      BY <1>0, <1>1, <2>1, <2>3, <3>1
  <2> QED
    BY <1>0, <2>2, <2>3
<1>3. ASSUME NEW r \in runs, r.key = keyed
      PROVE  SameWindow(buf', i + 1, r.x, i + 1) <=> SameWindow(buf', 0, r.x, 0)
  <2>1. SameWindow(buf, i, r.x, i) <=> SameWindow(buf, 0, r.x, 0)
    BY <1>0, <1>3 DEF IInv, EncryptInv
  <2>2. SameWindow(buf', 0, r.x, 0) <=> SameWindow(buf, 0, r.x, 0)
    BY <1>0, <1>1 DEF SameWindow
  <2>3. r.x[i + 4] = CipherRound(r.x, i, rk[i])
    <3>1. r.x[i + 4] = CipherRound(r.x, i, r.rk[i])
      BY <1>0 DEF IInv, RunsInv, Enciphered
    <3>2. r.rk[i] = rk[i]
      BY <1>0, <1>3 DEF IInv, ScheduleInv, Known
    <3> QED
      BY <3>1, <3>2
  <2>4. /\ WordsAt(buf, i) /\ WordsAt(r.x, i) /\ rk[i] \in Word
    BY <1>0 DEF IInv, TypeOK, Run, Last, WordsAt
  <2>5. SameWindow(buf', i + 1, r.x, i + 1) <=> SameWindow(buf, i, r.x, i)
    <3> DEFINE y == r.x
    <3> HIDE DEF y
    <3>1. SameWindow(buf', i + 1, y, i + 1) <=>
            /\ buf[i + 1] = y[i + 1] /\ buf[i + 2] = y[i + 2] /\ buf[i + 3] = y[i + 3]
            /\ CipherRound(buf, i, rk[i]) = y[i + 4]
      BY <1>0, <1>1 DEF SameWindow
    <3>2. ASSUME buf[i + 1] = y[i + 1], buf[i + 2] = y[i + 2], buf[i + 3] = y[i + 3]
          PROVE  buf[i] = y[i] <=> CipherRound(buf, i, rk[i]) = CipherRound(y, i, rk[i])
      BY <2>4, <3>2, RoundWindow DEF y
    <3>3. y[i + 4] = CipherRound(y, i, rk[i])
      BY <2>3 DEF y
    <3>4. SameWindow(buf', i + 1, y, i + 1) <=> SameWindow(buf, i, y, i)
      BY <3>1, <3>2, <3>3 DEF SameWindow
    <3> QED
      BY <3>4 DEF y
  <2> QED
    BY <2>1, <2>2, <2>5
<1> QED
  BY <1>0, <1>2, <1>3 DEF EncryptInv

\* A round of the loop of sm4_decrypt_block against the matching round of an
\* earlier run, which it undoes.
LEMMA DecryptRoundInv ==
  ASSUME IInv, DecryptRound PROVE DecryptInv'
<1> USE WordAssumption
<1> DEFINE m == NumRounds - 1 - i
<1>0. /\ op = "decrypt" /\ op' = "decrypt" /\ keyed' = keyed /\ keyed # NoKey
      /\ i \in Nat /\ i < NumRounds /\ i' = i + 1 /\ runs' = runs /\ rk' = rk
      /\ m \in 0 .. NumRounds - 1 /\ Last \in Nat
  BY DEF IInv, TypeOK, DecryptRound, Last
<1>1. /\ \A j \in 0 .. i + 3 : buf'[j] = buf[j]
      /\ buf'[i + 4] = CipherRound(buf, i, rk[m])
  BY <1>0 DEF IInv, TypeOK, DecryptRound, Last
<1>2. \A j \in 0 .. i : buf'[j + 4] = CipherRound(buf', j, rk'[NumRounds - 1 - j])
  <2> SUFFICES ASSUME NEW j \in 0 .. i
               PROVE  buf'[j + 4] = CipherRound(buf', j, rk[NumRounds - 1 - j])
    BY <1>0
  <2>1. CipherRound(buf', j, rk[NumRounds - 1 - j]) =
          CipherRound(buf, j, rk[NumRounds - 1 - j])
    BY <1>0, <1>1 DEF CipherRound
  <2>2. CASE j = i
    BY <1>1, <2>1, <2>2
  <2>3. CASE j \in 0 .. i - 1
    <3>1. buf[j + 4] = CipherRound(buf, j, rk[NumRounds - 1 - j])
      BY <1>0, <2>3 DEF IInv, DecryptInv
    <3> QED
      BY <1>0, <1>1, <2>1, <2>3, <3>1
  <2> QED
    BY <1>0, <2>2, <2>3
<1>3. ASSUME NEW r \in runs, r.key = keyed
      PROVE  MirrorWindow(buf', i + 1, r.x, Last - (i + 1)) <=>
               MirrorWindow(buf', 0, r.x, Last)
  <2>1. MirrorWindow(buf, i, r.x, Last - i) <=> MirrorWindow(buf, 0, r.x, Last)
    BY <1>0, <1>3 DEF IInv, DecryptInv
  <2>2. MirrorWindow(buf', 0, r.x, Last) <=> MirrorWindow(buf, 0, r.x, Last)
    BY <1>0, <1>1 DEF MirrorWindow
  <2>3. r.x[m + 4] = CipherRound(r.x, m, rk[m])
    <3>1. r.x[m + 4] = CipherRound(r.x, m, r.rk[m])
      BY <1>0 DEF IInv, RunsInv, Enciphered
    <3>2. r.rk[m] = rk[m]
      BY <1>0, <1>3 DEF IInv, ScheduleInv, Known
    <3> QED
      BY <3>1, <3>2
  <2>4. /\ WordsAt(buf, i) /\ WordsAt(r.x, m) /\ r.x[m + 4] \in Word /\ rk[m] \in Word
    BY <1>0 DEF IInv, TypeOK, Run, Last, WordsAt
  <2>5. MirrorWindow(buf', i + 1, r.x, Last - (i + 1)) <=>
          MirrorWindow(buf, i, r.x, Last - i)
    <3> DEFINE y == r.x
    <3> HIDE DEF y
    <3>0. WordsAt(y, m) /\ y[m + 4] \in Word
      BY <2>4 DEF y
    <3>1. MirrorWindow(buf', i + 1, y, Last - (i + 1)) <=>
            /\ buf[i + 1] = y[m + 3] /\ buf[i + 2] = y[m + 2] /\ buf[i + 3] = y[m + 1]
            /\ CipherRound(buf, i, rk[m]) = y[m]
      <4>1. /\ Last - (i + 1) = m + 3 /\ Last - (i + 1) - 1 = m + 2
            /\ Last - (i + 1) - 2 = m + 1 /\ Last - (i + 1) - 3 = m
        BY <1>0 DEF Last
      <4>2. /\ buf'[i + 1] = buf[i + 1] /\ buf'[i + 2] = buf[i + 2]
            /\ buf'[i + 3] = buf[i + 3] /\ i + 1 + 1 = i + 2 /\ i + 1 + 2 = i + 3
            /\ i + 1 + 3 = i + 4
        BY <1>0, <1>1
      <4> QED
        BY <1>1, <4>1, <4>2 DEF MirrorWindow
    <3>2. MirrorWindow(buf, i, y, Last - i) <=>
            /\ buf[i] = y[m + 4] /\ buf[i + 1] = y[m + 3]
            /\ buf[i + 2] = y[m + 2] /\ buf[i + 3] = y[m + 1]
      <4>1. /\ Last - i = m + 4 /\ Last - i - 1 = m + 3
            /\ Last - i - 2 = m + 2 /\ Last - i - 3 = m + 1
        BY <1>0 DEF Last
      <4> QED
        BY <4>1 DEF MirrorWindow
    <3>3. ASSUME buf[i + 1] = y[m + 3], buf[i + 2] = y[m + 2], buf[i + 3] = y[m + 1]
          PROVE  buf[i] = y[m + 4] <=> CipherRound(buf, i, rk[m]) = y[m]
      <4>1. y[m + 4] = CipherRound(y, m, rk[m])
        BY <2>3 DEF y
      <4>2. CipherRound(buf, i, rk[m]) =
              Xor(buf[i], T(Mix(y[m + 3], y[m + 2], y[m + 1], rk[m])))
        BY <3>3 DEF CipherRound
      <4>3. buf[i] = CipherRound(y, m, rk[m]) <=>
              Xor(buf[i], T(Mix(y[m + 3], y[m + 2], y[m + 1], rk[m]))) = y[m]
        <5>1. buf[i] \in Word /\ rk[m] \in Word
          BY <2>4 DEF WordsAt
        <5> QED
          BY <3>0, <5>1, MirrorRound
      <4> QED
        BY <4>1, <4>2, <4>3
    <3>4. MirrorWindow(buf', i + 1, y, Last - (i + 1)) <=>
            MirrorWindow(buf, i, y, Last - i)
      BY <3>1, <3>2, <3>3
    <3> QED
      BY <3>4 DEF y
  <2> QED
    BY <2>1, <2>2, <2>5
<1> QED
  BY <1>0, <1>2, <1>3 DEF DecryptInv

-----------------------------------------------------------------------------
(* The invariant is inductive: a block computation returns *)

\* A run that joins the history keeps what is known of the history when its
\* array is one of an encryption under rk and its first four words determine its
\* last four and conversely.
LEMMA RecordRun ==
  ASSUME IInv, op # "setkey", keyed # NoKey, NEW x,
         runs' = runs \cup {[key |-> keyed, rk |-> rk, x |-> x]},
         Enciphered(x, rk),
         \A r \in runs : r.key = keyed =>
           (SameWindow(x, 0, r.x, 0) <=> SameWindow(x, NumRounds, r.x, NumRounds))
  PROVE  RunsInv' /\ WindowBijective'
<1> DEFINE new == [key |-> keyed, rk |-> rk, x |-> x]
<1>1. Scheduled(keyed, rk, NumRounds)
  BY DEF IInv, ScheduleInv, Known
<1>2. ASSUME NEW r \in runs, r.key = keyed PROVE r.rk = rk
  <2>1. PICK p \in [0 .. NumRounds - 1 -> Word] : p = r.rk
    BY DEF IInv, TypeOK, Run
  <2>2. \A j \in 0 .. NumRounds - 1 : rk[j] = p[j]
    BY <1>2, <2>1 DEF IInv, ScheduleInv, Known
  <2>3. rk \in [0 .. NumRounds - 1 -> Word]
    BY DEF IInv, TypeOK
  <2>4. rk = p
    <3>1. rk = [j \in 0 .. NumRounds - 1 |-> rk[j]]
      BY <2>3
    <3>2. p = [j \in 0 .. NumRounds - 1 |-> p[j]]
      OBVIOUS
    <3>3. [j \in 0 .. NumRounds - 1 |-> rk[j]] = [j \in 0 .. NumRounds - 1 |-> p[j]]
      BY <2>2, Zenon
    <3> QED
      BY <3>1, <3>2, <3>3
  <2> QED
    BY <2>1, <2>4
<1>3. RunsInv'
  <2>1. \A r \in runs' : Enciphered(r.x, r.rk)
    BY DEF IInv, RunsInv
  <2>2. \A r \in runs' : Scheduled(r.key, r.rk, NumRounds)
    BY <1>1 DEF IInv, RunsInv
  <2>3. \A r, s \in runs' : r.key = s.key => r.rk = s.rk
    BY <1>2 DEF IInv, RunsInv
  <2> QED
    BY <2>1, <2>2, <2>3 DEF RunsInv
<1>4. WindowBijective'
  <2> SUFFICES ASSUME NEW r \in runs', NEW s \in runs', r.key = s.key
               PROVE  SameWindow(r.x, 0, s.x, 0) <=>
                        SameWindow(r.x, NumRounds, s.x, NumRounds)
    BY DEF WindowBijective
  <2>1. CASE r \in runs /\ s \in runs
    BY <2>1 DEF IInv, WindowBijective
  <2>2. CASE r = new /\ s = new
    BY <2>2 DEF SameWindow
  <2>3. CASE r = new /\ s \in runs
    BY <2>3
  <2>4. CASE r \in runs /\ s = new
    <3>1. SameWindow(x, 0, r.x, 0) <=> SameWindow(x, NumRounds, r.x, NumRounds)
      BY <2>4
    <3> QED
      BY <2>4, <3>1 DEF SameWindow
  <2> QED
    BY <2>1, <2>2, <2>3, <2>4
<1> QED
  BY <1>3, <1>4

\* The recorded array of a finished encryption is of that kind.
LEMMA ReturnEncryptInv ==
  ASSUME IInv, ReturnEncrypt PROVE RunsInv' /\ WindowBijective'
<1>1. /\ op = "encrypt" /\ keyed # NoKey /\ i = NumRounds
      /\ runs' = runs \cup {[key |-> keyed, rk |-> rk, x |-> buf]}
  BY DEF IInv, TypeOK, ReturnEncrypt
<1>2. Enciphered(buf, rk)
  BY <1>1 DEF IInv, EncryptInv, Enciphered
<1>3. \A r \in runs : r.key = keyed =>
        (SameWindow(buf, 0, r.x, 0) <=> SameWindow(buf, NumRounds, r.x, NumRounds))
  BY <1>1 DEF IInv, EncryptInv
<1> QED
  BY <1>1, <1>2, <1>3, RecordRun

\* Turned round, the array of a decryption is one of an encryption under the
\* same round keys.
LEMMA ReturnDecryptInv ==
  ASSUME IInv, ReturnDecrypt PROVE RunsInv' /\ WindowBijective'
<1> USE WordAssumption
<1> DEFINE y == Reversed(buf)
<1>0. /\ op = "decrypt" /\ keyed # NoKey /\ i = NumRounds
      /\ runs' = runs \cup {[key |-> keyed, rk |-> rk, x |-> y]}
      /\ \A j \in 0 .. Last : buf[j] \in Word
  BY DEF IInv, TypeOK, ReturnDecrypt, Last
<1>1. Enciphered(y, rk)
  <2> SUFFICES ASSUME NEW j \in 0 .. NumRounds - 1
               PROVE  y[j + 4] = CipherRound(y, j, rk[j])
    BY DEF Enciphered
  <2> DEFINE m == NumRounds - 1 - j
  <2>1. /\ m \in 0 .. NumRounds - 1 /\ NumRounds - 1 - m = j
        /\ y[j] = buf[m + 4] /\ y[j + 1] = buf[m + 3] /\ y[j + 2] = buf[m + 2]
        /\ y[j + 3] = buf[m + 1] /\ y[j + 4] = buf[m]
    BY DEF Reversed, Last
  <2>2. buf[m + 4] = CipherRound(buf, m, rk[j])
    BY <1>0, <2>1 DEF IInv, DecryptInv
  <2>3. WordsAt(buf, m) /\ buf[m + 4] \in Word /\ rk[j] \in Word
    BY <1>0, <2>1 DEF IInv, TypeOK, Last, WordsAt
  <2>4. Xor(buf[m + 4], T(Mix(buf[m + 3], buf[m + 2], buf[m + 1], rk[j]))) = buf[m]
    BY <2>2, <2>3, MirrorRound
  <2> QED
    BY <2>1, <2>4 DEF CipherRound
<1>2. ASSUME NEW r \in runs, r.key = keyed
      PROVE  SameWindow(y, 0, r.x, 0) <=> SameWindow(y, NumRounds, r.x, NumRounds)
  <2>1. MirrorWindow(buf, NumRounds, r.x, Last - NumRounds) <=>
          MirrorWindow(buf, 0, r.x, Last)
    BY <1>0, <1>2 DEF IInv, DecryptInv
  <2>2. /\ y[0] = buf[NumRounds + 3] /\ y[1] = buf[NumRounds + 2]
        /\ y[2] = buf[NumRounds + 1] /\ y[3] = buf[NumRounds]
        /\ y[NumRounds] = buf[3] /\ y[NumRounds + 1] = buf[2]
        /\ y[NumRounds + 2] = buf[1] /\ y[NumRounds + 3] = buf[0]
    BY DEF Reversed, Last
  <2>3. MirrorWindow(buf, NumRounds, r.x, Last - NumRounds) <=>
          SameWindow(y, 0, r.x, 0)
    BY <2>2 DEF MirrorWindow, SameWindow, Last
  <2>4. MirrorWindow(buf, 0, r.x, Last) <=> SameWindow(y, NumRounds, r.x, NumRounds)
    BY <2>2 DEF MirrorWindow, SameWindow, Last
  <2> QED
    BY <2>1, <2>3, <2>4
<1> HIDE DEF y
<1> QED
  BY <1>0, <1>1, <1>2, RecordRun

-----------------------------------------------------------------------------
(* The theorems *)

LEMMA IInvInit == Init => IInv
<1> USE WordAssumption
<1> SUFFICES ASSUME Init PROVE IInv
  OBVIOUS
<1>1. TypeOK
  BY DEF Init, TypeOK, Ops, Cleared, Last, Quad
<1> QED
  BY <1>1 DEF Init, IInv, ScheduleInv, RunsInv, EncryptInv, DecryptInv, WindowBijective

LEMMA IInvStep == IInv /\ [Next]_vars => IInv'
<1> USE WordAssumption
<1> SUFFICES ASSUME IInv, [Next]_vars PROVE IInv'
  OBVIOUS
<1>0. TypeOK /\ TypeOK'
  BY TypeStep DEF IInv
<1> DEFINE Rest == ScheduleInv /\ RunsInv /\ EncryptInv /\ DecryptInv /\ WindowBijective
<1> SUFFICES Rest'
  BY <1>0 DEF IInv
<1>1. ASSUME NEW key \in Keys, StartSetKey(key) PROVE Rest'
  <2>1. /\ key # NoKey /\ keyed' = key /\ op' = "setkey" /\ i' = 0 /\ runs' = runs
        /\ \A j \in 0 .. 3 : buf'[j] = Xor(key[j], FK[j])
    BY <1>1 DEF StartSetKey, Loaded, Last
  <2>2. ScheduleInv'
    BY <2>1 DEF ScheduleInv, Known, Scheduled, K
  <2> QED
    BY <2>1, <2>2
    DEF IInv, RunsInv, EncryptInv, DecryptInv, WindowBijective
<1>2. CASE SetKeyRound
  BY <1>2, SetKeyRoundInv
  DEF SetKeyRound, IInv, RunsInv, EncryptInv, DecryptInv, WindowBijective
<1>3. CASE ReturnSetKey
  BY <1>3
  DEF ReturnSetKey, IInv, ScheduleInv, Known, RunsInv, EncryptInv, DecryptInv,
      WindowBijective
<1>4. ASSUME NEW block, StartEncrypt(block) PROVE Rest'
  <2>1. /\ op = "idle" /\ op' = "encrypt" /\ i' = 0
        /\ UNCHANGED <<rk, keyed, runs>>
    BY <1>4 DEF StartEncrypt
  <2> QED
    BY <2>1 DEF IInv, ScheduleInv, Known, RunsInv, EncryptInv, DecryptInv, WindowBijective
<1>5. CASE EncryptRound
  BY <1>5, EncryptRoundInv
  DEF EncryptRound, IInv, ScheduleInv, Known, RunsInv, DecryptInv, WindowBijective
<1>6. CASE ReturnEncrypt
  <2>1. ScheduleInv'
    BY <1>6 DEF ReturnEncrypt, IInv, ScheduleInv, Known
  <2> QED
    BY <1>6, <2>1, ReturnEncryptInv DEF ReturnEncrypt, EncryptInv, DecryptInv
<1>7. ASSUME NEW block, StartDecrypt(block) PROVE Rest'
  <2>1. /\ op = "idle" /\ op' = "decrypt" /\ i' = 0
        /\ UNCHANGED <<rk, keyed, runs>>
    BY <1>7 DEF StartDecrypt
  <2>2. Last - 0 = Last
    BY DEF Last
  <2> QED
    BY <2>1, <2>2 DEF IInv, ScheduleInv, Known, RunsInv, EncryptInv, DecryptInv, WindowBijective
<1>8. CASE DecryptRound
  BY <1>8, DecryptRoundInv
  DEF DecryptRound, IInv, ScheduleInv, Known, RunsInv, EncryptInv, WindowBijective
<1>9. CASE ReturnDecrypt
  <2>1. ScheduleInv'
    BY <1>9 DEF ReturnDecrypt, IInv, ScheduleInv, Known
  <2> QED
    BY <1>9, <2>1, ReturnDecryptInv DEF ReturnDecrypt, EncryptInv, DecryptInv
<1>10. CASE Clean
  BY <1>10
  DEF Clean, IInv, ScheduleInv, RunsInv, EncryptInv, DecryptInv, WindowBijective
<1>11. CASE UNCHANGED vars
  BY <1>11
  DEF vars, IInv, ScheduleInv, Known, RunsInv, EncryptInv, DecryptInv, WindowBijective
<1> QED
  BY <1>1, <1>2, <1>3, <1>4, <1>5, <1>6, <1>7, <1>8, <1>9, <1>10, <1>11 DEF Next

\* Two blocks are equal when their four words are.
LEMMA WindowIsBlock ==
  ASSUME NEW r \in Run, NEW s \in Run
  PROVE  /\ Plain(r.x) = Plain(s.x) <=> SameWindow(r.x, 0, s.x, 0)
         /\ Cipher(r.x) = Cipher(s.x) <=> SameWindow(r.x, NumRounds, s.x, NumRounds)
<1> USE WordAssumption DEF Last
<1>1. Plain(r.x) = Plain(s.x) <=> \A j \in 0 .. 3 : r.x[j] = s.x[j]
  BY DEF Plain
<1>2. Cipher(r.x) = Cipher(s.x) <=> \A j \in 0 .. 3 : r.x[Last - j] = s.x[Last - j]
  BY DEF Cipher
<1>3. (\A j \in 0 .. 3 : r.x[j] = s.x[j]) <=> SameWindow(r.x, 0, s.x, 0)
  BY DEF SameWindow
<1>4. (\A j \in 0 .. 3 : r.x[Last - j] = s.x[Last - j]) <=>
        SameWindow(r.x, NumRounds, s.x, NumRounds)
  BY DEF SameWindow
<1> QED
  BY <1>1, <1>2, <1>3, <1>4

LEMMA IInvBijective == IInv => Bijective
<1> SUFFICES ASSUME IInv, NEW r \in runs, NEW s \in runs, r.key = s.key
             PROVE  Plain(r.x) = Plain(s.x) <=> Cipher(r.x) = Cipher(s.x)
  BY DEF Bijective
<1>1. r \in Run /\ s \in Run
  BY DEF IInv, TypeOK
<1> QED
  BY <1>1, WindowIsBlock DEF IInv, WindowBijective

\* For every word type, round functions, constants and number of rounds, the
\* answers of sm4_encrypt_block and sm4_decrypt_block are at all times those of
\* a permutation of the blocks and its inverse, one for every key.
THEOREM BlockBijective == Spec => []Bijective
<1>1. Spec => []IInv
  BY IInvInit, IInvStep, PTL DEF Spec
<1> QED
  BY <1>1, IInvBijective, PTL

\* At every return the stack arrays of the three functions are cleared, and
\* sm4_context_clean leaves no round key (sm4_c/sm4.c).
THEOREM BlockNoResidue == Spec => []NoResidue
<1>1. Init => NoResidue
  BY DEF Init, NoResidue
<1>2. TypeOK /\ NoResidue /\ [Next]_vars => NoResidue'
  <2> SUFFICES ASSUME TypeOK, NoResidue, [Next]_vars PROVE NoResidue'
    OBVIOUS
  <2> USE DEF NoResidue
  <2>1. ASSUME op' # "idle" PROVE NoResidue'
    BY <2>1
  <2>2. ASSUME ReturnSetKey \/ ReturnEncrypt \/ ReturnDecrypt PROVE NoResidue'
    BY <2>2 DEF ReturnSetKey, ReturnEncrypt, ReturnDecrypt, Wiped, TypeOK
  <2>3. CASE Clean
    BY <2>3 DEF Clean
  <2>4. CASE UNCHANGED vars
    BY <2>4 DEF vars, Cleared
  <2> QED
    BY <2>1, <2>2, <2>3, <2>4
    DEF Next, StartSetKey, SetKeyRound, StartEncrypt, EncryptRound, StartDecrypt,
        DecryptRound
<1> QED
  BY <1>1, <1>2, TypeCorrect, PTL DEF Spec

=============================================================================

------------------------------ MODULE SM4Block ------------------------------
(***************************************************************************)
(* The block layer of sm4_c/sm4.c: sm4_setkey, sm4_encrypt_block,           *)
(* sm4_decrypt_block and sm4_context_clean, one loop iteration a step.      *)
(*                                                                         *)
(* A 32-bit word is a member of Word and `^' is Xor; the round functions    *)
(* sm4_t and sm4_t_prime are any functions on words (the S-box and the      *)
(* rotations never matter to what is shown here), FK, CK and the number of  *)
(* rounds are parameters.  load_u32_be/store_u32_be are inverse to each     *)
(* other, so a 16-byte block is a function 0..3 -> Word.                    *)
(*                                                                         *)
(* One sm4_context is used by one thread, which may key it again at any     *)
(* time, as the callers in sm4.c do with a fresh context for every message. *)
(* It never uses a context that no key is in.                               *)
(***************************************************************************)
EXTENDS Naturals, FiniteSets

CONSTANTS
  Word,        (* uint32_t *)
  Zero,        (* the word 0 *)
  Xor(_, _),   (* ^ *)
  T(_),        (* sm4_t *)
  TPrime(_),   (* sm4_t_prime *)
  FK,          (* SM4_FK *)
  CK,          (* SM4_CK *)
  NumRounds,   (* SM4_NUM_ROUNDS *)
  Keys,        (* the keys callers use *)
  Blocks,      (* the blocks callers encrypt, or decrypt without having
                  encrypted them *)
  Junk,        (* what an uninitialised word holds *)
  NoKey,       (* no key is in the context *)
  MaxRuns      (* bound: distinct block computations recorded in a behaviour *)

Last == NumRounds + 3          (* last index of k[36] and x[36] *)

Quad == [0 .. 3 -> Word]       (* a key or a block *)

ASSUME WordAssumption ==
  /\ Zero \in Word
  /\ Junk \notin Word
  /\ FK \in Quad
  /\ CK \in [0 .. NumRounds - 1 -> Word]
  /\ NumRounds \in Nat \ {0}
  /\ Keys \subseteq Quad
  /\ Blocks \subseteq Quad
  /\ NoKey \notin Quad
  /\ MaxRuns \in Nat

\* sm4_t and sm4_t_prime return a word; nothing else is known of them.
ASSUME RoundFunctionAssumption ==
  \A a \in Word : T(a) \in Word /\ TPrime(a) \in Word

\* What C's ^ on uint32_t gives.
ASSUME XorAssumption ==
  /\ \A a, b \in Word : Xor(a, b) \in Word
  /\ \A a, b \in Word : Xor(a, b) = Xor(b, a)
  /\ \A a, b, c \in Word : Xor(Xor(a, b), c) = Xor(a, Xor(b, c))
  /\ \A a, b \in Word : Xor(Xor(a, b), b) = a

VARIABLES
  op,      (* the function being executed, "idle" between calls *)
  i,       (* its loop variable *)
  buf,     (* its stack array: k[36] of sm4_setkey, x[36] of the others *)
  rk,      (* ctx->rk *)
  keyed,   (* history: the key sm4_setkey was last called with, NoKey after
              sm4_context_clean *)
  runs     (* history: every block computation that has returned, with the
              key, the round keys and the array x in encryption order *)

vars == <<op, i, buf, rk, keyed, runs>>

Mix(a, b, c, d) == Xor(Xor(Xor(a, b), c), d)

\* The expressions on the right of the two assignments in the loops.
ScheduleRound(k, j) == Xor(k[j], TPrime(Mix(k[j+1], k[j+2], k[j+3], CK[j])))

CipherRound(x, j, roundKey) == Xor(x[j], T(Mix(x[j+1], x[j+2], x[j+3], roundKey)))

Cleared == [j \in 0 .. Last |-> Zero]     (* after memset(x, 0, sizeof(x)) *)

KeepDirty == buf                          (* mutant: the memset is missing *)

Wiped == Cleared

Loaded(q) == [j \in 0 .. Last |-> IF j <= 3 THEN q[j] ELSE Junk]

\* A whole array turned round: the order in which a decryption meets the words.
Reversed(x) == [j \in 0 .. Last |-> x[Last - j]]

Plain(x)  == [j \in 0 .. 3 |-> x[j]]
Cipher(x) == [j \in 0 .. 3 |-> x[Last - j]]

-----------------------------------------------------------------------------
Init ==
  /\ op = "idle"
  /\ i = 0
  /\ buf = Cleared
  /\ rk = [j \in 0 .. NumRounds - 1 |-> Junk]
  /\ keyed = NoKey
  /\ runs = {}

(* sm4_setkey *)

StartSetKey(key) ==
  /\ op = "idle"
  /\ op' = "setkey"
  /\ i' = 0
  /\ buf' = Loaded([j \in 0 .. 3 |-> Xor(key[j], FK[j])])
  /\ keyed' = key
  /\ UNCHANGED <<rk, runs>>

SetKeyRound ==
  /\ op = "setkey"
  /\ i < NumRounds
  /\ buf' = [buf EXCEPT ![i + 4] = ScheduleRound(buf, i)]
  /\ rk' = [rk EXCEPT ![i] = ScheduleRound(buf, i)]
  /\ i' = i + 1
  /\ UNCHANGED <<op, keyed, runs>>

ReturnSetKeyEarly ==         (* mutant: the loop stops one round early *)
  /\ op = "setkey"
  /\ i >= NumRounds - 1
  /\ buf' = Wiped
  /\ op' = "idle"
  /\ i' = 0
  /\ UNCHANGED <<rk, keyed, runs>>

ReturnSetKey ==
  /\ op = "setkey"
  /\ i = NumRounds
  /\ buf' = Wiped
  /\ op' = "idle"
  /\ i' = 0
  /\ UNCHANGED <<rk, keyed, runs>>

(* sm4_encrypt_block *)

StartEncrypt(block) ==
  /\ op = "idle"
  /\ keyed # NoKey
  /\ op' = "encrypt"
  /\ i' = 0
  /\ buf' = Loaded(block)
  /\ UNCHANGED <<rk, keyed, runs>>

EncryptRound ==
  /\ op = "encrypt"
  /\ i < NumRounds
  /\ buf' = [buf EXCEPT ![i + 4] = CipherRound(buf, i, rk[i])]
  /\ i' = i + 1
  /\ UNCHANGED <<op, rk, keyed, runs>>

\* Stores Cipher(buf) into output, then clears x.
ReturnEncrypt ==
  /\ op = "encrypt"
  /\ i = NumRounds
  /\ runs' = runs \cup {[key |-> keyed, rk |-> rk, x |-> buf]}
  /\ buf' = Wiped
  /\ op' = "idle"
  /\ i' = 0
  /\ UNCHANGED <<rk, keyed>>

(* sm4_decrypt_block: the same loop with the round keys from last to first *)

StartDecrypt(block) ==
  /\ op = "idle"
  /\ keyed # NoKey
  /\ op' = "decrypt"
  /\ i' = 0
  /\ buf' = Loaded(block)
  /\ UNCHANGED <<rk, keyed, runs>>

DecryptRoundForwardKeys ==   (* mutant: rk[i], as in sm4_encrypt_block *)
  /\ op = "decrypt"
  /\ i < NumRounds
  /\ buf' = [buf EXCEPT ![i + 4] = CipherRound(buf, i, rk[i])]
  /\ i' = i + 1
  /\ UNCHANGED <<op, rk, keyed, runs>>

DecryptRound ==
  /\ op = "decrypt"
  /\ i < NumRounds
  /\ buf' = [buf EXCEPT ![i + 4] = CipherRound(buf, i, rk[NumRounds - 1 - i])]
  /\ i' = i + 1
  /\ UNCHANGED <<op, rk, keyed, runs>>

ReturnDecrypt ==
  /\ op = "decrypt"
  /\ i = NumRounds
  /\ runs' = runs \cup {[key |-> keyed, rk |-> rk, x |-> Reversed(buf)]}
  /\ buf' = Wiped
  /\ op' = "idle"
  /\ i' = 0
  /\ UNCHANGED <<rk, keyed>>

(* sm4_context_clean *)

Clean ==
  /\ op = "idle"
  /\ keyed # NoKey
  /\ rk' = [j \in 0 .. NumRounds - 1 |-> Zero]
  /\ keyed' = NoKey
  /\ UNCHANGED <<op, i, buf, runs>>

\* A caller decrypts what it encrypted, or a block that came from elsewhere.
Presented == Blocks \cup {Cipher(r.x) : r \in runs}

\* Callers stop once MaxRuns computations are recorded.
Room == Cardinality(runs) < MaxRuns

Next ==
  \/ \E key \in Keys : Room /\ StartSetKey(key)
  \/ SetKeyRound
  \/ ReturnSetKey
  \/ \E block \in Blocks : Room /\ StartEncrypt(block)
  \/ EncryptRound
  \/ ReturnEncrypt
  \/ \E block \in Presented : Room /\ StartDecrypt(block)
  \/ DecryptRound
  \/ ReturnDecrypt
  \/ Clean

Spec == Init /\ [][Next]_vars

-----------------------------------------------------------------------------
(* Properties *)

Ops == {"idle", "setkey", "encrypt", "decrypt"}

Run == [key : Quad,
        rk  : [0 .. NumRounds - 1 -> Word],
        x   : [0 .. Last -> Word]]

\* Every variable has its type, and no word is read before it was written: the
\* part of the stack array the loop has reached holds words, and so does the
\* part of ctx->rk that sm4_setkey has reached or left.
TypeOK ==
  /\ op \in Ops
  /\ i \in 0 .. NumRounds
  /\ buf \in [0 .. Last -> Word \cup {Junk}]
  /\ rk \in [0 .. NumRounds - 1 -> Word \cup {Junk}]
  /\ keyed \in Quad \cup {NoKey}
  /\ runs \subseteq Run
  /\ op # "idle" => keyed # NoKey
  /\ op # "idle" => \A j \in 0 .. i + 3 : buf[j] \in Word
  /\ op = "setkey" => \A j \in 0 .. i - 1 : rk[j] \in Word
  /\ op # "setkey" /\ keyed # NoKey => \A j \in 0 .. NumRounds - 1 : rk[j] \in Word

\* The answers of both functions are a permutation and its inverse, for every
\* key and across any number of contexts keyed with it: what was encrypted
\* under a key decrypts under it to the same block, two blocks never encrypt to
\* one, and keying again with the same key gives the same permutation
\* (sm4_setkey, sm4_encrypt_block, sm4_decrypt_block).
Bijective ==
  \A r, s \in runs :
    r.key = s.key => (Plain(r.x) = Plain(s.x) <=> Cipher(r.x) = Cipher(s.x))

\* Between calls nothing of the key or of a block is left: the stack arrays are
\* cleared on return, and after sm4_context_clean so are the round keys
\* (sm4_c/docs/requirements/feature-14.md asks it of k[36] and x[36]).
NoResidue ==
  op = "idle" =>
    /\ buf = Cleared
    /\ keyed = NoKey => \A j \in 0 .. NumRounds - 1 : rk[j] \in {Zero, Junk}

=============================================================================

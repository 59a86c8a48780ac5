------------------------------ MODULE SM4Modes ------------------------------
(***************************************************************************)
(* sm4_ecb_encrypt, sm4_ecb_decrypt, sm4_cbc_encrypt and sm4_cbc_decrypt of  *)
(* sm4_c/sm4.c with pkcs7_pad and pkcs7_unpad, one loop iteration a step.    *)
(*                                                                           *)
(* The block functions are Enc and Dec, a permutation and its inverse for    *)
(* every key: what module SM4Block shows of them.  The round keys in ctx are *)
(* represented by the key they come from.                                    *)
(*                                                                           *)
(* A plaintext of n bytes is its whole blocks and the rest, `full' and       *)
(* `tail'; a ciphertext is its whole blocks and whether bytes follow them.   *)
(* A buffer is a sequence of blocks.                                         *)
(*                                                                           *)
(* One thread makes calls one after another, with buffers as large as        *)
(* sm4_c/sm4_ext.c allocates them (input_len + SM4_BLOCK_SIZE bytes to       *)
(* encrypt, input_len to decrypt).  A decryption may be in place.            *)
(***************************************************************************)
EXTENDS Integers, Sequences, SequencesExt

CONSTANTS
  Byte,            (* uint8_t *)
  XorByte(_, _),   (* ^ on bytes *)
  BlockSize,       (* SM4_BLOCK_SIZE *)
  SizeMax,         (* SIZE_MAX *)
  Key,
  Enc(_, _),       (* sm4_encrypt_block under the round keys of a key *)
  Dec(_, _),       (* sm4_decrypt_block *)
  IVs,             (* the IVs callers use *)
  Messages,        (* the plaintexts callers encrypt *)
  Strays,          (* ciphertexts callers decrypt that no call produced *)
  MaxCalls,        (* bound: calls in a behaviour *)
  Junk,            (* the content of memory nobody wrote *)
  Zeroed,          (* the content of memory after memset(.., 0, ..) *)
  NoIV             (* the modes without an IV *)

Block == [1 .. BlockSize -> Byte]

PlainText  == [full : Seq(Block), tail : Seq(Byte)]
CipherText == [blocks : Seq(Block), ragged : BOOLEAN]

ASSUME SizeAssumption ==
  /\ BlockSize \in Nat \ {0}
  /\ Byte \subseteq Nat
  /\ 0 .. BlockSize \subseteq Byte
  /\ SizeMax \in Nat /\ (SizeMax + 1) % BlockSize = 0
  /\ MaxCalls \in Nat

ASSUME InputAssumption ==
  /\ IVs \subseteq Block
  /\ \A m \in Messages : m \in PlainText /\ Len(m.tail) < BlockSize
  /\ \A c \in Strays : c \in CipherText /\ Len(c.blocks) * BlockSize <= SizeMax

\* SM4Block's Bijective.
ASSUME CipherAssumption ==
  \A k \in Key, b \in Block :
    /\ Enc(k, b) \in Block /\ Dec(k, b) \in Block
    /\ Dec(k, Enc(k, b)) = b /\ Enc(k, Dec(k, b)) = b

ASSUME XorAssumption ==
  \A a, b \in Byte : XorByte(a, b) \in Byte /\ XorByte(XorByte(a, b), b) = a

VARIABLES
  pc,        (* "idle" between calls, "malloc" or "loop" inside one *)
  call,      (* the call: fn, mode, key, iv, data, alias *)
  i,         (* blocks the loop has done *)
  local,     (* ctx, block, prev and *padded *)
  held,      (* padded is allocated *)
  out,       (* the caller's output buffer *)
  outLen,    (* the caller's *output_len *)
  ret,       (* what the last call returned *)
  calls,     (* history: number of calls made *)
  table,     (* history: answers, as in CipherBox *)
  rejected,  (* history: refusals, as in CipherBox *)
  traces     (* history: every block a decryption wrote, with what it is of *)

vars == <<pc, call, i, local, held, out, outLen, ret, calls, table, rejected, traces>>

history == <<calls, table, rejected, traces>>

-----------------------------------------------------------------------------
(* Blocks and padding *)

XorBlock(a, b) == [j \in 1 .. BlockSize |-> XorByte(a[j], b[j])]

ByteLen(m) == Len(m.full) * BlockSize + Len(m.tail)

\* size_t arithmetic
SizeT(n) == n % (SizeMax + 1)

PaddedLen(n) == SizeT(n + BlockSize - (n % BlockSize))

PadLastByteOnly(m) ==        \* mutant: only the last byte of the padding is written
  Append(m.full, [j \in 1 .. BlockSize |->
                    IF j <= Len(m.tail) THEN m.tail[j]
                    ELSE IF j = BlockSize THEN BlockSize - Len(m.tail) ELSE Junk])

(* pkcs7_pad *)
Pad(m) ==
  Append(m.full, [j \in 1 .. BlockSize |->
                    IF j <= Len(m.tail) THEN m.tail[j] ELSE BlockSize - Len(m.tail)])

(* pkcs7_unpad: the return value and, where it is 0, *out_len *)
LastByteOnly(b) == b[BlockSize] \in 1 .. BlockSize   \* mutant: no loop over the padding

ValidPadding(b) ==
  LET pad == b[BlockSize]
  IN  /\ pad \in 1 .. BlockSize
      /\ \A j \in BlockSize - pad + 1 .. BlockSize : b[j] = pad

Unpad(buf, n) ==
  IF n > 0 /\ ValidPadding(buf[n])
  THEN [ret |-> 0, len |-> n * BlockSize - buf[n][BlockSize]]
  ELSE [ret |-> -1, len |-> 0]

\* The first n bytes of a buffer, as a caller takes them.
Taken(buf, n) ==
  [full |-> SubSeq(buf, 1, n \div BlockSize),
   tail |-> IF n % BlockSize = 0 THEN <<>>
            ELSE SubSeq(buf[(n \div BlockSize) + 1], 1, n % BlockSize)]

-----------------------------------------------------------------------------
(* The functions *)

Uninitialised == [ctx |-> Junk, block |-> Junk, prev |-> Junk, padded |-> Junk]

Encrypting == call.fn = "encrypt"
Chained    == call.mode = "cbc"

\* The block the loop reads next: padded + i, or input + i, which is output + i
\* when the caller decrypts in place.
Source ==
  IF Encrypting THEN local.padded[i + 1]
  ELSE IF call.alias THEN out[i + 1] ELSE call.data.blocks[i + 1]

NumBlocks ==
  IF Encrypting THEN PaddedLen(ByteLen(call.data)) \div BlockSize
  ELSE Len(call.data.blocks)

Return(r) ==
  /\ ret' = r
  /\ pc' = "idle"

NoOverflowCheck(n) == FALSE    \* mutant: the Feature-15 check is missing

Overflows(n) == n > SizeMax - BlockSize

\* The argument checks of the encrypting functions; local variables hold junk.
CallEncrypt(mode, key, iv, m) ==
  /\ calls' = calls + 1
  /\ call' = [fn |-> "encrypt", mode |-> mode, key |-> key, iv |-> iv,
              data |-> m, alias |-> FALSE]
  /\ local' = Uninitialised
  /\ out' = [j \in 1 .. SizeT(ByteLen(m) + BlockSize) \div BlockSize |-> Junk]
  /\ outLen' = Junk
  /\ i' = 0
  /\ IF Overflows(ByteLen(m))
     THEN Return(-1)
     ELSE pc' = "malloc" /\ UNCHANGED ret
  /\ UNCHANGED <<held, table, rejected, traces>>

MallocFailsLate ==           \* mutant: *output_len is set before malloc is tested
  /\ pc = "malloc"
  /\ outLen' = PaddedLen(ByteLen(call.data))
  /\ Return(-1)
  /\ UNCHANGED <<call, i, local, held, out, history>>

MallocFails ==
  /\ pc = "malloc"
  /\ Return(-1)
  /\ UNCHANGED <<call, i, local, held, out, outLen, history>>

\* malloc, pkcs7_pad, sm4_setkey, and in CBC memcpy(prev, iv).
PrepareEncrypt ==
  /\ pc = "malloc"
  /\ held' = TRUE
  /\ local' = [local EXCEPT !.padded = Pad(call.data),
                            !.ctx = call.key,
                            !.prev = IF Chained THEN call.iv ELSE @]
  /\ pc' = "loop"
  /\ UNCHANGED <<call, i, out, outLen, ret, history>>

\* Decryption has no temporary: the checks, sm4_setkey and memcpy(prev, iv).
CallDecrypt(mode, key, iv, c, alias) ==
  /\ calls' = calls + 1
  /\ call' = [fn |-> "decrypt", mode |-> mode, key |-> key, iv |-> iv,
              data |-> c, alias |-> alias]
  /\ out' = IF alias THEN c.blocks ELSE [j \in 1 .. Len(c.blocks) |-> Junk]
  /\ outLen' = Junk
  /\ i' = 0
  /\ IF c.ragged \/ c.blocks = <<>>
     THEN /\ Return(-1)
          /\ local' = Uninitialised
          /\ rejected' = rejected \cup
               {[param |-> [mode |-> mode, key |-> key, iv |-> iv], ct |-> c]}
     ELSE /\ pc' = "loop"
          /\ local' = [Uninitialised EXCEPT !.ctx = key,
                                            !.prev = IF mode = "cbc" THEN iv ELSE @]
          /\ UNCHANGED <<ret, rejected>>
  /\ UNCHANGED <<held, table, traces>>

InLoop == pc = "loop" /\ i < NumBlocks

Step(b) ==     \* output + i receives b
  /\ out' = [out EXCEPT ![i + 1] = b]
  /\ i' = i + 1

EncryptBlockEcb ==
  /\ InLoop /\ Encrypting /\ ~Chained
  /\ Step(Enc(local.ctx, Source))
  /\ UNCHANGED <<pc, call, local, held, outLen, ret, history>>

EncryptBlockCbc ==
  /\ InLoop /\ Encrypting /\ Chained
  /\ LET b == XorBlock(Source, local.prev)
         e == Enc(local.ctx, b)
     IN  /\ Step(e)
         /\ local' = [local EXCEPT !.block = b, !.prev = e]
  /\ UNCHANGED <<pc, call, held, outLen, ret, history>>

\* The block b that is written, with the ciphertext block at its place and the
\* one before it as the caller passed them.
Trace(b) ==
  [mode |-> call.mode, key |-> call.key, of |-> call.data.blocks[i + 1],
   after |-> IF ~Chained THEN NoIV
             ELSE IF i = 0 THEN call.iv ELSE call.data.blocks[i],
   gives |-> b]

DecryptBlockEcb ==
  /\ InLoop /\ ~Encrypting /\ ~Chained
  /\ LET b == Dec(local.ctx, Source)
     IN  /\ Step(b)
         /\ traces' = traces \cup {Trace(b)}
  /\ UNCHANGED <<pc, call, local, held, outLen, ret, calls, table, rejected>>

DecryptBlockCbcChainsPlain ==   \* mutant: prev is taken from output, not input
  /\ InLoop /\ ~Encrypting /\ Chained
  /\ LET d == Dec(local.ctx, Source)
         b == XorBlock(d, local.prev)
     IN  /\ Step(b)
         /\ local' = [local EXCEPT !.block = d, !.prev = b]
         /\ traces' = traces \cup {Trace(b)}
  /\ UNCHANGED <<pc, call, held, outLen, ret, calls, table, rejected>>

\* memcpy(prev, input + i) runs after output + i was written.
DecryptBlockCbc ==
  /\ InLoop /\ ~Encrypting /\ Chained
  /\ LET d == Dec(local.ctx, Source)
         b == XorBlock(d, local.prev)
     IN  /\ Step(b)
         /\ local' = [local EXCEPT !.block = d,
                                   !.prev = IF call.alias THEN b ELSE Source]
         /\ traces' = traces \cup {Trace(b)}
  /\ UNCHANGED <<pc, call, held, outLen, ret, calls, table, rejected>>

\* sm4_context_clean and the memsets, on what the function has of these.
CleanedContextOnly ==           \* mutant: only the context is cleaned
  [local EXCEPT !.ctx = Zeroed]

Cleaned ==
  [ctx    |-> Zeroed,
   block  |-> IF Chained THEN Zeroed ELSE local.block,
   prev   |-> IF Chained THEN Zeroed ELSE local.prev,
   padded |-> IF Encrypting THEN Zeroed ELSE local.padded]

Param == [mode |-> call.mode, key |-> call.key, iv |-> call.iv]

\* The tail of the encrypting functions.  The caller takes outLen' bytes.
FinishEncrypt ==
  /\ pc = "loop" /\ Encrypting /\ i = NumBlocks
  /\ local' = Cleaned
  /\ held' = FALSE
  /\ outLen' = PaddedLen(ByteLen(call.data))
  /\ Return(0)
  /\ table' = table \cup
       {[param |-> Param, pt |-> call.data,
         ct |-> [blocks |-> SubSeq(out, 1, outLen' \div BlockSize), ragged |-> FALSE]]}
  /\ UNCHANGED <<call, i, out, calls, rejected, traces>>

\* The tail of the decrypting functions: cleaning, then pkcs7_unpad on what is
\* already in the caller's buffer.
FinishDecrypt ==
  /\ pc = "loop" /\ ~Encrypting /\ i = NumBlocks
  /\ local' = Cleaned
  /\ LET u == Unpad(out, i)
     IN  /\ Return(u.ret)
         /\ IF u.ret = 0
            THEN /\ outLen' = u.len
                 /\ table' = table \cup
                      {[param |-> Param, pt |-> Taken(out, u.len), ct |-> call.data]}
                 /\ UNCHANGED rejected
            ELSE /\ rejected' = rejected \cup {[param |-> Param, ct |-> call.data]}
                 /\ UNCHANGED <<outLen, table>>
  /\ UNCHANGED <<call, i, held, out, calls, traces>>

-----------------------------------------------------------------------------
Init ==
  /\ pc = "idle"
  /\ call = [fn |-> "none"]
  /\ i = 0
  /\ local = Uninitialised
  /\ held = FALSE
  /\ out = <<>>
  /\ outLen = Junk
  /\ ret = 0
  /\ calls = 0
  /\ table = {} /\ rejected = {} /\ traces = {}

ModeIVs(mode) == IF mode = "cbc" THEN IVs ELSE {NoIV}

\* sm4_cbc_decrypt is never called in place: it overwrites input + i before it
\* copies it to prev.
MayAlias(mode) == IF mode = "cbc" THEN {FALSE} ELSE BOOLEAN

\* A ciphertext with a block of it replaced or cut off.
Damaged(c) ==
  {[c EXCEPT !.blocks = Front(@)]} \cup
  {[c EXCEPT !.blocks[n] = b] : n \in DOMAIN c.blocks, b \in IVs}

Known == {e.ct : e \in table}

Next ==
  \/ pc = "idle" /\ calls < MaxCalls /\ \E mode \in {"ecb", "cbc"}, key \in Key :
       \E iv \in ModeIVs(mode) :
         \/ \E m \in Messages \cup {e.pt : e \in table} : CallEncrypt(mode, key, iv, m)
         \/ \E c \in Strays \cup Known \cup UNION {Damaged(d) : d \in Known},
               alias \in MayAlias(mode) : CallDecrypt(mode, key, iv, c, alias)
  \/ MallocFails
  \/ PrepareEncrypt
  \/ EncryptBlockEcb
  \/ EncryptBlockCbc
  \/ DecryptBlockEcb
  \/ DecryptBlockCbc
  \/ FinishEncrypt
  \/ FinishDecrypt

Spec == Init /\ [][Next]_vars

-----------------------------------------------------------------------------
(* Properties *)

Memory(S) == S \cup {Junk, Zeroed}

\* Every variable has its type.
TypeOK ==
  /\ pc \in {"idle", "malloc", "loop"}
  /\ i \in 0 .. Len(out)
  /\ local.ctx \in Memory(Key)
  /\ local.block \in Memory(Block)
  /\ local.prev \in Memory(Block)
  /\ local.padded \in Seq(Block) \cup {Junk, Zeroed}
  /\ held \in BOOLEAN
  /\ out \in Seq(Block \cup {Junk})
  /\ outLen \in (0 .. SizeMax) \cup {Junk}
  /\ ret \in {0, -1}
  /\ \A e \in table : e.pt \in PlainText /\ e.ct \in CipherText
  /\ \A e \in rejected : e.ct \in CipherText

\* No function writes beyond the buffer it was given or allocated: pkcs7_pad
\* stays inside the padded_len bytes of malloc, and a block the loop writes
\* lies inside the output buffer the callers in sm4_ext.c allocate.
InBounds ==
  pc = "loop" =>
    /\ Encrypting => Len(Pad(call.data)) = NumBlocks
    /\ i < NumBlocks => i < Len(out)

\* However a function returns, its temporary is freed and nothing of the key,
\* the chaining value or the plaintext is left in its locals
\* (sm4_c/docs/requirements/feature-4.md).
CleanExit ==
  pc = "idle" =>
    /\ ~held
    /\ \A f \in DOMAIN local : local[f] \in {Junk, Zeroed}

\* A call that fails says so once: *output_len keeps what the caller put there,
\* and the output of an encryption is untouched.  (A decryption that fails on
\* the padding has already overwritten the output.)
FailureLeavesLength ==
  pc = "idle" /\ ret = -1 =>
    /\ outLen = Junk
    /\ Encrypting => \A j \in DOMAIN out : out[j] = Junk

\* What a decryption writes at a place depends, across all calls, on the
\* ciphertext block at that place alone (ECB) or on it and the one before
\* (CBC), so a damaged block never spoils more than the one after it, whether
\* or not the padding is accepted in the end.
BlockLocality ==
  \A t, u \in traces :
    /\ t.mode = u.mode /\ t.key = u.key /\ t.of = u.of /\ t.after = u.after
    => t.gives = u.gives

Box == INSTANCE CipherBox WITH
  Param <- [mode : {"ecb", "cbc"}, key : Key, iv : Block \cup {NoIV}],
  Plain <- PlainText,
  Sealed <- CipherText

\* For each mode, key and IV the two functions are one bijection between
\* plaintexts and the ciphertexts decryption accepts: an accepted ciphertext is
\* the only one its plaintext encrypts to, and a rejected one is never produced
\* (strict PKCS7, the chaining and both lengths together).
ImplementsBox == Box!Spec

=============================================================================

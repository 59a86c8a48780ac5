------------------------------- MODULE SM4Gcm -------------------------------
(***************************************************************************)
(* sm4_gcm_encrypt and sm4_gcm_decrypt of sm4_c/sm4.c with gf128_mul, ghash, *)
(* gcm_inc32 and gctr, one iteration of the data loop of gctr a step.        *)
(*                                                                           *)
(* The sizes are parameters: a block has BlockSize bytes of ByteBits bits,   *)
(* its last CounterSize bytes are the counter (so the recommended IV of 12   *)
(* bytes has BlockSize - CounterSize), and each of the two length fields     *)
(* takes half a block.  Reduction is the byte 0xe1 xored into the first byte.*)
(* The block function is Enc, a permutation for every key (module SM4Block); *)
(* the round keys in ctx are represented by their key.  aad is <<>> where    *)
(* callers pass NULL: they never pass NULL with a length.                    *)
(***************************************************************************)
EXTENDS Integers, Sequences, SequencesExt, FiniteSets

CONSTANTS
  ByteBits,        (* 8 *)
  XorByte(_, _),   (* ^ on bytes *)
  BlockSize,       (* 16 *)
  CounterSize,     (* 4, the bytes gcm_inc32 counts in *)
  Reduction,       (* 0xe1 *)
  SizeMax,         (* SIZE_MAX *)
  Key,
  Enc(_, _),       (* sm4_encrypt_block under the round keys of a key *)
  IVs,             (* the IVs, AADs and plaintexts callers use *)
  AADs,
  Messages,
  Strays,          (* what callers decrypt that no call produced *)
  MaxCalls,        (* bound: calls in a behaviour *)
  Junk,            (* the content of memory nobody wrote *)
  Zeroed           (* the content of memory after memset(.., 0, ..) *)

Base  == 2 ^ ByteBits
Byte  == 0 .. Base - 1
Block == [1 .. BlockSize -> Byte]
NumBits == BlockSize * ByteBits

Sealed == [ct : Seq(Byte), tag : Block]

ASSUME SizeAssumption ==
  /\ ByteBits \in Nat \ {0}
  /\ BlockSize \in Nat \ {0} /\ BlockSize % 2 = 0
  /\ CounterSize \in 1 .. BlockSize - 1
  /\ Reduction \in Byte
  /\ MaxCalls \in Nat

ASSUME SizeMaxAssumption == SizeMax \in Nat /\ (SizeMax + 1) % BlockSize = 0

\* What the provers do not know of powers.
ASSUME PowerAssumption ==
  /\ 2 ^ 0 = 1
  /\ \A k \in 0 .. ByteBits - 1 : 2 ^ k \in Nat \ {0} /\ 2 ^ (k + 1) = 2 * 2 ^ k
  /\ Base ^ 0 = 1
  /\ \A k \in 0 .. BlockSize - 1 : Base ^ (k + 1) = Base * Base ^ k

ASSUME InputAssumption ==
  /\ \A iv \in IVs : iv \in Seq(Byte) /\ iv # <<>>
  /\ \A a \in AADs \cup Messages : a \in Seq(Byte)
  /\ \A c \in Strays : c.ct \in Seq(Byte) /\ c.tag \in Block

RoundUp(n) == ((n + BlockSize - 1) \div BlockSize) * BlockSize

\* The server's texts have less than 2^30 bytes: fewer blocks than the counter has
\* values besides J0, a length in bits that its field tells from the others, and a
\* buffer for two of them that a size_t can count.
Lengths == UNION {0 .. Len(d) : d \in AADs \cup Messages \cup {c.ct : c \in Strays}}

ASSUME LengthAssumption ==
  /\ \A n \in Lengths : (n + BlockSize - 1) \div BlockSize < Base ^ CounterSize
  /\ \A m, n \in Lengths :
       (m * ByteBits) % Base ^ (BlockSize \div 2) = (n * ByteBits) % Base ^ (BlockSize \div 2)
       => m = n
  /\ \A m, n \in Lengths : RoundUp(m) + RoundUp(n) + BlockSize <= SizeMax

\* SM4Block's Bijective: under a key no two blocks have one image.
ASSUME CipherAssumption ==
  \A k \in Key : /\ \A b \in Block : Enc(k, b) \in Block
                 /\ Cardinality({Enc(k, b) : b \in Block}) = Cardinality(Block)

\* ^ adds the bits of two bytes modulo two.
ASSUME XorAssumption ==
  \A a, b \in Byte :
    /\ XorByte(a, b) \in Byte
    /\ \A e \in 0 .. ByteBits - 1 :
         (XorByte(a, b) \div 2 ^ e) % 2 = (((a \div 2 ^ e) % 2) + ((b \div 2 ^ e) % 2)) % 2

VARIABLES
  pc,        (* "idle" between calls; inside one "malloc", "ctr", "auth", "check" *)
  call,      (* the call: fn, key, iv, aad, data (and tag to decrypt) *)
  i,         (* bytes the loop of gctr has done *)
  local,     (* ctx, h, j0, icb, s, computed_tag, and gctr's counter and
                encrypted_counter *)
  ghashIn,   (* ghash_input and ghash_len, Junk while it is not allocated *)
  out,       (* the caller's output *)
  tag,       (* the caller's tag, of sm4_gcm_encrypt *)
  ret,       (* what the last call returned *)
  calls,     (* history: number of calls made *)
  sealings,  (* history: calls that returned 0 *)
  rejected,  (* history: refusals, as in CipherBox *)
  streams    (* history: for each call, the counter blocks it enciphered in order *)

vars == <<pc, call, i, local, ghashIn, out, tag, ret, calls, sealings, rejected, streams>>

-----------------------------------------------------------------------------
(* Bytes and blocks *)

ZeroBlock == [j \in 1 .. BlockSize |-> 0]

XorBlock(a, b) == [j \in 1 .. BlockSize |-> XorByte(a[j], b[j])]

BigEndianNoCast(n, w) ==  \* mutant: the bits above the byte are kept
  [j \in 1 .. w |-> n \div (Base ^ (w - j))]

\* An integer in w bytes, big-endian, as the shifts and casts store it.
BigEndian(n, w) == [j \in 1 .. w |-> (n \div (Base ^ (w - j))) % Base]

\* The block that starts after `at' bytes, zero-filled where the data ends.
Chunk(data, at) ==
  [j \in 1 .. BlockSize |-> IF at + j <= Len(data) THEN data[at + j] ELSE 0]

(* gf128_mul *)

\* Bit t of a block, where bit 0 is the highest of the first byte.
Bit(x, t) == (x[(t \div ByteBits) + 1] \div (2 ^ (ByteBits - 1 - (t % ByteBits)))) % 2

ShiftedNoCarry(v) ==      \* mutant: bits do not move from one byte to the next
  [k \in 1 .. BlockSize |-> v[k] \div 2]

Shifted(v) ==
  [k \in 1 .. BlockSize |->
     (v[k] \div 2) + (IF k = 1 THEN 0 ELSE (v[k - 1] % 2) * (2 ^ (ByteBits - 1)))]

TimesX(v) ==
  IF v[BlockSize] % 2 = 1
  THEN [Shifted(v) EXCEPT ![1] = XorByte(@, Reduction)]
  ELSE Shifted(v)

Mul(x, y) ==
  LET loop[t \in 0 .. NumBits] ==
        IF t = 0 THEN [z |-> ZeroBlock, v |-> y]
        ELSE LET p == loop[t - 1]
             IN  [z |-> IF Bit(x, t - 1) = 1 THEN XorBlock(p.z, p.v) ELSE p.z,
                  v |-> TimesX(p.v)]
  IN  loop[NumBits].z

(* ghash *)

Ghash(h, data, len) ==
  LET loop[n \in 0 .. RoundUp(len) \div BlockSize] ==
        IF n = 0 THEN ZeroBlock
        ELSE Mul(XorBlock(loop[n - 1], Chunk(data, (n - 1) * BlockSize)), h)
  IN  loop[RoundUp(len) \div BlockSize]

(* gcm_inc32 *)

Split == BlockSize - CounterSize

CounterValue(b) ==
  LET value[j \in 0 .. CounterSize] ==
        IF j = 0 THEN 0 ELSE Base * value[j - 1] + b[Split + j]
  IN  value[CounterSize]

Inc(b) ==
  LET low == BigEndian(CounterValue(b) + 1, CounterSize)
  IN  [j \in 1 .. BlockSize |-> IF j > Split THEN low[j - Split] ELSE b[j]]

(* The computation of j0: the same lines in both functions *)

Bits(data) == Len(data) * ByteBits

LenField(n) == BigEndian(n, BlockSize \div 2)

PreCounter(h, iv) ==
  IF Len(iv) = Split
  THEN iv \o BigEndian(1, CounterSize)
  ELSE LET lenBlock == [j \in 1 .. BlockSize \div 2 |-> 0] \o LenField(Bits(iv))
       IN  Mul(XorBlock(Ghash(h, iv, Len(iv)), lenBlock), h)

(* The layout of ghash_input: the same lines in both functions *)

SizeT(n) == n % (SizeMax + 1)

BufSizeUnrounded(aad, ct) ==    \* mutant: the parts are not rounded up
  SizeT(Len(aad) + Len(ct) + BlockSize)

\* Nothing stops a sum that wraps (the two roundings wrap to the same remainder).
BufSize(aad, ct) == SizeT(RoundUp(Len(aad)) + RoundUp(Len(ct)) + BlockSize)

\* memcpy into a buffer that memset has cleared
Lay(buf, at, bytes) ==
  [j \in DOMAIN buf |-> IF j \in at + 1 .. at + Len(bytes) THEN bytes[j - at] ELSE buf[j]]

LayoutNoLengths(aad, ct) ==     \* mutant: the length block is missing
  LET cleared == [j \in 1 .. BufSize(aad, ct) |-> 0]
      atCt    == RoundUp(Len(aad))
  IN  [buf |-> Lay(Lay(cleared, 0, aad), atCt, ct),
       len |-> RoundUp(atCt + Len(ct)) + BlockSize]

Layout(aad, ct) ==
  LET cleared == [j \in 1 .. BufSize(aad, ct) |-> 0]
      atCt  == RoundUp(Len(aad))
      atLen == RoundUp(atCt + Len(ct))
  IN  [buf |-> Lay(Lay(Lay(cleared, 0, aad), atCt, ct),
                   atLen, LenField(Bits(aad)) \o LenField(Bits(ct))),
       len |-> atLen + BlockSize]

-----------------------------------------------------------------------------
(* The functions *)

Uninitialised ==
  [ctx |-> Junk, h |-> Junk, j0 |-> Junk, icb |-> Junk, s |-> Junk,
   computed |-> Junk, counter |-> Junk, encrypted |-> Junk]

Encrypting == call.fn = "encrypt"

Return(r) ==
  /\ ret' = r
  /\ pc' = "idle"

\* The calls, up to malloc.
Call(fn, key, iv, aad, data, given) ==
  /\ calls' = calls + 1
  /\ call' = [fn |-> fn, key |-> key, iv |-> iv, aad |-> aad, data |-> data, given |-> given]
  /\ i' = 0
  /\ local' = Uninitialised
  /\ out' = [j \in 1 .. Len(data) |-> Junk]
  /\ tag' = Junk
  /\ pc' = "malloc"
  /\ UNCHANGED <<ghashIn, ret, sealings, rejected, streams>>

CallEncrypt(key, iv, aad, m) == Call("encrypt", key, iv, aad, m, Junk)

CallDecrypt(key, iv, aad, c) == Call("decrypt", key, iv, aad, c.ct, c.tag)

MallocFails ==
  /\ pc = "malloc"
  /\ Return(-1)
  /\ UNCHANGED <<call, i, local, ghashIn, out, tag, calls, sealings, rejected, streams>>

EnterCtrAtJ0(l) ==           \* mutant: the data is enciphered from j0 on
  /\ pc' = "ctr"
  /\ i' = 0
  /\ local' = [l EXCEPT !.icb = l.j0,
                        !.counter = IF call.data = <<>> THEN @ ELSE l.j0]

\* gctr enters its loop only for data; counter starts as a copy of its icb.
EnterCtr(l) ==
  /\ pc' = "ctr"
  /\ i' = 0
  /\ local' = [l EXCEPT !.icb = Inc(l.j0),
                        !.counter = IF call.data = <<>> THEN @ ELSE Inc(l.j0)]

PrepareUnverified ==         \* mutant: decryption goes straight to the data
  /\ pc = "malloc"
  /\ ghashIn' = [buf |-> [j \in 1 .. BufSize(call.aad, call.data) |-> Junk], len |-> 0]
  /\ LET h == Enc(call.key, ZeroBlock)
     IN  EnterCtr([local EXCEPT !.ctx = call.key, !.h = h, !.j0 = PreCounter(h, call.iv)])
  /\ streams' = streams \cup {[n |-> calls, key |-> call.key, iv |-> call.iv, used |-> <<>>]}
  /\ UNCHANGED <<call, out, tag, ret, calls, sealings, rejected>>

\* malloc succeeds: sm4_setkey, h and j0.  Encryption goes on with the data,
\* decryption with the tag.
Prepare ==
  /\ pc = "malloc"
  /\ ghashIn' = [buf |-> [j \in 1 .. BufSize(call.aad, call.data) |-> Junk], len |-> 0]
  /\ LET h == Enc(call.key, ZeroBlock)
         l == [local EXCEPT !.ctx = call.key, !.h = h, !.j0 = PreCounter(h, call.iv)]
     IN  IF Encrypting
         THEN EnterCtr(l)
         ELSE pc' = "auth" /\ local' = l /\ UNCHANGED i
  /\ streams' = streams \cup {[n |-> calls, key |-> call.key, iv |-> call.iv, used |-> <<>>]}
  /\ UNCHANGED <<call, out, tag, ret, calls, sealings, rejected>>

Mask(data, stream, at) ==
  [j \in DOMAIN data |-> IF j \in at + 1 .. at + BlockSize
                         THEN XorByte(data[j], stream[j - at]) ELSE out[j]]

\* The counter block b was enciphered in this call.
Note(b) ==
  streams' = {IF s.n = calls THEN [s EXCEPT !.used = Append(@, b)] ELSE s : s \in streams}

\* One iteration of gctr over the data.
CtrBlock ==
  /\ pc = "ctr" /\ i < Len(call.data)
  /\ LET e == Enc(local.ctx, local.counter)
     IN  /\ out' = Mask(call.data, e, i)
         /\ local' = [local EXCEPT !.encrypted = e, !.counter = Inc(@)]
  /\ Note(local.counter)
  /\ i' = i + BlockSize
  /\ UNCHANGED <<pc, call, ghashIn, tag, ret, calls, sealings, rejected>>

\* The ciphertext that is authenticated, the contents of ghash_input, s, and the
\* second gctr, over s with j0.
TagOf(ct) ==
  LET filled == Layout(call.aad, ct)
      s == Ghash(local.h, filled.buf, filled.len)
      e == Enc(local.ctx, local.j0)
  IN  /\ ghashIn' = filled
      /\ local' = [local EXCEPT !.s = s, !.encrypted = e, !.counter = Inc(local.j0),
                                !.computed = IF Encrypting THEN @ ELSE XorBlock(s, e)]
      /\ tag' = IF Encrypting THEN XorBlock(s, e) ELSE tag
      /\ Note(local.j0)

EncryptTag ==
  /\ pc = "ctr" /\ Encrypting /\ i >= Len(call.data)
  /\ TagOf(out)
  /\ pc' = "check"
  /\ UNCHANGED <<call, i, out, ret, calls, sealings, rejected>>

DecryptTag ==
  /\ pc = "auth"
  /\ TagOf(call.data)
  /\ pc' = "check"
  /\ UNCHANGED <<call, i, out, ret, calls, sealings, rejected>>

\* sm4_context_clean, the memsets and free.  icb is cleared by a successful
\* decryption only, gctr clears nothing.
CleanedKeepsSubkey ==        \* mutant: h is not cleared
  [local EXCEPT !.ctx = Zeroed, !.j0 = Zeroed, !.s = Zeroed,
                !.computed = IF Encrypting THEN @ ELSE Zeroed]

Cleaned ==
  [local EXCEPT !.ctx = Zeroed, !.h = Zeroed, !.j0 = Zeroed, !.s = Zeroed,
                !.computed = IF Encrypting THEN @ ELSE Zeroed]

Param == [key |-> call.key, iv |-> call.iv, aad |-> call.aad]

FinishEncrypt ==
  /\ pc = "check" /\ Encrypting
  /\ local' = Cleaned
  /\ sealings' = sealings \cup
       {[param |-> Param, pt |-> call.data, ct |-> [ct |-> out, tag |-> tag],
         authed |-> ghashIn.buf]}
  /\ ghashIn' = Junk
  /\ Return(0)
  /\ UNCHANGED <<call, i, out, tag, calls, rejected, streams>>

DiffersShort(a, b) ==        \* mutant: the loop leaves the last byte out
  \E j \in 1 .. BlockSize - 1 : a[j] # b[j]

\* diff |= computed_tag[i] ^ tag[i], then diff != 0
Differs(a, b) == \E j \in 1 .. BlockSize : a[j] # b[j]

Given == [ct |-> call.data, tag |-> call.given]

\* The tag comparison fails: no plaintext was written.
RejectTag ==
  /\ pc = "check" /\ ~Encrypting /\ Differs(local.computed, call.given)
  /\ local' = Cleaned
  /\ ghashIn' = Junk
  /\ rejected' = rejected \cup {[param |-> Param, ct |-> Given]}
  /\ Return(-1)
  /\ UNCHANGED <<call, i, out, tag, calls, sealings, streams>>

AcceptTag ==
  /\ pc = "check" /\ ~Encrypting /\ ~Differs(local.computed, call.given)
  /\ EnterCtr(local)
  /\ UNCHANGED <<call, ghashIn, out, tag, ret, calls, sealings, rejected, streams>>

FinishDecrypt ==
  /\ pc = "ctr" /\ ~Encrypting /\ i >= Len(call.data)
  /\ local' = [Cleaned EXCEPT !.icb = Zeroed]
  /\ sealings' = sealings \cup
       {[param |-> Param, pt |-> out, ct |-> Given, authed |-> ghashIn.buf]}
  /\ ghashIn' = Junk
  /\ Return(0)
  /\ UNCHANGED <<call, i, out, tag, calls, rejected, streams>>

-----------------------------------------------------------------------------
Init ==
  /\ pc = "idle"
  /\ call = [fn |-> "none"]
  /\ i = 0
  /\ local = Uninitialised
  /\ ghashIn = Junk
  /\ out = <<>>
  /\ tag = Junk
  /\ ret = 0
  /\ calls = 0
  /\ sealings = {} /\ rejected = {} /\ streams = {}

\* What may reach a decryption instead of what was sent: the tag or the text
\* changed, or bytes moved between text and tag.
Damaged(c) ==
  {[c EXCEPT !.tag[j] = (@ + 1) % Base] : j \in 1 .. BlockSize} \cup
  {[c EXCEPT !.ct[j] = (@ + 1) % Base] : j \in DOMAIN c.ct} \cup
  (IF c.ct = <<>> THEN {}
   ELSE {[ct |-> Front(c.ct), tag |-> c.tag],
         [ct |-> Front(c.ct), tag |-> <<Last(c.ct)>> \o Front(c.tag)]})

Known == {e.ct : e \in sealings}

Next ==
  \/ pc = "idle" /\ calls < MaxCalls /\ \E key \in Key, iv \in IVs, aad \in AADs :
       \/ \E m \in Messages : CallEncrypt(key, iv, aad, m)
       \/ \E c \in Strays \cup Known \cup UNION {Damaged(d) : d \in Known} :
            CallDecrypt(key, iv, aad, c)
  \/ MallocFails
  \/ Prepare
  \/ CtrBlock
  \/ EncryptTag
  \/ DecryptTag
  \/ FinishEncrypt
  \/ RejectTag
  \/ AcceptTag
  \/ FinishDecrypt

Spec == Init /\ [][Next]_vars

-----------------------------------------------------------------------------
(* GCM as its definition has it, on polynomials over GF(2) *)

\* The coefficient of x^t in the polynomial a block stands for is Bit(b, t), and
\* x^NumBits is the polynomial of Reduction.
Reduced == {u \in 0 .. ByteBits - 1 : (Reduction \div (2 ^ (ByteBits - 1 - u))) % 2 = 1}

\* The set of the exponents of x^k modulo the field polynomial, for k below 2 NumBits.
Power ==
  LET p[k \in 0 .. 2 * NumBits - 1] ==
        IF k < NumBits THEN {k}
        ELSE {t \in 0 .. NumBits - 1 :
                Cardinality({u \in Reduced : t \in p[k - NumBits + u]}) % 2 = 1}
  IN  p

Exponents(b) == {t \in 0 .. NumBits - 1 : Bit(b, t) = 1}

\* Products of polynomials, which are given by their sets of exponents.
Times(A, B) ==
  {t \in 0 .. NumBits - 1 :
     Cardinality({p \in A \X B : t \in Power[p[1] + p[2]]}) % 2 = 1}

PadZero(data) == data \o [j \in 1 .. RoundUp(Len(data)) - Len(data) |-> 0]

Hash(H, data) ==
  LET sum[n \in 0 .. Len(data) \div BlockSize] ==
        IF n = 0 THEN {}
        ELSE Times(SymDiff(sum[n - 1],
                           Exponents(SubSeq(data, (n - 1) * BlockSize + 1, n * BlockSize))), H)
  IN  sum[Len(data) \div BlockSize]

ToBlock(A) == CHOOSE b \in Block : Exponents(b) = A

\* J0 and the k-th counter block after it.
FirstCounter(key, iv) ==
  IF Len(iv) = Split THEN iv \o BigEndian(1, CounterSize)
  ELSE ToBlock(Hash(Exponents(Enc(key, ZeroBlock)),
                    PadZero(iv) \o [j \in 1 .. BlockSize \div 2 |-> 0] \o LenField(Bits(iv))))

CounterAfter(b, k) ==
  SubSeq(b, 1, Split) \o
    BigEndian((CounterValue(b) + k) % (Base ^ CounterSize), CounterSize)

TextOf(p, data) ==
  [j \in 1 .. Len(data) |->
     XorByte(data[j], Enc(p.key, CounterAfter(FirstCounter(p.key, p.iv),
                                              ((j - 1) \div BlockSize) + 1))
                        [((j - 1) % BlockSize) + 1])]

TagFor(p, ct) ==
  XorBlock(Enc(p.key, FirstCounter(p.key, p.iv)),
           ToBlock(Hash(Exponents(Enc(p.key, ZeroBlock)),
                        PadZero(p.aad) \o PadZero(ct) \o
                          LenField(Bits(p.aad)) \o LenField(Bits(ct)))))

-----------------------------------------------------------------------------
(* Properties *)

Memory(S) == S \cup {Junk, Zeroed}

\* Every variable has its type; in particular every counter, tag and hash is made
\* of bytes whatever the IV, the wrap of the counter included.
TypeOK ==
  /\ pc \in {"idle", "malloc", "ctr", "auth", "check"}
  /\ i \in 0 .. Len(out) + BlockSize
  /\ local.ctx \in Memory(Key)
  /\ \A f \in DOMAIN local \ {"ctx"} : local[f] \in Memory(Block)
  /\ ghashIn # Junk => /\ ghashIn.len \in Nat
                       /\ ghashIn.buf \in Seq(Byte \cup {Junk})
  /\ out \in Seq(Byte \cup {Junk})
  /\ tag \in Block \cup {Junk}
  /\ ret \in {0, -1}
  /\ \A e \in sealings : e.pt \in Seq(Byte) /\ e.ct \in Sealed
  /\ \A e \in rejected : e.ct \in Sealed

\* The AAD, the ciphertext and the length block end exactly where the buffer that
\* malloc gave for them ends, whatever the two lengths: ghash_len = ghash_buf_size.
InBounds == pc = "check" => ghashIn.len = Len(ghashIn.buf)

\* However a function returns, ghash_input is freed and the round keys, the hash
\* key, J0, S and the computed tag are gone (sm4_c/docs/requirements/feature-4.md);
\* counter and encrypted_counter of gctr, which the document names too, stay behind.
CleanExit ==
  pc = "idle" =>
    /\ ghashIn = Junk
    /\ \A f \in {"ctx", "h", "j0", "s", "computed"} : local[f] \in {Junk, Zeroed}

\* sm4_gcm_decrypt writes no byte of plaintext, at any moment, unless the tag it
\* was given is the one GCM defines for this key, IV, AAD and ciphertext; a call
\* that fails leaves the output and the tag as they were.
OnlyAuthenticPlaintext ==
  /\ call.fn = "decrypt" /\ (\E j \in DOMAIN out : out[j] # Junk)
       => call.given = TagFor(Param, call.data)
  /\ pc = "idle" /\ ret = -1 => tag = Junk /\ \A j \in DOMAIN out : out[j] = Junk

\* No counter block is enciphered twice: not within a call, where the block that
\* masks the tag counts too, and not by two calls under one key whose IVs have the
\* recommended length and differ.
NoKeystreamReuse ==
  /\ \A s \in streams : \A a, b \in DOMAIN s.used : a # b => s.used[a] # s.used[b]
  /\ \A s, t \in streams :
       s.key = t.key /\ s.iv # t.iv /\ Len(s.iv) = Split /\ Len(t.iv) = Split
       => ToSet(s.used) \cap ToSet(t.used) = {}

\* What is hashed determines the AAD and the ciphertext: no byte can move from one
\* to the other, and no trailing zero can be added or dropped.
HashInputInjective ==
  \A e, f \in sealings :
    e.authed = f.authed => e.param.aad = f.param.aad /\ e.ct.ct = f.ct.ct

\* Each answer is the one of the definition of GCM, for IVs of both lengths:
\* gf128_mul is the product of the field, the counter wraps inside its bytes, the
\* parts are hashed in their order.
MatchesDefinition ==
  pc = "idle" /\ ret = 0 /\ calls > 0 =>
    /\ out = TextOf(Param, call.data)
    /\ IF Encrypting THEN tag = TagFor(Param, out) ELSE call.given = TagFor(Param, call.data)

Box == INSTANCE CipherBox WITH
  Param <- [key : Key, iv : Seq(Byte), aad : Seq(Byte)],
  Plain <- Seq(Byte),
  table <- {[param |-> e.param, pt |-> e.pt, ct |-> e.ct] : e \in sealings}

\* For each key, IV and AAD sealing and opening are one bijection between
\* plaintexts and what sm4_gcm_decrypt accepts, and what it refuses is never
\* produced by sm4_gcm_encrypt.
ImplementsBox == Box!Spec

=============================================================================

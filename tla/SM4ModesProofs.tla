--------------------------- MODULE SM4ModesProofs ---------------------------
(***************************************************************************)
(* Theorems about SM4Modes: for every block size, cipher, message and number *)
(* of calls the four functions of sm4_c/sm4.c stay inside their buffers,     *)
(* clean up however they return, and are under each key and IV one bijection *)
(* between plaintexts and the ciphertexts decryption accepts.                *)
(***************************************************************************)
EXTENDS SM4Modes, SequenceTheorems, TLAPS

-----------------------------------------------------------------------------
(* The inductive invariant *)

Params == [mode : {"ecb", "cbc"}, key : Key, iv : Block \cup {NoIV}]

\* What sm4_ext.c passes: a cbc call has an IV.
GoodParam(p) == p \in Params /\ (p.mode = "cbc" => p.iv \in Block)

GoodPlain(m)  == m \in PlainText /\ Len(m.tail) < BlockSize
GoodSealed(c) == c \in CipherText /\ Len(c.blocks) * BlockSize <= SizeMax

\* The block chained into block n of a ciphertext.
Previous(p, blocks, n) == IF n = 1 THEN p.iv ELSE blocks[n - 1]

\* A ciphertext block, its chaining block, and the padded plaintext block they
\* stand for.
Open(mode, key, b, prev) ==
  IF mode = "cbc" THEN XorBlock(Dec(key, b), prev) ELSE Dec(key, b)
Close(mode, key, b, prev) ==
  IF mode = "cbc" THEN Enc(key, XorBlock(b, prev)) ELSE Enc(key, b)

OpenAt(p, blocks, n) == Open(p.mode, p.key, blocks[n], Previous(p, blocks, n))

Locals == [ctx : Memory(Key), block : Memory(Block), prev : Memory(Block),
           padded : Seq(Block) \cup {Junk, Zeroed}]

StateInv ==
  /\ pc \in {"idle", "malloc", "loop"}
  /\ i \in 0 .. Len(out)
  /\ local \in Locals
  /\ held \in BOOLEAN
  /\ out \in Seq(Block \cup {Junk})
  /\ outLen \in (0 .. SizeMax) \cup {Junk}
  /\ ret \in {0, -1}

\* Inside a call.
CallInv ==
  pc # "idle" =>
    /\ GoodParam(Param)
    /\ call.fn \in {"encrypt", "decrypt"}
    /\ pc = "malloc" => Encrypting
    /\ outLen = Junk

\* Before malloc nothing has been touched.
MallocInv ==
  pc = "malloc" =>
    /\ ~held /\ i = 0 /\ local = Uninitialised
    /\ \A j \in DOMAIN out : out[j] = Junk

EncryptCall ==
  pc # "idle" /\ Encrypting =>
    /\ GoodPlain(call.data) /\ ~Overflows(ByteLen(call.data))
    /\ Len(out) = Len(call.data.full) + 1

\* The loop of the encrypting functions.  The last part compares the output so
\* far with every earlier answer to the same call.
EncryptInv ==
  pc = "loop" /\ Encrypting =>
    /\ local.ctx = call.key
    /\ local.padded = Pad(call.data)
    /\ Chained => local.prev = Previous(Param, out, i + 1)
    /\ ~Chained => local.block = Junk /\ local.prev = Junk
    /\ \A j \in 1 .. i : /\ out[j] \in Block
                         /\ OpenAt(Param, out, j) = Pad(call.data)[j]
    /\ \A e \in table : e.param = Param /\ e.pt = call.data =>
         \A j \in 1 .. i : out[j] = e.ct.blocks[j]

\* The loop of the decrypting functions.  The last part: as long as the output
\* agrees with a padded plaintext that was answered for, the input agrees with
\* its ciphertext.
DecryptInv ==
  pc = "loop" /\ ~Encrypting =>
    /\ ~held
    /\ GoodSealed(call.data) /\ ~call.data.ragged /\ call.data.blocks # <<>>
    /\ Len(out) = Len(call.data.blocks)
    /\ local.ctx = call.key
    /\ local.padded = Junk
    /\ Chained => local.prev = Previous(Param, call.data.blocks, i + 1)
    /\ ~Chained => local.block = Junk /\ local.prev = Junk
    /\ call.alias \in BOOLEAN
    /\ call.alias => /\ ~Chained
                     /\ \A j \in i + 1 .. Len(out) : out[j] = call.data.blocks[j]
    /\ \A j \in 1 .. i : out[j] = OpenAt(Param, call.data.blocks, j)
    /\ \A e \in table :
         /\ e.param = Param /\ i <= Len(e.ct.blocks)
         /\ \A j \in 1 .. i : out[j] = Pad(e.pt)[j]
         => \A j \in 1 .. i : call.data.blocks[j] = e.ct.blocks[j]

GoodAnswer(e) ==
  /\ e \in [param : Params, pt : PlainText, ct : CipherText]
  /\ GoodParam(e.param) /\ GoodPlain(e.pt) /\ GoodSealed(e.ct)
  /\ ~e.ct.ragged
  /\ Len(e.ct.blocks) = Len(e.pt.full) + 1
  /\ \A j \in 1 .. Len(e.ct.blocks) : Pad(e.pt)[j] = OpenAt(e.param, e.ct.blocks, j)

GoodRefusal(r) ==
  /\ r \in [param : Params, ct : CipherText]
  /\ \/ r.ct.ragged
     \/ r.ct.blocks = <<>>
     \/ ~ValidPadding(OpenAt(r.param, r.ct.blocks, Len(r.ct.blocks)))

GoodTrace(t) == t.gives = Open(t.mode, t.key, t.of, t.after)

HistoryInv ==
  /\ \A e \in table : GoodAnswer(e)
  /\ \A r \in rejected : GoodRefusal(r)
  /\ \A t \in traces : GoodTrace(t)

IInv ==
  /\ StateInv
  /\ CallInv
  /\ MallocInv
  /\ EncryptCall
  /\ EncryptInv
  /\ DecryptInv
  /\ HistoryInv
  /\ CleanExit
  /\ FailureLeavesLength
  /\ Box!Bijective

\* What a step may add to the history a caller sees.
BoxStep ==
  \/ UNCHANGED <<table, rejected>>
  \/ \E e : GoodAnswer(e) /\ table' = table \cup {e} /\ UNCHANGED rejected
  \/ \E r : GoodRefusal(r) /\ rejected' = rejected \cup {r} /\ UNCHANGED table

-----------------------------------------------------------------------------
(* Lengths *)

LEMMA Quotient ==
  ASSUME NEW b \in Nat \ {0}, NEW a \in Nat, NEW c \in 0 .. b - 1,
         NEW n, n = a * b + c
  PROVE  /\ n \in Nat
         /\ n \div b = a
         /\ n % b = c
  OBVIOUS

LEMMA Modulo ==
  ASSUME NEW a \in Nat, NEW b \in Nat \ {0}
  PROVE  a % b \in Nat /\ a \div b \in Nat
  OBVIOUS

LEMMA NextMultiple ==
  ASSUME NEW b \in Nat \ {0}, NEW a \in Nat
  PROVE  (a + 1) * b = a * b + b /\ (a + 1) * b \in Nat /\ a * b \in Nat
  OBVIOUS

\* Where the overflow check passes, the padded length is that of the whole
\* blocks and one more, and so is the output buffer of the caller.
LEMMA Lengths ==
  ASSUME NEW m, GoodPlain(m)
  PROVE  /\ Len(m.full) \in Nat /\ Len(m.tail) \in 0 .. BlockSize - 1
         /\ ByteLen(m) \in Nat
         /\ SizeT(ByteLen(m) + BlockSize) \div BlockSize \in Nat
         /\ ~Overflows(ByteLen(m)) =>
              /\ PaddedLen(ByteLen(m)) = (Len(m.full) + 1) * BlockSize
              /\ (Len(m.full) + 1) * BlockSize \in 0 .. SizeMax
              /\ PaddedLen(ByteLen(m)) \div BlockSize = Len(m.full) + 1
              /\ SizeT(ByteLen(m) + BlockSize) \div BlockSize = Len(m.full) + 1
<1> DEFINE F == Len(m.full)
           t == Len(m.tail)
           n == ByteLen(m)
           G == F + 1
           w == F * BlockSize
           v == G * BlockSize
<1>1. F \in Nat /\ t \in 0 .. BlockSize - 1 /\ BlockSize \in Nat \ {0} /\ SizeMax \in Nat
  BY SizeAssumption DEF GoodPlain, PlainText
<1>2. n = F * BlockSize + t
  BY DEF ByteLen
<1>3. n = w + t
  BY <1>2
<1> HIDE DEF F, t, n
<1>4. n \div BlockSize = F /\ n % BlockSize = t /\ n \in Nat
  BY <1>1, <1>2, Quotient
<1>5. v = w + BlockSize /\ v \in Nat /\ w \in Nat /\ G \in Nat
  BY <1>1, NextMultiple
<1>6. v = G * BlockSize
  OBVIOUS
<1> HIDE DEF v, w, G
<1>7. n + BlockSize = v + t
  BY <1>1, <1>3, <1>5
<1>8. v \div BlockSize = G /\ (n + BlockSize) \div BlockSize = G
  <2>1. v = G * BlockSize + 0 /\ 0 \in 0 .. BlockSize - 1
    BY <1>1, <1>5, <1>6
  <2>2. n + BlockSize = G * BlockSize + t
    BY <1>6, <1>7
  <2>3. v \div BlockSize = G
    BY <1>1, <1>5, <2>1, Quotient
  <2>4. (n + BlockSize) \div BlockSize = G
    BY <1>1, <1>5, <2>2, Quotient
  <2> QED
    BY <2>3, <2>4
<1>9. SizeT(n + BlockSize) \div BlockSize \in Nat
  <2>1. n + BlockSize \in Nat /\ SizeMax + 1 \in Nat \ {0}
    BY <1>1, <1>4
  <2> QED
    BY <1>1, <2>1, Modulo DEF SizeT
<1>10. ASSUME ~Overflows(n)
       PROVE  /\ PaddedLen(n) = v
              /\ v \in 0 .. SizeMax
              /\ SizeT(n + BlockSize) = n + BlockSize
  <2>1. n + BlockSize <= SizeMax
    BY <1>1, <1>4, <1>10 DEF Overflows
  <2>2. n + BlockSize - (n % BlockSize) = v
    BY <1>1, <1>4, <1>5, <1>7
  <2>3. v \in 0 .. SizeMax /\ n + BlockSize \in 0 .. SizeMax
    BY <1>1, <1>4, <1>5, <1>7, <2>1
  <2>4. \A k \in 0 .. SizeMax : k % (SizeMax + 1) = k
    BY <1>1
  <2> QED
    BY <2>2, <2>3, <2>4 DEF PaddedLen, SizeT
<1> QED
  BY <1>1, <1>4, <1>8, <1>9, <1>10 DEF F, t, n, v, G

-----------------------------------------------------------------------------
(* pkcs7_pad and pkcs7_unpad *)

LEMMA SameBlock ==
  ASSUME NEW b \in Block, NEW c \in Block, \A j \in 1 .. BlockSize : b[j] = c[j]
  PROVE  b = c
<1> DEFINE S == 1 .. BlockSize
<1>1. b \in [S -> Byte] /\ c \in [S -> Byte] /\ \A j \in S : b[j] = c[j]
  BY DEF Block
<1> HIDE DEF S
<1> QED
  BY <1>1

\* The block pkcs7_pad completes.
LastBlock(m) ==
  [j \in 1 .. BlockSize |->
     IF j <= Len(m.tail) THEN m.tail[j] ELSE BlockSize - Len(m.tail)]

LEMMA PadBlocks ==
  ASSUME NEW m, GoodPlain(m)
  PROVE  /\ LastBlock(m) \in Block
         /\ Pad(m) \in Seq(Block)
         /\ Len(Pad(m)) = Len(m.full) + 1
         /\ \A j \in 1 .. Len(m.full) : Pad(m)[j] = m.full[j]
         /\ Pad(m)[Len(m.full) + 1] = LastBlock(m)
         /\ \A j \in 1 .. Len(Pad(m)) : Pad(m)[j] \in Block
<1>1. /\ m.full \in Seq(Block) /\ m.tail \in Seq(Byte)
      /\ Len(m.tail) \in 0 .. BlockSize - 1 /\ BlockSize \in Nat \ {0}
  BY SizeAssumption, Lengths DEF GoodPlain, PlainText
<1>2. \A j \in 1 .. BlockSize : LastBlock(m)[j] \in Byte
  <2>1. \A j \in 1 .. Len(m.tail) : m.tail[j] \in Byte
    BY <1>1
  <2>2. BlockSize - Len(m.tail) \in Byte
    BY <1>1, SizeAssumption
  <2> QED
    BY <1>1, <2>1, <2>2 DEF LastBlock
<1>3. LastBlock(m) \in Block
  BY <1>2 DEF Block, LastBlock
<1>4. Pad(m) = Append(m.full, LastBlock(m))
  BY DEF Pad, LastBlock
<1>5. Pad(m) \in Seq(Block) /\ Len(Pad(m)) = Len(m.full) + 1
      /\ (\A j \in 1 .. Len(m.full) : Pad(m)[j] = m.full[j])
      /\ Pad(m)[Len(m.full) + 1] = LastBlock(m)
  BY <1>1, <1>3, <1>4, AppendProperties
<1>6. \A j \in 1 .. Len(Pad(m)) : Pad(m)[j] \in Block
  BY <1>5
<1> QED
  BY <1>3, <1>5, <1>6

\* Two messages with the same padded blocks are the same message.
LEMMA PadInjective ==
  ASSUME NEW m, GoodPlain(m), NEW n, GoodPlain(n),
         Len(Pad(m)) = Len(Pad(n)),
         \A j \in 1 .. Len(Pad(m)) : Pad(m)[j] = Pad(n)[j]
  PROVE  m = n
<1>1. /\ m.full \in Seq(Block) /\ m.tail \in Seq(Byte)
      /\ n.full \in Seq(Block) /\ n.tail \in Seq(Byte)
      /\ Len(m.tail) \in 0 .. BlockSize - 1 /\ Len(n.tail) \in 0 .. BlockSize - 1
      /\ BlockSize \in Nat \ {0} /\ Len(m.full) \in Nat /\ Len(n.full) \in Nat
  BY SizeAssumption, Lengths DEF GoodPlain, PlainText
<1>2. Len(m.full) = Len(n.full)
  BY <1>1, PadBlocks
<1>3. \A j \in 1 .. Len(m.full) : m.full[j] = n.full[j]
  <2> TAKE j \in 1 .. Len(m.full)
  <2>1. Pad(m)[j] = m.full[j]
    BY PadBlocks
  <2>2. Pad(n)[j] = n.full[j]
    BY <1>2, PadBlocks
  <2>3. j \in 1 .. Len(Pad(m))
    BY <1>1, PadBlocks
  <2> QED
    BY <2>1, <2>2, <2>3
<1>4. m.full = n.full
  BY <1>1, <1>2, <1>3, SeqEqual
<1>5. LastBlock(m) = LastBlock(n)
  <2>1. Len(m.full) + 1 \in 1 .. Len(Pad(m))
    BY <1>1, PadBlocks
  <2>2. Pad(m)[Len(m.full) + 1] = LastBlock(m)
    BY PadBlocks
  <2>3. Pad(n)[Len(m.full) + 1] = LastBlock(n)
    BY <1>2, PadBlocks
  <2> QED
    BY <2>1, <2>2, <2>3
<1>6. \A j \in 1 .. BlockSize :
        /\ LastBlock(m)[j] = IF j <= Len(m.tail) THEN m.tail[j] ELSE BlockSize - Len(m.tail)
        /\ LastBlock(n)[j] = IF j <= Len(n.tail) THEN n.tail[j] ELSE BlockSize - Len(n.tail)
  BY DEF LastBlock
<1>7. Len(m.tail) = Len(n.tail)
  <2>1. BlockSize \in 1 .. BlockSize
    BY <1>1
  <2>2. ~(BlockSize <= Len(m.tail)) /\ ~(BlockSize <= Len(n.tail))
    BY <1>1
  <2>3. /\ LastBlock(m)[BlockSize] = BlockSize - Len(m.tail)
        /\ LastBlock(n)[BlockSize] = BlockSize - Len(n.tail)
    BY <1>6, <2>1, <2>2
  <2>4. BlockSize - Len(m.tail) = BlockSize - Len(n.tail)
    BY <1>5, <2>3
  <2> QED
    BY <1>1, <2>4
<1>8. \A j \in 1 .. Len(m.tail) : m.tail[j] = n.tail[j]
  <2> TAKE j \in 1 .. Len(m.tail)
  <2>1. j \in 1 .. BlockSize /\ j <= Len(m.tail) /\ j <= Len(n.tail)
    BY <1>1, <1>7
  <2> QED
    BY <1>5, <1>6, <2>1
<1>9. m.tail = n.tail
  BY <1>1, <1>7, <1>8, SeqEqual
<1> QED
  BY <1>4, <1>9 DEF GoodPlain, PlainText

\* pkcs7_unpad accepts what pkcs7_pad writes.
LEMMA PadValid ==
  ASSUME NEW m, GoodPlain(m)
  PROVE  ValidPadding(LastBlock(m))
<1>1. Len(m.tail) \in 0 .. BlockSize - 1 /\ BlockSize \in Nat \ {0}
  BY SizeAssumption, Lengths
<1>2. \A j \in 1 .. BlockSize : Len(m.tail) < j =>
        LastBlock(m)[j] = BlockSize - Len(m.tail)
  BY <1>1 DEF LastBlock
<1>3. LastBlock(m)[BlockSize] = BlockSize - Len(m.tail)
  BY <1>1, <1>2
<1>4. \A j \in BlockSize - (BlockSize - Len(m.tail)) + 1 .. BlockSize :
        j \in 1 .. BlockSize /\ Len(m.tail) < j
  BY <1>1
<1> QED
  BY <1>1, <1>2, <1>3, <1>4 DEF ValidPadding

\* What pkcs7_unpad leaves of a buffer pads to that buffer again.
LEMMA PadTaken ==
  ASSUME NEW buf \in Seq(Block), buf # <<>>, Len(buf) * BlockSize <= SizeMax,
         ValidPadding(buf[Len(buf)])
  PROVE  LET u == Unpad(buf, Len(buf))
             m == Taken(buf, u.len)
         IN  /\ u.ret = 0 /\ u.len \in 0 .. SizeMax
             /\ GoodPlain(m) /\ Len(m.full) + 1 = Len(buf)
             /\ \A j \in 1 .. Len(buf) : Pad(m)[j] = buf[j]
<1> DEFINE n    == Len(buf)
           last == buf[n]
           pad  == last[BlockSize]
           t    == BlockSize - pad
           h    == n - 1
           u    == Unpad(buf, n)
           m    == Taken(buf, u.len)
<1>1. n \in Nat \ {0} /\ last \in Block /\ BlockSize \in Nat \ {0} /\ SizeMax \in Nat
  BY SizeAssumption, EmptySeq
<1>2. pad \in 1 .. BlockSize /\ \A j \in t + 1 .. BlockSize : last[j] = pad
  BY DEF ValidPadding
<1>3. t \in 0 .. BlockSize - 1 /\ h \in Nat /\ h + 1 = n /\ BlockSize - t = pad
  BY <1>1, <1>2
<1>4. u.ret = 0 /\ u.len = n * BlockSize - pad
  BY <1>1 DEF Unpad
<1>5. u.len = h * BlockSize + t
  BY <1>1, <1>2, <1>4
<1>6. /\ m.full = SubSeq(buf, 1, u.len \div BlockSize)
      /\ m.tail = IF u.len % BlockSize = 0 THEN <<>>
                  ELSE SubSeq(buf[(u.len \div BlockSize) + 1], 1, u.len % BlockSize)
      /\ m = [full |-> m.full, tail |-> m.tail]
  BY DEF Taken
<1>7. Len(buf) = n /\ last = buf[n] /\ pad = last[BlockSize]
  OBVIOUS
<1> HIDE DEF u, m, h, t, pad, last, n
<1>8. u.len \div BlockSize = h /\ u.len % BlockSize = t /\ u.len \in Nat
  <2>1. h \in Nat /\ t \in 0 .. BlockSize - 1 /\ BlockSize \in Nat \ {0}
    BY <1>1, <1>3
  <2> QED
    BY <1>5, <2>1, Quotient
<1>9. u.len \in 0 .. SizeMax
  <2>1. n * BlockSize \in Nat
    BY <1>1
  <2>2. n * BlockSize <= SizeMax
    BY <1>7
  <2> QED
    BY <1>1, <1>2, <1>4, <1>8, <2>1, <2>2
<1>10. /\ m.full \in Seq(Block) /\ Len(m.full) = h
       /\ \A j \in 1 .. h : m.full[j] = buf[j]
  <2>1. m.full = SubSeq(buf, 1, h)
    BY <1>6, <1>8
  <2>2. \A j \in 1 .. h : buf[j] \in Block
    BY <1>1, <1>3, <1>7
  <2> QED
    BY <1>1, <1>3, <2>1, <2>2, SubSeqProperties
<1>11. /\ m.tail \in Seq(Byte) /\ Len(m.tail) = t
       /\ \A j \in 1 .. t : m.tail[j] = last[j]
  <2>1. CASE t = 0
    BY <1>6, <1>8, <2>1, EmptySeq
  <2>2. CASE t # 0
    <3>1. m.tail = SubSeq(last, 1, t)
      BY <1>3, <1>6, <1>7, <1>8, <2>2
    <3>2. \A j \in 1 .. t : last[j] \in Byte
      BY <1>1, <1>3 DEF Block
    <3> QED
      BY <1>1, <1>3, <2>2, <3>1, <3>2, SubSeqProperties
  <2> QED
    BY <2>1, <2>2
<1>12. GoodPlain(m)
  <2>1. m \in PlainText
    BY <1>6, <1>10, <1>11 DEF PlainText
  <2> QED
    BY <1>1, <1>3, <1>11, <2>1 DEF GoodPlain
<1>13. LastBlock(m) = last
  <2>2. ASSUME NEW j \in 1 .. BlockSize PROVE LastBlock(m)[j] = last[j]
    <3>1. LastBlock(m)[j] = IF j <= t THEN m.tail[j] ELSE BlockSize - t
      BY <1>11 DEF LastBlock
    <3>2. CASE j <= t
      BY <1>3, <1>11, <3>1, <3>2
    <3>3. CASE ~(j <= t)
      <4>1. j \in t + 1 .. BlockSize
        BY <1>1, <1>3, <3>3
      <4> QED
        BY <1>2, <1>3, <3>1, <3>3, <4>1
    <3> QED
      BY <3>2, <3>3
  <2>3. \A j \in 1 .. BlockSize : LastBlock(m)[j] = last[j]
    BY <2>2
  <2> QED
    BY <1>1, <1>12, <2>3, PadBlocks, SameBlock
<1>14. Len(m.full) + 1 = n
  BY <1>3, <1>10
<1>15. ASSUME NEW j \in 1 .. n PROVE Pad(m)[j] = buf[j]
  <2>1. CASE j = n
    <3>1. Pad(m)[Len(m.full) + 1] = LastBlock(m)
      BY <1>12, PadBlocks
    <3> QED
      BY <1>7, <1>13, <1>14, <2>1, <3>1
  <2>2. CASE j # n
    <3>1. j \in 1 .. Len(m.full)
      BY <1>1, <1>3, <1>10, <2>2
    <3>2. Pad(m)[j] = m.full[j]
      BY <1>12, <3>1, PadBlocks
    <3> QED
      BY <1>10, <3>1, <3>2
  <2> QED
    BY <2>1, <2>2
<1>16. /\ u.ret = 0 /\ u.len \in 0 .. SizeMax /\ GoodPlain(m) /\ Len(m.full) + 1 = n
       /\ \A j \in 1 .. n : Pad(m)[j] = buf[j]
  BY <1>4, <1>9, <1>12, <1>14, <1>15
<1> QED
  BY <1>16 DEF m, u, n

-----------------------------------------------------------------------------
(* One block *)

LEMMA XorBlocks ==
  ASSUME NEW a \in Block, NEW b \in Block
  PROVE  XorBlock(a, b) \in Block /\ XorBlock(XorBlock(a, b), b) = a
<1>1. \A j \in 1 .. BlockSize : a[j] \in Byte /\ b[j] \in Byte
  BY DEF Block
<1>2. XorBlock(a, b) \in Block
  BY <1>1, XorAssumption DEF XorBlock, Block
<1>3. \A j \in 1 .. BlockSize : XorBlock(a, b)[j] = XorByte(a[j], b[j])
  BY DEF XorBlock
<1>4. \A j \in 1 .. BlockSize : XorBlock(XorBlock(a, b), b)[j] = a[j]
  <2> TAKE j \in 1 .. BlockSize
  <2>1. XorBlock(XorBlock(a, b), b)[j] = XorByte(XorBlock(a, b)[j], b[j])
    BY DEF XorBlock
  <2> QED
    BY <1>1, <1>3, <2>1, XorAssumption
<1>5. XorBlock(XorBlock(a, b), b) \in Block
  <2>1. \A j \in 1 .. BlockSize : XorBlock(a, b)[j] \in Byte
    BY <1>1, <1>3, XorAssumption
  <2> QED
    BY <1>1, <2>1, XorAssumption DEF XorBlock, Block
<1> QED
  BY <1>2, <1>4, <1>5, SameBlock

\* Under a key and a chaining block the two directions undo each other.
LEMMA OpenClose ==
  ASSUME NEW mode \in {"ecb", "cbc"}, NEW key \in Key, NEW b \in Block,
         NEW prev, mode = "cbc" => prev \in Block
  PROVE  /\ Open(mode, key, b, prev) \in Block
         /\ Close(mode, key, b, prev) \in Block
         /\ Open(mode, key, Close(mode, key, b, prev), prev) = b
         /\ Close(mode, key, Open(mode, key, b, prev), prev) = b
<1>1. CASE mode = "ecb"
  <2>1. /\ Enc(key, b) \in Block /\ Dec(key, b) \in Block
        /\ Dec(key, Enc(key, b)) = b /\ Enc(key, Dec(key, b)) = b
    BY CipherAssumption
  <2>2. mode # "cbc"
    BY <1>1
  <2> QED
    BY <2>1, <2>2 DEF Open, Close
<1>2. CASE mode = "cbc"
  <2>1. prev \in Block
    BY <1>2
  <2> DEFINE x == XorBlock(b, prev)
             d == Dec(key, b)
             y == XorBlock(d, prev)
  <2>2. x \in Block /\ XorBlock(x, prev) = b
    BY <2>1, XorBlocks
  <2>3. d \in Block /\ Enc(key, d) = b
    BY CipherAssumption
  <2>4. y \in Block /\ XorBlock(y, prev) = d
    BY <2>1, <2>3, XorBlocks
  <2>5. Enc(key, x) \in Block /\ Dec(key, Enc(key, x)) = x
    BY <2>2, CipherAssumption
  <2>6. Open(mode, key, b, prev) = y /\ Close(mode, key, b, prev) = Enc(key, x)
    BY <1>2 DEF Open, Close
  <2>7. Open(mode, key, Enc(key, x), prev) = XorBlock(Dec(key, Enc(key, x)), prev)
    BY <1>2 DEF Open
  <2>8. Close(mode, key, y, prev) = Enc(key, XorBlock(y, prev))
    BY <1>2 DEF Close
  <2> HIDE DEF x, y, d
  <2> QED
    BY <2>2, <2>3, <2>4, <2>5, <2>6, <2>7, <2>8
<1> QED
  BY <1>1, <1>2

LEMMA PreviousBlock ==
  ASSUME NEW p, GoodParam(p), NEW S, NEW blocks \in Seq(S), NEW n \in Nat \ {0},
         n <= Len(blocks) + 1, \A j \in 1 .. n - 1 : blocks[j] \in Block
  PROVE  p.mode = "cbc" => Previous(p, blocks, n) \in Block
<1>1. n # 1 => n - 1 \in 1 .. n - 1
  OBVIOUS
<1> QED
  BY <1>1 DEF Previous, GoodParam

-----------------------------------------------------------------------------
(* The loops *)

LEMMA LoopLength ==
  ASSUME IInv, pc = "loop"
  PROVE  /\ NumBlocks = Len(out) /\ Len(out) \in Nat \ {0}
         /\ Encrypting => Len(Pad(call.data)) = NumBlocks
<1>1. Len(out) \in Nat
  BY DEF IInv, StateInv
<1>2. CASE Encrypting
  <2>1. /\ GoodPlain(call.data) /\ ~Overflows(ByteLen(call.data))
        /\ Len(out) = Len(call.data.full) + 1
    BY <1>2 DEF IInv, EncryptCall
  <2>2. NumBlocks = Len(call.data.full) + 1 /\ Len(call.data.full) \in Nat
    BY <1>2, <2>1, Lengths DEF NumBlocks
  <2> QED
    BY <2>1, <2>2, PadBlocks
<1>3. CASE ~Encrypting
  <2>1. Len(out) = Len(call.data.blocks) /\ call.data.blocks # <<>>
        /\ call.data.blocks \in Seq(Block)
    BY <1>3 DEF IInv, DecryptInv, GoodSealed, CipherText
  <2> QED
    BY <1>3, <2>1, EmptySeq DEF NumBlocks
<1> QED
  BY <1>2, <1>3

\* A block stored at index i + 1.
LEMMA Stored ==
  ASSUME StateInv, i < Len(out), NEW b \in Block, Step(b)
  PROVE  /\ out' \in Seq(Block \cup {Junk}) /\ Len(out') = Len(out)
         /\ i' = i + 1 /\ i' \in 0 .. Len(out')
         /\ \A j \in 1 .. Len(out) : out'[j] = IF j = i + 1 THEN b ELSE out[j]
<1>1. /\ out \in Seq(Block \cup {Junk}) /\ i \in Nat /\ i + 1 \in 1 .. Len(out)
      /\ b \in Block \cup {Junk}
  BY DEF StateInv
<1>2. out' = [out EXCEPT ![i + 1] = b] /\ i' = i + 1
  BY DEF Step
<1> QED
  BY <1>1, <1>2, ExceptSeq

\* One iteration of an encrypting loop, whatever the mode.
LEMMA EncryptStep ==
  ASSUME IInv, InLoop, Encrypting,
         Step(Close(call.mode, call.key, Pad(call.data)[i + 1],
                    Previous(Param, out, i + 1))),
         UNCHANGED <<pc, call, held, outLen, ret, history>>,
         local' \in Locals, local'.ctx = local.ctx, local'.padded = local.padded,
         Chained => local'.prev = out'[i + 1],
         ~Chained => local' = local
  PROVE  IInv'
<1> DEFINE P    == Pad(call.data)
           prev == Previous(Param, out, i + 1)
           b    == Close(call.mode, call.key, P[i + 1], prev)
<1>1. /\ pc = "loop" /\ StateInv /\ CallInv /\ EncryptCall /\ EncryptInv /\ HistoryInv
      /\ i \in Nat /\ i < Len(out) /\ Len(out) = Len(P) /\ P[i + 1] \in Block
      /\ out \in Seq(Block \cup {Junk})
  <2>1. i \in Nat /\ i < NumBlocks /\ pc = "loop" /\ GoodPlain(call.data)
        /\ out \in Seq(Block \cup {Junk})
    BY DEF IInv, StateInv, InLoop, EncryptCall
  <2>2. i < Len(out) /\ Len(out) = Len(P) /\ Len(out) \in Nat
    BY <2>1, LoopLength
  <2>3. i + 1 \in 1 .. Len(P)
    BY <2>1, <2>2
  <2> QED
    BY <2>1, <2>2, <2>3, PadBlocks DEF IInv
<1>2. GoodParam(Param) /\ Param.mode = call.mode /\ Param.key = call.key
      /\ call.mode \in {"ecb", "cbc"} /\ call.key \in Key
  BY <1>1 DEF CallInv, GoodParam, Params, Param
<1>3. Chained => prev \in Block
  <2>1. \A j \in 1 .. (i + 1) - 1 : out[j] \in Block
    BY <1>1 DEF EncryptInv
  <2>2. i + 1 \in Nat \ {0} /\ i + 1 <= Len(out) + 1
    BY <1>1
  <2> QED
    BY <1>1, <1>2, <2>1, <2>2, PreviousBlock DEF Chained
<1>4. b \in Block /\ Open(call.mode, call.key, b, prev) = P[i + 1]
  BY <1>1, <1>2, <1>3, OpenClose DEF Chained
<1>5. /\ out' \in Seq(Block \cup {Junk}) /\ Len(out') = Len(out)
      /\ i' = i + 1 /\ i' \in 0 .. Len(out')
      /\ \A j \in 1 .. Len(out) : out'[j] = IF j = i + 1 THEN b ELSE out[j]
  BY <1>1, <1>4, Stored
<1>6. out'[i + 1] = b /\ \A j \in 1 .. i : out'[j] = out[j]
  BY <1>1, <1>5
<1>7. \A n \in 1 .. i + 1 : Previous(Param, out', n) = Previous(Param, out, n)
  <2> TAKE n \in 1 .. i + 1
  <2>1. n # 1 => n - 1 \in 1 .. i
    BY <1>1
  <2> QED
    BY <1>6, <2>1 DEF Previous
<1> HIDE DEF P, prev, b
<1>8. StateInv'
  BY <1>1, <1>5 DEF StateInv
<1>9. CallInv' /\ EncryptCall' /\ MallocInv'
  BY <1>1, <1>5 DEF CallInv, EncryptCall, MallocInv, Encrypting, Param, GoodParam
<1>10. EncryptInv'
  <2>1. local'.ctx = call'.key /\ local'.padded = Pad(call.data)'
    BY <1>1 DEF EncryptInv
  <2>2. (Chained => local.prev = prev)'
    <3>1. Previous(Param, out, i + 1)' = out'[i + 1]
      <4>1. i' + 1 # 1 /\ (i' + 1) - 1 = i + 1
        BY <1>1, <1>5
      <4> QED
        BY <4>1 DEF Previous, Param
    <3>2. Chained' => Chained
      BY DEF Chained
    <3> QED
      BY <3>1, <3>2 DEF prev
  <2>3. (~Chained => local.block = Junk /\ local.prev = Junk)'
    BY <1>1 DEF EncryptInv, Chained
  <2>4. ASSUME NEW j \in 1 .. i + 1
        PROVE  out'[j] \in Block /\ OpenAt(Param, out', j) = P[j]
    <3>1. OpenAt(Param, out', j) = Open(call.mode, call.key, out'[j], Previous(Param, out, j))
      BY <1>2, <1>7 DEF OpenAt
    <3>2. CASE j = i + 1
      BY <1>4, <1>6, <3>1, <3>2 DEF prev
    <3>3. CASE j # i + 1
      <4>1. j \in 1 .. i
        BY <1>1, <3>3
      <4>2. out[j] \in Block /\ OpenAt(Param, out, j) = P[j]
        BY <1>1, <4>1 DEF EncryptInv, P
      <4> QED
        BY <1>2, <1>6, <3>1, <4>1, <4>2 DEF OpenAt
    <3> QED
      BY <3>2, <3>3
  <2>5. ASSUME NEW e \in table, e.param = Param, e.pt = call.data, NEW j \in 1 .. i + 1
        PROVE  out'[j] = e.ct.blocks[j]
    <3>1. \A k \in 1 .. i : out[k] = e.ct.blocks[k]
      BY <1>1, <2>5 DEF EncryptInv
    <3>2. CASE j # i + 1
      <4>1. j \in 1 .. i
        BY <1>1, <3>2
      <4> QED
        BY <1>6, <3>1, <4>1
    <3>3. CASE j = i + 1
      <4>1. GoodAnswer(e)
        BY <1>1 DEF HistoryInv
      <4>2. e.ct.blocks \in Seq(Block) /\ Len(e.ct.blocks) = Len(P)
        BY <2>5, <4>1, PadBlocks DEF GoodAnswer, GoodSealed, CipherText, P
      <4>3. i + 1 \in 1 .. Len(e.ct.blocks)
        BY <1>1, <4>2
      <4>4. P[i + 1] = OpenAt(Param, e.ct.blocks, i + 1)
        BY <2>5, <4>1, <4>3 DEF GoodAnswer, P
      <4>5. Previous(Param, e.ct.blocks, i + 1) = prev
        <5>1. i + 1 # 1 => (i + 1) - 1 \in 1 .. i
          BY <1>1
        <5> QED
          BY <3>1, <5>1 DEF Previous, prev
      <4>6. P[i + 1] = Open(call.mode, call.key, e.ct.blocks[i + 1], prev)
        BY <1>2, <4>4, <4>5 DEF OpenAt
      <4>7. e.ct.blocks[i + 1] \in Block
        BY <4>2, <4>3
      <4>8. Close(call.mode, call.key, P[i + 1], prev) = e.ct.blocks[i + 1]
        BY <1>2, <1>3, <4>6, <4>7, OpenClose DEF Chained
      <4> QED
        BY <1>6, <3>3, <4>8 DEF b
    <3> QED
      BY <3>2, <3>3
  <2>6. call' = call /\ table' = table /\ i' = i + 1 /\ Param' = Param
    BY <1>5 DEF Param, history
  <2> QED
    BY <2>1, <2>2, <2>3, <2>4, <2>5, <2>6 DEF EncryptInv, P, prev
<1>11. DecryptInv'
  BY DEF DecryptInv, Encrypting
<1>12. HistoryInv' /\ Box!Bijective'
  BY <1>1 DEF IInv, HistoryInv, history, Box!Bijective
<1>13. CleanExit' /\ FailureLeavesLength'
  BY <1>1 DEF CleanExit, FailureLeavesLength
<1> QED
  BY <1>8, <1>9, <1>10, <1>11, <1>12, <1>13 DEF IInv

LEMMA EncryptBlockEcbPreserves ==
  ASSUME IInv, EncryptBlockEcb
  PROVE  IInv'
<1>1. /\ InLoop /\ pc = "loop" /\ Encrypting /\ ~Chained
      /\ UNCHANGED <<pc, call, local, held, outLen, ret, history>>
      /\ Step(Enc(local.ctx, Source))
  BY DEF EncryptBlockEcb, InLoop
<1>2. Source = Pad(call.data)[i + 1] /\ local.ctx = call.key
  BY <1>1 DEF IInv, EncryptInv, Source
<1>3. Step(Close(call.mode, call.key, Pad(call.data)[i + 1], Previous(Param, out, i + 1)))
  BY <1>1, <1>2 DEF Close, Chained
<1>4. local' \in Locals /\ local' = local
  BY <1>1 DEF IInv, StateInv
<1> QED
  BY <1>1, <1>3, <1>4, EncryptStep

LEMMA EncryptBlockCbcPreserves ==
  ASSUME IInv, EncryptBlockCbc
  PROVE  IInv'
<1> DEFINE P    == Pad(call.data)
           prev == Previous(Param, out, i + 1)
           b    == XorBlock(P[i + 1], prev)
           e    == Enc(call.key, b)
<1>1. /\ InLoop /\ pc = "loop" /\ Encrypting /\ Chained
      /\ UNCHANGED <<pc, call, held, outLen, ret, history>>
  BY DEF EncryptBlockCbc, InLoop
<1>2. Source = P[i + 1] /\ local.ctx = call.key /\ local.prev = prev
  BY <1>1 DEF IInv, EncryptInv, Source
<1>3. Step(e) /\ local' = [local EXCEPT !.block = b, !.prev = e]
  BY <1>2 DEF EncryptBlockCbc
<1>4. /\ i \in Nat /\ i < Len(out) /\ P[i + 1] \in Block
      /\ out \in Seq(Block \cup {Junk}) /\ GoodParam(Param)
      /\ call.mode = "cbc" /\ call.key \in Key
  <2>1. /\ i \in Nat /\ i < NumBlocks /\ GoodPlain(call.data)
        /\ out \in Seq(Block \cup {Junk}) /\ GoodParam(Param)
    BY <1>1 DEF IInv, StateInv, CallInv, InLoop, EncryptCall
  <2>2. i < Len(out) /\ Len(out) = Len(P) /\ Len(out) \in Nat
    BY <1>1, <2>1, LoopLength
  <2>3. i + 1 \in 1 .. Len(P)
    BY <2>1, <2>2
  <2>4. Param.key = call.key
    BY DEF Param
  <2>5. call.key \in Key
    BY <2>1, <2>4 DEF GoodParam, Params
  <2> QED
    BY <1>1, <2>1, <2>2, <2>3, <2>5, PadBlocks DEF Chained
<1>5. prev \in Block
  <2>1. \A j \in 1 .. (i + 1) - 1 : out[j] \in Block
    BY <1>1, <1>4 DEF IInv, EncryptInv
  <2>2. i + 1 \in Nat \ {0} /\ i + 1 <= Len(out) + 1
    BY <1>4
  <2> QED
    BY <1>4, <2>1, <2>2, PreviousBlock DEF Param
<1>6. b \in Block /\ e \in Block
  BY <1>4, <1>5, XorBlocks, CipherAssumption
<1>7. e = Close(call.mode, call.key, P[i + 1], prev)
  BY <1>4 DEF Close
<1> HIDE DEF P, prev, b, e
<1>8. local \in Locals /\ StateInv /\ i < Len(out)
  BY <1>4 DEF IInv, StateInv
<1>9. local' \in Locals /\ local'.ctx = local.ctx /\ local'.padded = local.padded
      /\ local'.prev = e
  BY <1>3, <1>6, <1>8 DEF Locals, Memory
<1>10. out'[i + 1] = e
  <2>1. i + 1 \in 1 .. Len(out)
    BY <1>4
  <2>2. out'[i + 1] = IF i + 1 = i + 1 THEN e ELSE out[i + 1]
    BY <1>3, <1>6, <1>8, <2>1, Stored
  <2> QED
    BY <2>2
<1> QED
  BY <1>1, <1>3, <1>7, <1>9, <1>10, EncryptStep DEF P, prev

\* One iteration of a decrypting loop, whatever the mode and the buffers.
LEMMA DecryptStep ==
  ASSUME IInv, InLoop, ~Encrypting,
         Step(OpenAt(Param, call.data.blocks, i + 1)),
         traces' = traces \cup {Trace(OpenAt(Param, call.data.blocks, i + 1))},
         UNCHANGED <<pc, call, held, outLen, ret, calls, table, rejected>>,
         local' \in Locals, local'.ctx = local.ctx, local'.padded = local.padded,
         Chained => local'.prev = call.data.blocks[i + 1],
         ~Chained => local' = local
  PROVE  IInv'
<1> DEFINE C == call.data.blocks
           b == OpenAt(Param, C, i + 1)
<1>1. /\ pc = "loop" /\ StateInv /\ CallInv /\ DecryptInv /\ HistoryInv
      /\ i \in Nat /\ i < Len(out) /\ Len(out) = Len(C) /\ i + 1 \in 1 .. Len(C)
      /\ C \in Seq(Block) /\ out \in Seq(Block \cup {Junk}) /\ C[i + 1] \in Block
  <2>1. i \in Nat /\ i < NumBlocks /\ pc = "loop" /\ GoodSealed(call.data)
        /\ Len(out) = Len(C) /\ out \in Seq(Block \cup {Junk})
    BY DEF IInv, StateInv, InLoop, DecryptInv
  <2>2. C \in Seq(Block)
    BY <2>1 DEF GoodSealed, CipherText
  <2>3. i < Len(C) /\ i + 1 \in 1 .. Len(C)
    BY <2>1, <2>2, LoopLength
  <2> QED
    BY <2>1, <2>2, <2>3 DEF IInv
<1>2. GoodParam(Param) /\ Param.mode = call.mode /\ Param.key = call.key
      /\ call.mode \in {"ecb", "cbc"} /\ call.key \in Key /\ Param.iv = call.iv
  BY <1>1 DEF CallInv, GoodParam, Params, Param
<1>3. Chained => Previous(Param, C, i + 1) \in Block
  <2>1. \A j \in 1 .. (i + 1) - 1 : C[j] \in Block
    BY <1>1
  <2>2. i + 1 \in Nat \ {0} /\ i + 1 <= Len(C) + 1
    BY <1>1
  <2> QED
    BY <1>1, <1>2, <2>1, <2>2, PreviousBlock DEF Chained
<1>4. b = Open(call.mode, call.key, C[i + 1], Previous(Param, C, i + 1))
  BY <1>2 DEF OpenAt
<1>5. b \in Block
  BY <1>1, <1>2, <1>3, <1>4, OpenClose DEF Chained
<1>6. /\ out' \in Seq(Block \cup {Junk}) /\ Len(out') = Len(out)
      /\ i' = i + 1 /\ i' \in 0 .. Len(out')
      /\ \A j \in 1 .. Len(out) : out'[j] = IF j = i + 1 THEN b ELSE out[j]
  BY <1>1, <1>5, Stored
<1>7. out'[i + 1] = b /\ \A j \in 1 .. Len(out) : j # i + 1 => out'[j] = out[j]
  BY <1>1, <1>6
<1>8. GoodTrace(Trace(b))
  <2>1. Chained => Trace(b).after = Previous(Param, C, i + 1)
    <3>1. i = 0 <=> i + 1 = 1
      BY <1>1
    <3>2. (i + 1) - 1 = i
      BY <1>1
    <3> QED
      BY <1>2, <3>1, <3>2 DEF Trace, Previous
  <2>2. Trace(b).mode = call.mode /\ Trace(b).key = call.key
        /\ Trace(b).of = C[i + 1] /\ Trace(b).gives = b
    BY DEF Trace
  <2>3. Trace(b).gives = Open(call.mode, call.key, C[i + 1], Trace(b).after)
    BY <1>4, <2>1, <2>2 DEF Open, Chained
  <2> QED
    BY <2>2, <2>3 DEF GoodTrace
<1> HIDE DEF C, b
<1>9. StateInv'
  BY <1>1, <1>6 DEF StateInv
<1>10. CallInv' /\ EncryptCall' /\ MallocInv' /\ EncryptInv'
  BY <1>1 DEF CallInv, EncryptCall, MallocInv, EncryptInv, Encrypting, Param, GoodParam
<1>11. DecryptInv'
  <2>1. /\ ~held' /\ GoodSealed(call'.data) /\ ~call'.data.ragged
        /\ call'.data.blocks # <<>> /\ Len(out') = Len(call'.data.blocks)
        /\ local'.ctx = call'.key /\ local'.padded = Junk /\ call'.alias \in BOOLEAN
    BY <1>1, <1>6 DEF DecryptInv
  <2>2. (Chained => local.prev = Previous(Param, call.data.blocks, i + 1))'
    <3>1. Previous(Param, call.data.blocks, i + 1)' = C[i + 1]
      <4>1. i' + 1 # 1 /\ (i' + 1) - 1 = i + 1
        BY <1>1, <1>6
      <4> QED
        BY <4>1 DEF Previous, Param, C
    <3> QED
      BY <3>1 DEF C, Chained
  <2>3. (~Chained => local.block = Junk /\ local.prev = Junk)'
    BY <1>1 DEF DecryptInv, Chained
  <2>4. call'.alias =>
          /\ ~Chained'
          /\ \A j \in i' + 1 .. Len(out') : out'[j] = call'.data.blocks[j]
    <3> SUFFICES ASSUME call.alias
                 PROVE  /\ ~Chained
                        /\ \A j \in i + 2 .. Len(out) : out'[j] = C[j]
      BY <1>1, <1>6 DEF Chained, C
    <3>1. ~Chained /\ \A j \in i + 1 .. Len(out) : out[j] = C[j]
      BY <1>1 DEF DecryptInv, C
    <3>2. \A j \in i + 2 .. Len(out) :
            j \in i + 1 .. Len(out) /\ j # i + 1 /\ j \in 1 .. Len(out)
      BY <1>1
    <3> QED
      BY <1>7, <3>1, <3>2
  <2>5. ASSUME NEW j \in 1 .. i + 1 PROVE out'[j] = OpenAt(Param, C, j)
    <3>1. CASE j = i + 1
      BY <1>7, <3>1 DEF b
    <3>2. CASE j # i + 1
      <4>1. j \in 1 .. i /\ j \in 1 .. Len(out)
        BY <1>1, <3>2
      <4>2. out[j] = OpenAt(Param, C, j)
        BY <1>1, <4>1 DEF DecryptInv, C
      <4> QED
        BY <1>7, <3>2, <4>1, <4>2
    <3> QED
      BY <3>1, <3>2
  <2>6. ASSUME NEW e \in table, e.param = Param, i + 1 <= Len(e.ct.blocks),
               \A j \in 1 .. i + 1 : out'[j] = Pad(e.pt)[j],
               NEW j \in 1 .. i + 1
        PROVE  C[j] = e.ct.blocks[j]
    <3>1. GoodAnswer(e)
      BY <1>1 DEF HistoryInv
    <3>2. e.ct.blocks \in Seq(Block) /\ Len(e.ct.blocks) \in Nat
      BY <3>1 DEF GoodAnswer, GoodSealed, CipherText
    <3>3. i <= Len(e.ct.blocks) /\ i + 1 \in 1 .. Len(e.ct.blocks)
      BY <1>1, <2>6, <3>2
    <3>4. \A k \in 1 .. i : out[k] = Pad(e.pt)[k]
      <4> TAKE k \in 1 .. i
      <4>1. k \in 1 .. i + 1 /\ k \in 1 .. Len(out) /\ k # i + 1
        BY <1>1
      <4> QED
        BY <1>7, <2>6, <4>1
    <3>5. \A k \in 1 .. i : C[k] = e.ct.blocks[k]
      BY <1>1, <2>6, <3>3, <3>4 DEF DecryptInv, C
    <3>6. CASE j # i + 1
      <4>1. j \in 1 .. i
        BY <1>1, <3>6
      <4> QED
        BY <3>5, <4>1
    <3>7. CASE j = i + 1
      <4> DEFINE prev == Previous(Param, C, i + 1)
                 d    == e.ct.blocks[i + 1]
      <4>1. Previous(Param, e.ct.blocks, i + 1) = prev
        <5>1. i + 1 # 1 => (i + 1) - 1 \in 1 .. i
          BY <1>1
        <5> QED
          BY <3>5, <5>1 DEF Previous
      <4>2. OpenAt(Param, e.ct.blocks, i + 1) = Open(call.mode, call.key, d, prev)
        BY <1>2, <4>1 DEF OpenAt
      <4>3. Pad(e.pt)[i + 1] = OpenAt(Param, e.ct.blocks, i + 1)
        BY <2>6, <3>1, <3>3 DEF GoodAnswer
      <4>4. i + 1 \in 1 .. i + 1
        BY <1>1
      <4>5. b = Pad(e.pt)[i + 1]
        BY <1>7, <2>6, <4>4
      <4>6. Open(call.mode, call.key, C[i + 1], prev) = Open(call.mode, call.key, d, prev)
        BY <1>4, <4>2, <4>3, <4>5
      <4>7. d \in Block /\ (call.mode = "cbc" => prev \in Block)
        BY <1>3, <3>2, <3>3 DEF Chained
      <4> HIDE DEF prev, d
      <4>8. Close(call.mode, call.key, Open(call.mode, call.key, C[i + 1], prev), prev) = C[i + 1]
        BY <1>1, <1>2, <4>7, OpenClose
      <4>9. Close(call.mode, call.key, Open(call.mode, call.key, d, prev), prev) = d
        BY <1>2, <4>7, OpenClose
      <4> QED
        BY <3>7, <4>6, <4>8, <4>9 DEF d
    <3> QED
      BY <3>6, <3>7
  <2>7. call' = call /\ table' = table /\ i' = i + 1 /\ Param' = Param
        /\ C = call.data.blocks
    BY <1>6 DEF Param, C
  <2>8. \A j \in 1 .. i' : out'[j] = OpenAt(Param', call'.data.blocks, j)
    BY <2>5, <2>7
  <2>9. \A e \in table' :
          /\ e.param = Param' /\ i' <= Len(e.ct.blocks)
          /\ \A j \in 1 .. i' : out'[j] = Pad(e.pt)[j]
          => \A j \in 1 .. i' : call'.data.blocks[j] = e.ct.blocks[j]
    BY <2>6, <2>7
  <2> QED
    BY <2>1, <2>2, <2>3, <2>4, <2>8, <2>9 DEF DecryptInv
<1>12. HistoryInv' /\ Box!Bijective'
  BY <1>1, <1>8 DEF IInv, HistoryInv, Box!Bijective, b, C
<1>13. CleanExit' /\ FailureLeavesLength'
  BY <1>1 DEF CleanExit, FailureLeavesLength
<1> QED
  BY <1>9, <1>10, <1>11, <1>12, <1>13 DEF IInv

\* What the loop of a decryption reads is the ciphertext, in place or not.
LEMMA SourceBlock ==
  ASSUME IInv, InLoop, ~Encrypting
  PROVE  Source = call.data.blocks[i + 1]
<1>1. pc = "loop" /\ i \in Nat /\ i < Len(out) /\ Len(out) \in Nat
  BY LoopLength DEF IInv, StateInv, InLoop
<1>2. i + 1 \in i + 1 .. Len(out)
  BY <1>1
<1> QED
  BY <1>1, <1>2 DEF IInv, DecryptInv, Source

LEMMA DecryptBlockEcbPreserves ==
  ASSUME IInv, DecryptBlockEcb
  PROVE  IInv'
<1> DEFINE b == OpenAt(Param, call.data.blocks, i + 1)
<1>1. /\ InLoop /\ ~Encrypting /\ ~Chained
      /\ UNCHANGED <<pc, call, local, held, outLen, ret, calls, table, rejected>>
  BY DEF DecryptBlockEcb, history
<1>2. local.ctx = call.key
  BY <1>1 DEF IInv, DecryptInv, InLoop
<1>3. Dec(local.ctx, Source) = b
  <2>1. Param.mode = call.mode /\ Param.key = call.key
    BY DEF Param
  <2> QED
    BY <1>1, <1>2, <2>1, SourceBlock DEF OpenAt, Open, Chained
<1>4. Step(b) /\ traces' = traces \cup {Trace(b)}
  BY <1>3 DEF DecryptBlockEcb
<1>5. local' \in Locals /\ local' = local
  BY <1>1 DEF IInv, StateInv
<1> QED
  BY <1>1, <1>4, <1>5, DecryptStep

LEMMA DecryptBlockCbcPreserves ==
  ASSUME IInv, DecryptBlockCbc
  PROVE  IInv'
<1> DEFINE C == call.data.blocks
           b == OpenAt(Param, C, i + 1)
           d == Dec(call.key, C[i + 1])
<1>1. /\ InLoop /\ pc = "loop" /\ ~Encrypting /\ Chained
      /\ UNCHANGED <<pc, call, held, outLen, ret, calls, table, rejected>>
  BY DEF DecryptBlockCbc, InLoop
<1>2. /\ local.ctx = call.key /\ local.prev = Previous(Param, C, i + 1)
      /\ ~call.alias /\ Source = C[i + 1]
  BY <1>1, SourceBlock DEF IInv, DecryptInv
<1>3. XorBlock(d, local.prev) = b
  <2>1. Param.mode = call.mode /\ Param.key = call.key
    BY DEF Param
  <2> QED
    BY <1>1, <1>2, <2>1 DEF OpenAt, Open, Chained
<1>4. /\ Step(b) /\ traces' = traces \cup {Trace(b)}
      /\ local' = [local EXCEPT !.block = d, !.prev = C[i + 1]]
  <2>1. Dec(local.ctx, Source) = d
    BY <1>2
  <2>2. XorBlock(Dec(local.ctx, Source), local.prev) = b
    BY <1>3, <2>1
  <2>3. (IF call.alias THEN XorBlock(Dec(local.ctx, Source), local.prev) ELSE Source) = C[i + 1]
    BY <1>2
  <2> HIDE DEF b, d, C
  <2> QED
    BY <2>1, <2>2, <2>3 DEF DecryptBlockCbc
<1>5. C[i + 1] \in Block /\ call.key \in Key
  <2>1. GoodParam(Param) /\ Param.key = call.key /\ C \in Seq(Block)
        /\ i \in Nat /\ i < Len(out) /\ Len(out) = Len(C)
    BY <1>1, LoopLength
    DEF IInv, StateInv, CallInv, DecryptInv, GoodSealed, CipherText, Param, InLoop
  <2>2. i + 1 \in 1 .. Len(C)
    BY <2>1
  <2> QED
    BY <2>1, <2>2 DEF GoodParam, Params
<1>6. d \in Block
  BY <1>5, CipherAssumption
<1>7. local \in Locals
  BY DEF IInv, StateInv
<1> HIDE DEF b, d
<1>8. local' \in Locals /\ local'.ctx = local.ctx /\ local'.padded = local.padded
      /\ local'.prev = C[i + 1]
  BY <1>4, <1>5, <1>6, <1>7 DEF Locals, Memory
<1> QED
  BY <1>1, <1>4, <1>8, DecryptStep DEF b

-----------------------------------------------------------------------------
(* Calls *)

LEMMA InitEstablishes == Init => IInv
<1> SUFFICES ASSUME Init PROVE IInv
  OBVIOUS
<1>1. /\ pc = "idle" /\ i = 0 /\ local = Uninitialised /\ held = FALSE
      /\ out = <<>> /\ outLen = Junk /\ ret = 0
      /\ table = {} /\ rejected = {} /\ traces = {}
  BY DEF Init
<1>2. StateInv
  <2>1. out \in Seq(Block \cup {Junk}) /\ Len(out) = 0 /\ i \in 0 .. Len(out)
    BY <1>1, EmptySeq
  <2>2. Uninitialised \in Locals
    BY DEF Uninitialised, Locals, Memory
  <2> QED
    BY <1>1, <2>1, <2>2 DEF StateInv
<1>3. CallInv /\ MallocInv /\ EncryptCall /\ EncryptInv /\ DecryptInv
  BY <1>1 DEF CallInv, MallocInv, EncryptCall, EncryptInv, DecryptInv
<1>4. HistoryInv /\ Box!Bijective
  BY <1>1 DEF HistoryInv, Box!Bijective
<1>5. CleanExit /\ FailureLeavesLength
  BY <1>1 DEF CleanExit, FailureLeavesLength, Uninitialised
<1> QED
  BY <1>2, <1>3, <1>4, <1>5 DEF IInv

\* A fresh buffer.
LEMMA FreshBuffer ==
  ASSUME NEW n \in Nat
  PROVE  LET o == [j \in 1 .. n |-> Junk]
         IN  o \in Seq(Block \cup {Junk}) /\ Len(o) = n /\ \A j \in DOMAIN o : o[j] = Junk
  OBVIOUS

LEMMA CallEncryptPreserves ==
  ASSUME IInv, pc = "idle", NEW mode \in {"ecb", "cbc"}, NEW key \in Key,
         NEW iv \in ModeIVs(mode), NEW m, GoodPlain(m),
         CallEncrypt(mode, key, iv, m)
  PROVE  IInv'
<1> DEFINE n == SizeT(ByteLen(m) + BlockSize) \div BlockSize
<1>1. /\ call' = [fn |-> "encrypt", mode |-> mode, key |-> key, iv |-> iv,
                  data |-> m, alias |-> FALSE]
      /\ local' = Uninitialised /\ outLen' = Junk /\ i' = 0
      /\ out' = [j \in 1 .. n |-> Junk]
      /\ UNCHANGED <<held, table, rejected, traces>>
  BY DEF CallEncrypt
<1>2. \/ Overflows(ByteLen(m)) /\ ret' = -1 /\ pc' = "idle"
      \/ ~Overflows(ByteLen(m)) /\ pc' = "malloc" /\ UNCHANGED ret
  BY DEF CallEncrypt, Return
<1>3. n \in Nat /\ (~Overflows(ByteLen(m)) => n = Len(m.full) + 1)
  BY Lengths
<1>4. /\ out' \in Seq(Block \cup {Junk}) /\ Len(out') = n
      /\ \A j \in DOMAIN out' : out'[j] = Junk
  BY <1>1, <1>3, FreshBuffer
<1>5. Uninitialised \in Locals
  BY DEF Uninitialised, Locals, Memory
<1>6. ~held
  BY DEF IInv, CleanExit
<1> HIDE DEF n
<1>7. StateInv'
  BY <1>1, <1>2, <1>3, <1>4, <1>5 DEF IInv, StateInv
<1>8. GoodParam(Param')
  <2>1. Param' = [mode |-> mode, key |-> key, iv |-> iv]
    BY <1>1 DEF Param
  <2>2. iv \in Block \cup {NoIV} /\ (mode = "cbc" => iv \in Block)
    BY InputAssumption DEF ModeIVs
  <2> QED
    BY <2>1, <2>2 DEF GoodParam, Params
<1>9. CallInv'
  BY <1>1, <1>2, <1>8 DEF CallInv, Encrypting, GoodParam
<1>10. MallocInv'
  BY <1>1, <1>4, <1>6 DEF MallocInv, Uninitialised
<1>11. EncryptCall'
  BY <1>1, <1>2, <1>3, <1>4 DEF EncryptCall
<1>12. EncryptInv' /\ DecryptInv'
  BY <1>2 DEF EncryptInv, DecryptInv
<1>13. HistoryInv' /\ Box!Bijective'
  BY <1>1 DEF IInv, HistoryInv, Box!Bijective
<1>14. CleanExit'
  BY <1>1, <1>6 DEF CleanExit, Uninitialised
<1>15. FailureLeavesLength'
  BY <1>1, <1>4 DEF FailureLeavesLength
<1> QED
  BY <1>7, <1>9, <1>10, <1>11, <1>12, <1>13, <1>14, <1>15 DEF IInv

LEMMA CallDecryptPreserves ==
  ASSUME IInv, pc = "idle", NEW mode \in {"ecb", "cbc"}, NEW key \in Key,
         NEW iv \in ModeIVs(mode), NEW c, GoodSealed(c), NEW alias \in MayAlias(mode),
         CallDecrypt(mode, key, iv, c, alias)
  PROVE  IInv' /\ BoxStep
<1> DEFINE p == [mode |-> mode, key |-> key, iv |-> iv]
<1>1. /\ call' = [fn |-> "decrypt", mode |-> mode, key |-> key, iv |-> iv,
                  data |-> c, alias |-> alias]
      /\ outLen' = Junk /\ i' = 0
      /\ out' = IF alias THEN c.blocks ELSE [j \in 1 .. Len(c.blocks) |-> Junk]
      /\ UNCHANGED <<held, table, traces>>
  BY DEF CallDecrypt
<1>2. \/ /\ c.ragged \/ c.blocks = <<>>
         /\ ret' = -1 /\ pc' = "idle" /\ local' = Uninitialised
         /\ rejected' = rejected \cup {[param |-> p, ct |-> c]}
      \/ /\ ~c.ragged /\ c.blocks # <<>> /\ pc' = "loop"
         /\ local' = [Uninitialised EXCEPT !.ctx = key,
                                           !.prev = IF mode = "cbc" THEN iv ELSE @]
         /\ UNCHANGED <<ret, rejected>>
  BY DEF CallDecrypt, Return
<1>3. c.blocks \in Seq(Block) /\ Len(c.blocks) \in Nat /\ c \in CipherText
  BY DEF GoodSealed, CipherText
<1>4. out' \in Seq(Block \cup {Junk}) /\ Len(out') = Len(c.blocks)
  <2>1. CASE alias
    BY <1>1, <1>3, <2>1, SeqMonotonic
  <2>2. CASE ~alias
    BY <1>1, <1>3, <2>2, FreshBuffer
  <2> QED
    BY <2>1, <2>2
<1>5. Uninitialised \in Locals
  BY DEF Uninitialised, Locals, Memory
<1>6. ~held
  BY DEF IInv, CleanExit
<1>7. iv \in Block \cup {NoIV} /\ (mode = "cbc" => iv \in Block)
  BY InputAssumption DEF ModeIVs
<1>8. local' \in Locals
  <2>1. CASE local' = Uninitialised
    BY <1>5, <2>1
  <2>2. CASE local' = [Uninitialised EXCEPT !.ctx = key,
                                            !.prev = IF mode = "cbc" THEN iv ELSE @]
    BY <1>7, <2>2 DEF Uninitialised, Locals, Memory
  <2> QED
    BY <1>2, <2>1, <2>2
<1>9. StateInv'
  BY <1>1, <1>2, <1>3, <1>4, <1>8 DEF IInv, StateInv
<1>10. GoodParam(p) /\ Param' = p
  BY <1>1, <1>7 DEF GoodParam, Params, Param
<1>11. ~Encrypting'
  BY <1>1 DEF Encrypting
<1>12. CallInv'
  BY <1>1, <1>2, <1>10 DEF CallInv, GoodParam
<1>13. MallocInv' /\ EncryptCall' /\ EncryptInv'
  BY <1>2, <1>11 DEF MallocInv, EncryptCall, EncryptInv
<1>14. DecryptInv'
  <2> SUFFICES ASSUME pc' = "loop" PROVE DecryptInv'
    BY DEF DecryptInv
  <2>1. /\ ~c.ragged /\ c.blocks # <<>>
        /\ local' = [Uninitialised EXCEPT !.ctx = key,
                                          !.prev = IF mode = "cbc" THEN iv ELSE @]
    BY <1>2
  <2>2. /\ local'.ctx = key /\ local'.padded = Junk /\ local'.block = Junk
        /\ local'.prev = IF mode = "cbc" THEN iv ELSE Junk
    BY <2>1 DEF Uninitialised
  <2>3. Chained' <=> mode = "cbc"
    BY <1>1 DEF Chained
  <2>4. mode = "cbc" => Previous(Param', c.blocks, i' + 1) = iv
    BY <1>1, <1>10 DEF Previous
  <2>5. alias \in BOOLEAN /\ (alias => ~Chained')
    BY <2>3 DEF MayAlias
  <2>6. alias => \A j \in i' + 1 .. Len(out') : out'[j] = c.blocks[j]
    BY <1>1
  <2>7. \A j : j \notin 1 .. i'
    BY <1>1
  <2>8. call'.data = c /\ call'.alias = alias /\ call'.key = key /\ ~held'
    BY <1>1, <1>6
  <2> HIDE DEF p
  <2> QED
    BY <1>4, <2>1, <2>2, <2>3, <2>4, <2>5, <2>6, <2>7, <2>8 DEF DecryptInv
<1>15. HistoryInv' /\ Box!Bijective'
  <2>1. c.ragged \/ c.blocks = <<>> => GoodRefusal([param |-> p, ct |-> c])
    BY <1>3, <1>10 DEF GoodRefusal, GoodParam
  <2> QED
    BY <1>1, <1>2, <2>1 DEF IInv, HistoryInv, Box!Bijective
<1>16. CleanExit'
  BY <1>1, <1>2, <1>6 DEF CleanExit, Uninitialised
<1>17. FailureLeavesLength'
  BY <1>1, <1>11 DEF FailureLeavesLength
<1>18. BoxStep
  <2>1. c.ragged \/ c.blocks = <<>> => GoodRefusal([param |-> p, ct |-> c])
    BY <1>3, <1>10 DEF GoodRefusal, GoodParam
  <2> HIDE DEF p
  <2> QED
    BY <1>1, <1>2, <2>1 DEF BoxStep
<1> QED
  BY <1>9, <1>12, <1>13, <1>14, <1>15, <1>16, <1>17, <1>18 DEF IInv

LEMMA MallocFailsPreserves ==
  ASSUME IInv, MallocFails
  PROVE  IInv'
<1>1. /\ pc = "malloc" /\ pc' = "idle" /\ ret' = -1
      /\ UNCHANGED <<call, i, local, held, out, outLen, history>>
  BY DEF MallocFails, Return
<1>2. StateInv' /\ CallInv' /\ MallocInv' /\ EncryptCall' /\ EncryptInv' /\ DecryptInv'
  BY <1>1 DEF IInv, StateInv, CallInv, MallocInv, EncryptCall, EncryptInv, DecryptInv
<1>3. HistoryInv' /\ Box!Bijective'
  BY <1>1 DEF IInv, HistoryInv, history, Box!Bijective
<1>4. CleanExit'
  BY <1>1 DEF IInv, MallocInv, CleanExit, Uninitialised
<1>5. FailureLeavesLength'
  BY <1>1 DEF IInv, CallInv, MallocInv, FailureLeavesLength
<1> QED
  BY <1>2, <1>3, <1>4, <1>5 DEF IInv

LEMMA PrepareEncryptPreserves ==
  ASSUME IInv, PrepareEncrypt
  PROVE  IInv'
<1>1. /\ pc = "malloc" /\ pc' = "loop" /\ held' = TRUE
      /\ local' = [local EXCEPT !.padded = Pad(call.data), !.ctx = call.key,
                                !.prev = IF Chained THEN call.iv ELSE @]
      /\ UNCHANGED <<call, i, out, outLen, ret, history>>
  BY DEF PrepareEncrypt
<1>2. /\ Encrypting /\ GoodParam(Param) /\ GoodPlain(call.data)
      /\ local = Uninitialised /\ i = 0 /\ local \in Locals
  BY <1>1 DEF IInv, StateInv, CallInv, MallocInv, EncryptCall
<1>3. call.key \in Key /\ (Chained => call.iv \in Block) /\ Pad(call.data) \in Seq(Block)
  BY <1>2, PadBlocks DEF GoodParam, Params, Param, Chained
<1>4. /\ local'.padded = Pad(call.data) /\ local'.ctx = call.key /\ local'.block = Junk
      /\ local'.prev = IF Chained THEN call.iv ELSE Junk
      /\ local' \in Locals
  BY <1>1, <1>2, <1>3 DEF Locals, Memory, Uninitialised
<1>5. StateInv'
  BY <1>1, <1>4 DEF IInv, StateInv
<1>6. CallInv' /\ MallocInv' /\ EncryptCall'
  BY <1>1 DEF IInv, CallInv, MallocInv, EncryptCall, Encrypting, Param, GoodParam
<1>7. EncryptInv'
  <2>1. \A j : j \notin 1 .. i'
    BY <1>1, <1>2
  <2>2. Previous(Param, out, i + 1)' = call.iv
    BY <1>1, <1>2 DEF Previous, Param
  <2>3. call' = call /\ Chained' = Chained
    BY <1>1 DEF Chained
  <2> QED
    BY <1>4, <2>1, <2>2, <2>3 DEF EncryptInv
<1>8. DecryptInv'
  BY <1>1, <1>2 DEF DecryptInv, Encrypting
<1>9. HistoryInv' /\ Box!Bijective'
  BY <1>1 DEF IInv, HistoryInv, history, Box!Bijective
<1>10. CleanExit' /\ FailureLeavesLength'
  BY <1>1 DEF CleanExit, FailureLeavesLength
<1> QED
  BY <1>5, <1>6, <1>7, <1>8, <1>9, <1>10 DEF IInv

\* An answer whose plaintext pads to the decryption of its ciphertext keeps the
\* answers one bijection.
LEMMA AnswerBijective ==
  ASSUME Box!Bijective, \A p \in table : GoodAnswer(p), NEW e, GoodAnswer(e),
         table' = table \cup {e},
         \A p \in table : p.param = e.param /\ p.pt = e.pt => p.ct = e.ct
  PROVE  Box!Bijective'
<1>1. ASSUME NEW p \in table, p.param = e.param, p.ct = e.ct
      PROVE  p.pt = e.pt
  <2>1. GoodAnswer(p)
    OBVIOUS
  <2>2. /\ GoodPlain(p.pt) /\ GoodPlain(e.pt)
        /\ Len(Pad(p.pt)) = Len(e.ct.blocks) /\ Len(Pad(e.pt)) = Len(e.ct.blocks)
    BY <1>1, <2>1, PadBlocks DEF GoodAnswer
  <2>3. \A j \in 1 .. Len(e.ct.blocks) : Pad(p.pt)[j] = Pad(e.pt)[j]
    BY <1>1, <2>1 DEF GoodAnswer
  <2> QED
    BY <2>2, <2>3, PadInjective
<1>2. \A p \in table : p.param = e.param => (p.pt = e.pt <=> p.ct = e.ct)
  BY <1>1
<1>3. \A p, q \in table : p.param = q.param => (p.pt = q.pt <=> p.ct = q.ct)
  BY DEF Box!Bijective
<1> QED
  BY <1>2, <1>3 DEF Box!Bijective

LEMMA FinishEncryptPreserves ==
  ASSUME IInv, FinishEncrypt
  PROVE  IInv' /\ BoxStep
<1> DEFINE m == call.data
           c == [blocks |-> out, ragged |-> FALSE]
           e == [param |-> Param, pt |-> m, ct |-> c]
           n == Len(out)
<1>1. /\ pc = "loop" /\ Encrypting /\ pc' = "idle" /\ ret' = 0
      /\ local' = Cleaned /\ held' = FALSE /\ i = NumBlocks
      /\ outLen' = PaddedLen(ByteLen(m))
      /\ UNCHANGED <<call, i, out, calls, rejected, traces>>
  BY DEF FinishEncrypt, Return
<1>2. /\ GoodPlain(m) /\ ~Overflows(ByteLen(m)) /\ n = Len(m.full) + 1
      /\ GoodParam(Param) /\ n \in Nat \ {0} /\ i = n
      /\ out \in Seq(Block \cup {Junk}) /\ local \in Locals
  BY <1>1, LoopLength DEF IInv, StateInv, CallInv, EncryptCall
<1>3. /\ outLen' = n * BlockSize /\ n * BlockSize \in 0 .. SizeMax
      /\ outLen' \div BlockSize = n
  <2>1. /\ PaddedLen(ByteLen(m)) = (Len(m.full) + 1) * BlockSize
        /\ (Len(m.full) + 1) * BlockSize \in 0 .. SizeMax
        /\ PaddedLen(ByteLen(m)) \div BlockSize = Len(m.full) + 1
    BY <1>2, Lengths
  <2> QED
    BY <1>1, <1>2, <2>1
<1>4. \A j \in 1 .. n : out[j] \in Block /\ OpenAt(Param, out, j) = Pad(m)[j]
  BY <1>1, <1>2 DEF IInv, EncryptInv
<1>5. out \in Seq(Block) /\ SubSeq(out, 1, n) = out
  <2>1. SubSeq(out, 1, n) \in Seq(Block) /\ Len(SubSeq(out, 1, n)) = n
        /\ \A j \in 1 .. n : SubSeq(out, 1, n)[j] = out[j]
    BY <1>2, <1>4, SubSeqProperties
  <2>2. SubSeq(out, 1, n) \in Seq(Block \cup {Junk})
    BY <2>1, SeqMonotonic
  <2>3. SubSeq(out, 1, n) = out
    BY <1>2, <2>1, <2>2, SeqEqual
  <2> QED
    BY <2>1, <2>3
<1>6. table' = table \cup {e}
  BY <1>3, <1>5 DEF FinishEncrypt
<1>7. GoodAnswer(e)
  <2>1. GoodSealed(c)
    BY <1>3, <1>5 DEF GoodSealed, CipherText
  <2>2. m \in PlainText /\ c \in CipherText /\ Param \in Params
    BY <1>2, <2>1 DEF GoodPlain, GoodSealed, GoodParam
  <2>3. e \in [param : Params, pt : PlainText, ct : CipherText]
    BY <2>2
  <2>4. Len(e.ct.blocks) = Len(e.pt.full) + 1 /\ ~e.ct.ragged
    BY <1>2
  <2>5. \A j \in 1 .. Len(e.ct.blocks) : Pad(e.pt)[j] = OpenAt(e.param, e.ct.blocks, j)
    BY <1>4
  <2>6. GoodParam(e.param) /\ GoodPlain(e.pt) /\ GoodSealed(e.ct)
    BY <1>2, <2>1
  <2> QED
    BY <2>3, <2>4, <2>5, <2>6 DEF GoodAnswer
<1>8. ASSUME NEW q \in table, q.param = e.param, q.pt = e.pt
      PROVE  q.ct = e.ct
  <2>1. GoodAnswer(q)
    BY DEF IInv, HistoryInv
  <2>2. \A j \in 1 .. n : out[j] = q.ct.blocks[j]
    BY <1>1, <1>2, <1>8 DEF IInv, EncryptInv
  <2>3. q.ct \in CipherText /\ q.ct.blocks \in Seq(Block) /\ Len(q.ct.blocks) = n
        /\ q.ct.ragged = FALSE
    BY <1>2, <1>8, <2>1 DEF GoodAnswer, CipherText
  <2>4. q.ct.blocks = out
    BY <1>5, <2>2, <2>3, SeqEqual
  <2>5. q.ct = [blocks |-> q.ct.blocks, ragged |-> q.ct.ragged]
    BY <2>3 DEF CipherText
  <2> QED
    BY <2>3, <2>4, <2>5
<1> HIDE DEF e, c, m, n
<1>9. HistoryInv'
  BY <1>1, <1>6, <1>7 DEF IInv, HistoryInv
<1>10. Box!Bijective'
  BY <1>6, <1>7, <1>8, AnswerBijective DEF IInv, HistoryInv
<1>11. /\ local'.ctx = Zeroed /\ local'.padded = Zeroed
       /\ local'.block \in {Junk, Zeroed} /\ local'.prev \in {Junk, Zeroed}
       /\ local' \in Locals /\ DOMAIN local' = {"ctx", "block", "prev", "padded"}
  <2>1. ~Chained => local.block = Junk /\ local.prev = Junk
    BY <1>1 DEF IInv, EncryptInv
  <2> QED
    BY <1>1, <2>1 DEF Cleaned, Locals, Memory
<1>12. StateInv'
  BY <1>1, <1>2, <1>3, <1>11 DEF IInv, StateInv
<1>13. CallInv' /\ MallocInv' /\ EncryptCall' /\ EncryptInv' /\ DecryptInv'
  BY <1>1 DEF CallInv, MallocInv, EncryptCall, EncryptInv, DecryptInv
<1>14. CleanExit' /\ FailureLeavesLength'
  BY <1>1, <1>11 DEF CleanExit, FailureLeavesLength
<1> QED
  BY <1>1, <1>6, <1>7, <1>9, <1>10, <1>12, <1>13, <1>14 DEF IInv, BoxStep

\* What a completed decryption has written.
LEMMA Decrypted ==
  ASSUME IInv, pc = "loop", ~Encrypting, i = NumBlocks
  PROVE  LET c == call.data
             n == Len(out)
         IN  /\ GoodSealed(c) /\ c \in CipherText /\ ~c.ragged /\ c.blocks \in Seq(Block)
             /\ GoodParam(Param) /\ Param \in Params
             /\ i = n /\ n \in Nat \ {0} /\ Len(c.blocks) = n /\ n * BlockSize <= SizeMax
             /\ out \in Seq(Block) /\ out # <<>>
             /\ \A j \in 1 .. n : out[j] = OpenAt(Param, c.blocks, j)
<1> DEFINE c == call.data
           n == Len(out)
<1>1. /\ GoodSealed(c) /\ c \in CipherText /\ ~c.ragged /\ c.blocks \in Seq(Block)
      /\ GoodParam(Param) /\ Param \in Params /\ Len(c.blocks) = n
      /\ i = n /\ n \in Nat \ {0} /\ out \in Seq(Block \cup {Junk})
  BY LoopLength
  DEF IInv, StateInv, CallInv, DecryptInv, GoodSealed, CipherText, GoodParam
<1>2. n * BlockSize <= SizeMax
  BY <1>1 DEF GoodSealed
<1>3. \A j \in 1 .. n : out[j] = OpenAt(Param, c.blocks, j)
  BY <1>1 DEF IInv, DecryptInv
<1>4. ASSUME NEW j \in 1 .. n PROVE out[j] \in Block
  <2>1. Param.mode \in {"ecb", "cbc"} /\ Param.key \in Key
    BY <1>1 DEF Params
  <2>2. Param.mode = "cbc" => Previous(Param, c.blocks, j) \in Block
    BY <1>1, PreviousBlock
  <2>3. c.blocks[j] \in Block
    BY <1>1
  <2> QED
    BY <1>3, <2>1, <2>2, <2>3, OpenClose DEF OpenAt
<1>5. out \in Seq(Block)
  BY <1>1, <1>4
<1> QED
  BY <1>1, <1>2, <1>3, <1>5, EmptySeq

LEMMA FinishDecryptPreserves ==
  ASSUME IInv, FinishDecrypt
  PROVE  IInv' /\ BoxStep
<1> DEFINE c == call.data
           n == Len(out)
           u == Unpad(out, i)
           m == Taken(out, u.len)
           e == [param |-> Param, pt |-> m, ct |-> c]
           r == [param |-> Param, ct |-> c]
           Outcome ==
             /\ HistoryInv' /\ Box!Bijective' /\ FailureLeavesLength'
             /\ ret' \in {0, -1} /\ outLen' \in (0 .. SizeMax) \cup {Junk}
             /\ BoxStep
<1>1. /\ pc = "loop" /\ ~Encrypting /\ i = NumBlocks /\ pc' = "idle" /\ ret' = u.ret
      /\ local' = Cleaned /\ UNCHANGED <<call, i, held, out, calls, traces>>
  BY DEF FinishDecrypt, Return
<1>2. \/ /\ u.ret = 0 /\ outLen' = u.len
         /\ table' = table \cup {e} /\ UNCHANGED rejected
      \/ /\ u.ret # 0 /\ rejected' = rejected \cup {r} /\ UNCHANGED <<outLen, table>>
  BY DEF FinishDecrypt
<1>3. /\ GoodSealed(c) /\ c \in CipherText /\ ~c.ragged /\ c.blocks \in Seq(Block)
      /\ GoodParam(Param) /\ Param \in Params
      /\ i = n /\ n \in Nat \ {0} /\ Len(c.blocks) = n /\ n * BlockSize <= SizeMax
      /\ out \in Seq(Block) /\ out # <<>>
      /\ \A j \in 1 .. n : out[j] = OpenAt(Param, c.blocks, j)
  BY <1>1, Decrypted
<1>4. \/ u.ret = 0 /\ ValidPadding(out[n])
      \/ u.ret = -1 /\ ~ValidPadding(out[n])
  BY <1>3 DEF Unpad
<1>5. ASSUME u.ret = 0 PROVE Outcome
  <2>1. u = Unpad(out, Len(out))
    BY <1>3
  <2>2. /\ u.len \in 0 .. SizeMax /\ GoodPlain(m) /\ Len(m.full) + 1 = n
        /\ \A j \in 1 .. n : Pad(m)[j] = out[j]
    BY <1>3, <1>4, <1>5, <2>1, PadTaken
  <2>3. GoodAnswer(e)
    <3>1. m \in PlainText
      BY <2>2 DEF GoodPlain
    <3>2. e \in [param : Params, pt : PlainText, ct : CipherText]
      BY <1>3, <3>1
    <3>3. \A j \in 1 .. Len(e.ct.blocks) : Pad(e.pt)[j] = OpenAt(e.param, e.ct.blocks, j)
      BY <1>3, <2>2
    <3>4. GoodParam(e.param) /\ GoodPlain(e.pt) /\ GoodSealed(e.ct) /\ ~e.ct.ragged
          /\ Len(e.ct.blocks) = Len(e.pt.full) + 1
      BY <1>3, <2>2
    <3> QED
      BY <3>2, <3>3, <3>4 DEF GoodAnswer
  <2>4. ASSUME NEW q \in table, q.param = e.param, q.pt = e.pt
        PROVE  q.ct = e.ct
    <3>1. GoodAnswer(q)
      BY DEF IInv, HistoryInv
    <3>2. /\ q.ct \in CipherText /\ q.ct.blocks \in Seq(Block)
          /\ Len(q.ct.blocks) = n /\ q.ct.ragged = FALSE
      BY <2>2, <2>4, <3>1 DEF GoodAnswer, CipherText
    <3>3. \A j \in 1 .. i : out[j] = Pad(q.pt)[j]
      BY <1>3, <2>2, <2>4
    <3>4. i <= Len(q.ct.blocks) /\ q.param = Param
      BY <1>3, <2>4, <3>2
    <3>5. \A j \in 1 .. n : c.blocks[j] = q.ct.blocks[j]
      BY <1>1, <1>3, <3>3, <3>4 DEF IInv, DecryptInv
    <3>6. q.ct.blocks = c.blocks
      BY <1>3, <3>2, <3>5, SeqEqual
    <3>7. c.ragged = FALSE /\ c = [blocks |-> c.blocks, ragged |-> c.ragged]
          /\ q.ct = [blocks |-> q.ct.blocks, ragged |-> q.ct.ragged]
      BY <1>3, <3>2 DEF CipherText
    <3> QED
      BY <3>2, <3>6, <3>7
  <2>5. table' = table \cup {e} /\ UNCHANGED rejected /\ outLen' = u.len
    BY <1>2, <1>5
  <2> HIDE DEF e, r, m, u
  <2>6. HistoryInv'
    BY <1>1, <2>3, <2>5 DEF IInv, HistoryInv
  <2>7. Box!Bijective'
    BY <2>3, <2>4, <2>5, AnswerBijective DEF IInv, HistoryInv
  <2>8. outLen' \in (0 .. SizeMax) \cup {Junk}
    BY <2>2, <2>5
  <2>9. ret' = 0
    BY <1>1, <1>5
  <2>10. FailureLeavesLength'
    BY <2>9 DEF FailureLeavesLength
  <2> QED
    BY <2>3, <2>5, <2>6, <2>7, <2>8, <2>9, <2>10 DEF BoxStep
<1>6. ASSUME u.ret # 0 PROVE Outcome
  <2>1. rejected' = rejected \cup {r} /\ UNCHANGED <<outLen, table>>
    BY <1>2, <1>6
  <2>2. GoodRefusal(r)
    <3>1. ~ValidPadding(out[n])
      BY <1>4, <1>6
    <3>2. out[n] = OpenAt(Param, c.blocks, Len(c.blocks))
      BY <1>3
    <3>3. r \in [param : Params, ct : CipherText]
      BY <1>3
    <3> QED
      BY <3>1, <3>2, <3>3 DEF GoodRefusal
  <2>3. ret' = -1 /\ outLen' = Junk
    BY <1>1, <1>4, <1>6, <2>1 DEF IInv, CallInv
  <2> HIDE DEF r, u
  <2>4. HistoryInv' /\ Box!Bijective'
    BY <1>1, <2>1, <2>2 DEF IInv, HistoryInv, Box!Bijective
  <2>5. FailureLeavesLength'
    BY <1>1, <2>3 DEF FailureLeavesLength, Encrypting
  <2> QED
    BY <2>1, <2>2, <2>3, <2>4, <2>5 DEF BoxStep
<1> HIDE DEF e, r, m, u
<1>7. Outcome
  BY <1>5, <1>6
<1>8. /\ local'.ctx = Zeroed /\ local'.padded = Junk
      /\ local'.block \in {Junk, Zeroed} /\ local'.prev \in {Junk, Zeroed}
      /\ local' \in Locals /\ DOMAIN local' = {"ctx", "block", "prev", "padded"}
  <2>1. (~Chained => local.block = Junk /\ local.prev = Junk) /\ local.padded = Junk
    BY <1>1 DEF IInv, DecryptInv
  <2> QED
    BY <1>1, <2>1 DEF Cleaned, Locals, Memory
<1>9. ~held
  BY <1>1 DEF IInv, DecryptInv
<1>10. StateInv'
  BY <1>1, <1>3, <1>7, <1>8 DEF IInv, StateInv
<1>11. CallInv' /\ MallocInv' /\ EncryptCall' /\ EncryptInv' /\ DecryptInv'
  BY <1>1 DEF CallInv, MallocInv, EncryptCall, EncryptInv, DecryptInv
<1>12. CleanExit'
  BY <1>1, <1>8, <1>9 DEF CleanExit
<1> QED
  BY <1>7, <1>10, <1>11, <1>12 DEF IInv

-----------------------------------------------------------------------------
(* The specification *)

\* What callers pass is a message or a ciphertext of a size a buffer can have.
LEMMA GoodInputs ==
  ASSUME IInv
  PROVE  /\ \A m \in Messages \cup {e.pt : e \in table} : GoodPlain(m)
         /\ \A c \in Strays \cup Known \cup UNION {Damaged(d) : d \in Known} : GoodSealed(c)
<1>1. ASSUME NEW m \in Messages PROVE GoodPlain(m)
  BY InputAssumption DEF GoodPlain
<1>2. ASSUME NEW e \in table PROVE GoodPlain(e.pt) /\ GoodSealed(e.ct) /\ Len(e.ct.blocks) # 0
  <2>1. GoodAnswer(e)
    BY DEF IInv, HistoryInv
  <2>2. Len(e.pt.full) \in Nat /\ Len(e.ct.blocks) = Len(e.pt.full) + 1
    BY <2>1, Lengths DEF GoodAnswer
  <2> QED
    BY <2>1, <2>2 DEF GoodAnswer
<1>3. ASSUME NEW c \in Strays PROVE GoodSealed(c)
  BY InputAssumption DEF GoodSealed
<1>4. ASSUME NEW d, GoodSealed(d), Len(d.blocks) # 0, NEW c \in Damaged(d)
      PROVE  GoodSealed(c)
  <2> DEFINE n == Len(d.blocks)
  <2>1. /\ d \in CipherText /\ d.blocks \in Seq(Block) /\ n \in Nat \ {0}
        /\ n * BlockSize <= SizeMax /\ BlockSize \in Nat \ {0} /\ SizeMax \in Nat
    BY <1>4, SizeAssumption DEF GoodSealed, CipherText
  <2>2. CASE c = [d EXCEPT !.blocks = Front(@)]
    <3> DEFINE h == n - 1
    <3>1. h \in Nat /\ h + 1 = n
      BY <2>1
    <3>2. /\ c.blocks = SubSeq(d.blocks, 1, h)
          /\ c \in [blocks : {c.blocks}, ragged : BOOLEAN]
      <4>1. c = [d EXCEPT !.blocks = SubSeq(d.blocks, 1, h)]
        BY <2>2 DEF Front
      <4> QED
        BY <2>1, <4>1 DEF CipherText
    <3>3. \A j \in 1 .. h : d.blocks[j] \in Block
      BY <2>1
    <3>4. c.blocks \in Seq(Block) /\ Len(c.blocks) = h
      BY <3>1, <3>2, <3>3, SubSeqProperties
    <3> HIDE DEF h, n
    <3>5. n * BlockSize = h * BlockSize + BlockSize /\ h * BlockSize \in Nat
      BY <2>1, <3>1, NextMultiple
    <3>6. h * BlockSize <= SizeMax
      BY <2>1, <3>5
    <3> QED
      BY <3>2, <3>4, <3>6 DEF GoodSealed, CipherText
  <2>3. CASE \E k \in DOMAIN d.blocks, b \in IVs : c = [d EXCEPT !.blocks[k] = b]
    <3>1. PICK k \in 1 .. n, b \in IVs : c = [d EXCEPT !.blocks[k] = b]
      <4>1. DOMAIN d.blocks = 1 .. n
        BY <2>1, LenProperties
      <4> QED
        BY <2>3, <4>1, Zenon
    <3>2. b \in Block
      BY InputAssumption
    <3>3. c.blocks = [d.blocks EXCEPT ![k] = b] /\ c \in [blocks : {c.blocks}, ragged : BOOLEAN]
      BY <2>1, <3>1 DEF CipherText
    <3>4. c.blocks \in Seq(Block) /\ Len(c.blocks) = n
      BY <2>1, <3>2, <3>3, ExceptSeq
    <3> QED
      BY <2>1, <3>3, <3>4 DEF GoodSealed, CipherText
  <2> QED
    BY <1>4, <2>2, <2>3 DEF Damaged
<1> QED
  BY <1>1, <1>2, <1>3, <1>4 DEF Known

LEMMA NextPreserves ==
  ASSUME IInv, [Next]_vars
  PROVE  IInv' /\ BoxStep
<1>1. CASE UNCHANGED vars
  <2>1. StateInv' /\ CallInv' /\ MallocInv' /\ EncryptCall' /\ CleanExit' /\ FailureLeavesLength'
    BY <1>1 DEF vars, history, IInv, StateInv, CallInv, MallocInv, EncryptCall, CleanExit,
                FailureLeavesLength, Encrypting, Param, GoodParam
  <2>2. EncryptInv' /\ DecryptInv'
    BY <1>1 DEF vars, history, IInv, EncryptInv, DecryptInv, Encrypting, Chained, Param,
                OpenAt, Previous
  <2>3. HistoryInv' /\ Box!Bijective' /\ BoxStep
    BY <1>1 DEF vars, history, IInv, HistoryInv, Box!Bijective, BoxStep
  <2> QED
    BY <2>1, <2>2, <2>3 DEF IInv
<1>2. ASSUME pc = "idle", NEW mode \in {"ecb", "cbc"}, NEW key \in Key,
             NEW iv \in ModeIVs(mode),
             NEW m \in Messages \cup {e.pt : e \in table}, CallEncrypt(mode, key, iv, m)
      PROVE  IInv' /\ BoxStep
  <2>1. BoxStep
    BY <1>2 DEF CallEncrypt, BoxStep
  <2> QED
    BY <1>2, <2>1, GoodInputs, CallEncryptPreserves
<1>3. ASSUME pc = "idle", NEW mode \in {"ecb", "cbc"}, NEW key \in Key,
             NEW iv \in ModeIVs(mode),
             NEW c \in Strays \cup Known \cup UNION {Damaged(d) : d \in Known},
             NEW alias \in MayAlias(mode), CallDecrypt(mode, key, iv, c, alias)
      PROVE  IInv' /\ BoxStep
  BY <1>3, GoodInputs, CallDecryptPreserves
<1>4. CASE MallocFails
  BY <1>4, MallocFailsPreserves DEF MallocFails, BoxStep, history
<1>5. CASE PrepareEncrypt
  BY <1>5, PrepareEncryptPreserves DEF PrepareEncrypt, BoxStep, history
<1>6. CASE EncryptBlockEcb
  BY <1>6, EncryptBlockEcbPreserves DEF EncryptBlockEcb, BoxStep, history
<1>7. CASE EncryptBlockCbc
  BY <1>7, EncryptBlockCbcPreserves DEF EncryptBlockCbc, BoxStep, history
<1>8. CASE DecryptBlockEcb
  BY <1>8, DecryptBlockEcbPreserves DEF DecryptBlockEcb, BoxStep
<1>9. CASE DecryptBlockCbc
  BY <1>9, DecryptBlockCbcPreserves DEF DecryptBlockCbc, BoxStep
<1>10. CASE FinishEncrypt
  BY <1>10, FinishEncryptPreserves
<1>11. CASE FinishDecrypt
  BY <1>11, FinishDecryptPreserves
<1> QED
  BY <1>1, <1>2, <1>3, <1>4, <1>5, <1>6, <1>7, <1>8, <1>9, <1>10, <1>11 DEF Next

LEMMA Invariant == Spec => []IInv
<1>1. IInv /\ [Next]_vars => IInv'
  BY NextPreserves
<1> QED
  BY InitEstablishes, <1>1, PTL DEF Spec

\* For every block size, message and number of calls every variable of the four
\* functions keeps its type: an output buffer holds blocks or what was in it,
\* and *output_len never exceeds a size_t.
THEOREM ModesTypeCorrect == Spec => []TypeOK
<1>1. IInv => TypeOK
  <2> SUFFICES ASSUME IInv PROVE TypeOK
    OBVIOUS
  <2>1. /\ local.ctx \in Memory(Key) /\ local.block \in Memory(Block)
        /\ local.prev \in Memory(Block) /\ local.padded \in Seq(Block) \cup {Junk, Zeroed}
    BY DEF IInv, StateInv, Locals
  <2>2. /\ \A e \in table : e.pt \in PlainText /\ e.ct \in CipherText
        /\ \A e \in rejected : e.ct \in CipherText
    BY DEF IInv, HistoryInv, GoodAnswer, GoodRefusal
  <2> QED
    BY <2>1, <2>2 DEF IInv, StateInv, TypeOK
<1> QED
  BY Invariant, <1>1, PTL

\* pkcs7_pad fills exactly the bytes of malloc and no loop writes beyond the
\* output its caller allocates, whatever the length of the input: the overflow
\* check of the encrypting functions is what this rests on.
THEOREM ModesInBounds == Spec => []InBounds
<1>1. IInv => InBounds
  BY LoopLength DEF InBounds
<1> QED
  BY Invariant, <1>1, PTL

\* On every way out of the four functions the temporary is freed and the round
\* keys, the chaining block and the padded plaintext are wiped or never written.
THEOREM ModesCleanExit == Spec => []CleanExit
<1>1. IInv => CleanExit
  BY DEF IInv
<1> QED
  BY Invariant, <1>1, PTL

\* A failing call leaves *output_len alone, and a failing encryption the output.
THEOREM ModesFailureLeavesLength == Spec => []FailureLeavesLength
<1>1. IInv => FailureLeavesLength
  BY DEF IInv
<1> QED
  BY Invariant, <1>1, PTL

\* What a decryption writes at a place is a function of the key, the ciphertext
\* block there and, in CBC, the one before it, in place or not.
THEOREM ModesBlockLocality == Spec => []BlockLocality
<1>1. IInv => BlockLocality
  BY DEF IInv, HistoryInv, GoodTrace, BlockLocality
<1> QED
  BY Invariant, <1>1, PTL

\* A refused ciphertext is not among the answers.
LEMMA NeverAnsweredAndRefused ==
  ASSUME IInv
  PROVE  Box!NeverBoth
<1> SUFFICES ASSUME NEW p \in table, NEW q \in rejected, p.param = q.param, p.ct = q.ct
             PROVE  FALSE
  BY DEF Box!NeverBoth
<1>1. GoodAnswer(p) /\ GoodRefusal(q)
  BY DEF IInv, HistoryInv
<1>2. /\ GoodPlain(p.pt) /\ Len(p.ct.blocks) = Len(p.pt.full) + 1 /\ ~p.ct.ragged
      /\ Len(p.pt.full) \in Nat
  BY <1>1, Lengths DEF GoodAnswer
<1>3. p.ct.blocks # <<>>
  BY <1>2
<1>4. ~ValidPadding(OpenAt(p.param, p.ct.blocks, Len(p.ct.blocks)))
  BY <1>1, <1>2, <1>3 DEF GoodRefusal
<1>5. Len(p.ct.blocks) \in 1 .. Len(p.ct.blocks)
  BY <1>2
<1>6. Pad(p.pt)[Len(p.ct.blocks)] = OpenAt(p.param, p.ct.blocks, Len(p.ct.blocks))
  BY <1>1, <1>5 DEF GoodAnswer
<1>7. Pad(p.pt)[Len(p.ct.blocks)] = LastBlock(p.pt)
  BY <1>2, PadBlocks
<1> QED
  BY <1>2, <1>4, <1>6, <1>7, PadValid

\* The four functions implement CipherBox: under each mode, key and IV
\* encryption is injective, decryption is its inverse where it succeeds, and it
\* fails exactly on what no encryption produces.
THEOREM ModesRefinement == Spec => ImplementsBox
<1>1. Init => Box!Init
  BY DEF Init, Box!Init
<1>2. IInv => Box!NeverBoth
  BY NeverAnsweredAndRefused
<1>3. IInv /\ Box!NeverBoth' /\ [Next]_vars => [Box!Next]_<<table, rejected>>
  <2> SUFFICES ASSUME IInv, Box!NeverBoth', [Next]_vars
               PROVE  [Box!Next]_<<table, rejected>>
    OBVIOUS
  <2>1. IInv' /\ BoxStep
    BY NextPreserves
  <2>2. Box!Bijective' /\ Box!NeverBoth'
    BY <2>1 DEF IInv
  <2>3. CASE UNCHANGED <<table, rejected>>
    BY <2>3
  <2>4. ASSUME NEW e, GoodAnswer(e), table' = table \cup {e}, UNCHANGED rejected
        PROVE  Box!Answer
    <3>1. e \in Box!Entry
      BY <2>4 DEF GoodAnswer, Params, Box!Entry
    <3>2. e \in table'
      BY <2>4
    <3> QED
      BY <2>4, <3>1, <3>2 DEF Box!Answer
  <2>5. ASSUME NEW r, GoodRefusal(r), rejected' = rejected \cup {r}, UNCHANGED table
        PROVE  Box!Refuse
    <3>1. r \in Box!Refusal
      BY <2>5 DEF GoodRefusal, Params, Box!Refusal
    <3>2. r \in rejected'
      BY <2>5
    <3> QED
      BY <2>5, <3>1, <3>2 DEF Box!Refuse
  <2> QED
    BY <2>1, <2>2, <2>3, <2>4, <2>5 DEF BoxStep, Box!Next
<1> QED
  BY Invariant, <1>1, <1>2, <1>3, PTL DEF Spec, ImplementsBox, Box!Spec

=============================================================================

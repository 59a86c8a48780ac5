------------------------------ MODULE SM4Codec ------------------------------
(***************************************************************************)
(* The four codecs of sm4_c/sm4_ext.c: hex_to_bytes, bytes_to_hex,          *)
(* base64_encode and base64_decode, one loop iteration a step, with the      *)
(* buffers they write as their callers allocate them.                        *)
(*                                                                           *)
(* The widths of a byte, of a Base64 digit and of a hexadecimal digit are    *)
(* parameters (8, 6 and 4 in the code).  A character is the value of the     *)
(* digit it stands for, Pad ('=') or Bad (any other): hex_char_to_val,       *)
(* base64_chars and base64_decode_table are the conversions between the two. *)
(***************************************************************************)
EXTENDS Integers, Sequences

CONSTANTS
  ByteBits, DigitBits, NibbleBits,
  Pad, Bad,
  Nul,          (* '\0' *)
  Junk,         (* a byte nobody wrote *)
  Failure,      (* -1 of hex_to_bytes, NULL of base64_decode *)
  Nothing,      (* no call has returned; nothing was encoded *)
  Data,         (* what callers encode: sequences of bytes *)
  HexTexts, Base64Texts   (* what callers decode besides what was encoded *)

Byte   == 2 ^ ByteBits
Digit  == 2 ^ DigitBits
Nibble == 2 ^ NibbleBits

Bytes       == 0 .. Byte - 1
Base64Chars == (0 .. Digit - 1) \cup {Pad, Bad}
HexChars    == (0 .. Nibble - 1) \cup {Pad, Bad}

ASSUME WidthAssumption ==
  /\ ByteBits \in Nat \ {0} /\ DigitBits \in Nat \ {0} /\ NibbleBits \in Nat \ {0}
  /\ ByteBits = 2 * NibbleBits
  /\ 3 * ByteBits = 4 * DigitBits

\* What the provers do not know of the powers of two.
ASSUME PowerAssumption ==
  /\ 2 ^ 0 = 1
  /\ \A a \in 0 .. 3 * ByteBits - 1 : 2 ^ (a + 1) = 2 * 2 ^ a

ASSUME CharAssumption ==
  /\ Pad \notin 0 .. Digit - 1 /\ Pad \notin 0 .. Nibble - 1
  /\ Bad \notin (0 .. Digit - 1) \cup {Pad}
  /\ Failure \notin Seq(Bytes)

ASSUME InputAssumption ==
  /\ Data \subseteq Seq(Bytes)
  /\ HexTexts \subseteq Seq(HexChars)
  /\ Base64Texts \subseteq Seq(Base64Chars)

VARIABLES
  fn,       (* the function being executed, "idle" between calls *)
  in,       (* its argument *)
  i,        (* groups of the argument done: its loop variable over its stride *)
  out,      (* the buffer it writes *)
  j,        (* the index it writes at next, 0-based *)
  outLen,   (* *bytes_len, *out_len *)
  overrun,  (* history: a write fell outside the buffer *)
  ret,      (* how the call ended, until its caller is done with it: its
               function and argument, its value and the length it reports *)
  coded     (* history: what was encoded, by which function, and the text *)

vars == <<fn, in, i, out, j, outLen, overrun, ret, coded>>

-----------------------------------------------------------------------------
At(k) == in[k + 1]                          (* C's input[k] *)

Fresh(n) == [k \in 1 .. n |-> Junk]         (* palloc(n) *)

\* out[at], out[at + 1], ... := bytes
Write(bytes) ==
  /\ out' = [k \in 1 .. Len(out) |-> IF k - j \in 1 .. Len(bytes) THEN bytes[k - j] ELSE out[k]]
  /\ j' = j + Len(bytes)
  /\ overrun' = (overrun \/ j + Len(bytes) > Len(out))

\* No function is being executed and the caller is done with the last one.
Free == fn = "idle" /\ ret = Nothing

Call(f, argument, buffer, len) ==
  /\ Free
  /\ fn' = f
  /\ in' = argument
  /\ i' = 0
  /\ out' = Fresh(buffer)
  /\ j' = 0
  /\ outLen' = len
  /\ UNCHANGED <<overrun, ret, coded>>

Step == /\ i' = i + 1
        /\ UNCHANGED <<fn, in, outLen, ret, coded>>

\* The frame is gone; the caller has the value and the length.
Return(value, len) ==
  /\ fn' = "idle"
  /\ ret' = [fn |-> fn, arg |-> in, value |-> value, len |-> len]
  /\ in' = <<>> /\ i' = 0 /\ out' = <<>> /\ j' = 0 /\ outLen' = 0

\* The last write of an encoder, the '\0' after the text.
Encoded ==
  LET text == SubSeq(out, 1, j)
  IN  /\ Return(text, j)
      /\ overrun' = (overrun \/ j + 1 > Len(out))
      /\ coded' = [fn |-> fn, data |-> in, text |-> text]

\* A text is decoded in a session that encoded it or that encoded nothing, and
\* a session encodes one thing (bound).
Presented(f, texts) == IF coded = Nothing THEN texts
                       ELSE IF coded.fn = f THEN {coded.text} ELSE {}

\* The caller is done with what a call returned.
Consume == ret # Nothing /\ ret' = Nothing /\ UNCHANGED <<fn, in, i, out, j, outLen, overrun, coded>>

Init ==
  /\ fn = "idle" /\ in = <<>> /\ i = 0 /\ out = <<>> /\ j = 0 /\ outLen = 0
  /\ overrun = FALSE
  /\ ret = Nothing
  /\ coded = Nothing

-----------------------------------------------------------------------------
(* hex_to_bytes; the buffer is the one sm4_decrypt_hex gives it, and as long  *)
(* as the arrays for keys and IVs are for texts of 32 and 24 characters       *)

CallHexToBytes(text) == Call("hex_to_bytes", text, Len(text) \div 2, Junk)

OddLength == Len(in) % 2 # 0

HexByteSwapped(hi, lo) == (hi + lo * Nibble) % Byte    (* mutant: the halves swapped *)

HexByte(hi, lo) == (hi * Nibble + lo) % Byte

IsNibble(c) == c \in 0 .. Nibble - 1

RefuseHex ==
  /\ fn = "hex_to_bytes"
  /\ \/ OddLength
     \/ /\ i < Len(in) \div 2
        /\ ~(IsNibble(At(2 * i)) /\ IsNibble(At(2 * i + 1)))
  /\ Return(Failure, Junk)
  /\ UNCHANGED <<overrun, coded>>

HexPair ==
  /\ fn = "hex_to_bytes"
  /\ ~OddLength
  /\ i < Len(in) \div 2
  /\ IsNibble(At(2 * i)) /\ IsNibble(At(2 * i + 1))
  /\ Write(<<HexByte(At(2 * i), At(2 * i + 1))>>)
  /\ Step

ReturnBytes ==
  /\ fn = "hex_to_bytes"
  /\ ~OddLength
  /\ i = Len(in) \div 2
  /\ Return(SubSeq(out, 1, j), j)
  /\ UNCHANGED <<overrun, coded>>

(* bytes_to_hex; sm4_encrypt_hex allocates cipher_len * 2 + 1 *)

CallBytesToHex(data) == Call("bytes_to_hex", data, 2 * Len(data) + 1, Junk)

ByteToHex ==
  /\ fn = "bytes_to_hex"
  /\ i < Len(in)
  /\ Write(<<(At(i) \div Nibble) % Nibble, At(i) % Nibble>>)
  /\ Step

ReturnHex ==
  /\ fn = "bytes_to_hex"
  /\ i = Len(in)
  /\ Encoded

(* base64_encode *)

EncodedLen(len) == ((len + 2) \div 3) * 4

CallBase64Encode(data) == Call("base64_encode", data, EncodedLen(Len(data)) + 1, Junk)

\* val, with the bytes beyond the end of the data as 0
Triple == LET byte(k) == IF k < Len(in) THEN At(k) ELSE 0
          IN  (byte(3*i) * Byte + byte(3*i + 1)) * Byte + byte(3*i + 2)

DigitOfNoMask(val, unit) == val \div unit      (* mutant: & 0x3F is missing *)

\* (val >> n) & 0x3F, where unit = 2^n
DigitOf(val, unit) == (val \div unit) % Digit

EncodeTriple ==
  /\ fn = "base64_encode"
  /\ 3 * i < Len(in)
  /\ Write(<<DigitOf(Triple, Digit * Digit * Digit),
             DigitOf(Triple, Digit * Digit),
             IF 3*i + 1 < Len(in) THEN DigitOf(Triple, Digit) ELSE Pad,
             IF 3*i + 2 < Len(in) THEN DigitOf(Triple, 1) ELSE Pad>>)
  /\ Step

ReturnBase64 ==
  /\ fn = "base64_encode"
  /\ 3 * i >= Len(in)
  /\ Encoded

(* base64_decode *)

Padding(text) ==
  LET ends(k) == Len(text) >= 2 /\ text[Len(text) - k] = Pad
  IN  (IF ends(0) THEN 1 ELSE 0) + (IF ends(1) THEN 1 ELSE 0)

DecodedLenNoPadding(text) == (Len(text) \div 4) * 3   (* mutant: '=' counts as a byte *)

DecodedLen(text) == (Len(text) \div 4) * 3 - Padding(text)

CallBase64Decode(text) ==
  /\ Len(text) % 4 = 0
  /\ Call("base64_decode", text, DecodedLen(text), DecodedLen(text))

\* Returns NULL before anything is allocated.
RefuseLength(text) ==
  /\ Free
  /\ Len(text) % 4 # 0
  /\ ret' = [fn |-> "base64_decode", arg |-> text, value |-> Failure, len |-> 0]
  /\ UNCHANGED <<fn, in, i, out, j, outLen, overrun, coded>>

IsDigit(c) == c \in 0 .. Digit - 1

\* The last two characters of a group of four may be '='.
GoodGroup ==
  /\ IsDigit(At(4*i)) /\ IsDigit(At(4*i + 1))
  /\ \A k \in 2 .. 3 : At(4*i + k) = Pad \/ IsDigit(At(4*i + k))

RefuseGroup ==
  /\ fn = "base64_decode"
  /\ 4 * i < Len(in)
  /\ ~GoodGroup
  /\ Return(Failure, 0)     (* after pfree(out) *)
  /\ UNCHANGED <<overrun, coded>>

\* What the four characters of a group stand for, '=' being 0.
GroupValue ==
  LET d(k) == IF At(4*i + k) = Pad THEN 0 ELSE At(4*i + k)
  IN  ((d(0) * Digit + d(1)) * Digit + d(2)) * Digit + d(3)

\* (val >> n) & 0xFF, where unit = 2^n
ByteOf(unit) == (GroupValue \div unit) % Byte

GroupBytesAll == <<ByteOf(Byte * Byte), ByteOf(Byte), ByteOf(1)>>   (* mutant: '=' gives a byte *)

\* The first byte is stored whatever j is; the others only below *out_len.
GroupBytes ==
  LET first  == <<ByteOf(Byte * Byte)>>
      second == IF At(4*i + 2) # Pad /\ j + 1 < outLen THEN <<ByteOf(Byte)>> ELSE <<>>
      third  == IF At(4*i + 3) # Pad /\ j + 1 + Len(second) < outLen
                THEN <<ByteOf(1)>> ELSE <<>>
  IN  first \o second \o third

DecodeGroup ==
  /\ fn = "base64_decode"
  /\ 4 * i < Len(in)
  /\ GoodGroup
  /\ Write(GroupBytes)
  /\ Step

\* The caller gets the block and *out_len, not how far it was written.
ReturnDecoded ==
  /\ fn = "base64_decode"
  /\ 4 * i = Len(in)
  /\ Return(SubSeq(out, 1, outLen), outLen)
  /\ UNCHANGED <<overrun, coded>>

-----------------------------------------------------------------------------
Start ==
  \/ \E data \in Data :
       coded = Nothing /\ (CallBytesToHex(data) \/ CallBase64Encode(data))
  \/ \E text \in Presented("bytes_to_hex", HexTexts) : CallHexToBytes(text)
  \/ \E text \in Presented("base64_encode", Base64Texts) :
       CallBase64Decode(text) \/ RefuseLength(text)

Next ==
  \/ Free /\ Start
  \/ RefuseHex
  \/ HexPair
  \/ ReturnBytes
  \/ ByteToHex
  \/ ReturnHex
  \/ EncodeTriple
  \/ ReturnBase64
  \/ RefuseGroup
  \/ DecodeGroup
  \/ ReturnDecoded
  \/ Consume

Spec == Init /\ [][Next]_vars

-----------------------------------------------------------------------------
(* Hexadecimal and Base64 as they are defined: a text and its bytes are the   *)
(* same bits, grouped differently (RFC 4648).                                 *)

\* Bit p of a sequence of numbers of w bits, the highest bit of the first first.
BitAt(seq, w, p) == (seq[p \div w + 1] \div 2 ^ (w - 1 - (p % w))) % 2

\* The numbers of v bits in `groups' are the bits of `seq', numbers of w bits, in
\* their order; the bits that fill no group are dropped.
Regrouped(seq, w, groups, v) ==
  /\ Len(groups) = (Len(seq) * w) \div v
  /\ \A k \in DOMAIN groups : groups[k] \in 0 .. 2 ^ v - 1
  /\ \A p \in 0 .. Len(groups) * v - 1 : BitAt(groups, v, p) = BitAt(seq, w, p)

Pads(text) == {k \in DOMAIN text : text[k] = Pad}

\* The digits of a text, '=' counting as zero, and those that are not '='.
DigitsWithPads(text) == [k \in DOMAIN text |-> IF text[k] = Pad THEN 0 ELSE text[k]]
DigitsOf(text) == [k \in DOMAIN text \ Pads(text) |-> text[k]]

\* Data is filled up with zero bytes to whole groups of three, and as many digits
\* at the end give way to '='.
IsBase64Of(text, data) ==
  LET pads == (3 - (Len(data) % 3)) % 3
  IN  /\ Regrouped(data \o [k \in 1 .. pads |-> 0], ByteBits, DigitsWithPads(text), DigitBits)
      /\ Pads(text) = Len(text) - pads + 1 .. Len(text)

IsHexText(text) == Len(text) % 2 = 0 /\ \A k \in DOMAIN text : IsNibble(text[k])

\* Groups of four digits, of which the last may end in one or two '='.
IsBase64Text(text) ==
  /\ Len(text) % 4 = 0
  /\ \E n \in 0 .. 2 : Pads(text) = Len(text) - n + 1 .. Len(text)
  /\ \A k \in DOMAIN text \ Pads(text) : IsDigit(text[k])

-----------------------------------------------------------------------------
(* Properties *)

Functions == {"hex_to_bytes", "bytes_to_hex", "base64_encode", "base64_decode"}

\* What a function reads and what it writes.
InChars == [hex_to_bytes |-> HexChars, bytes_to_hex |-> Bytes,
            base64_encode |-> Bytes, base64_decode |-> Base64Chars]
OutChars == [hex_to_bytes |-> Bytes, bytes_to_hex |-> HexChars,
             base64_encode |-> Base64Chars, base64_decode |-> Bytes]

\* Every variable has its type, and what a function has written so far is made
\* of the digits or bytes it should write, with no gap below j; so is the text
\* an encoder leaves.
TypeOK ==
  /\ fn \in Functions \cup {"idle"}
  /\ i \in Nat /\ j \in Nat /\ outLen \in Nat \cup {Junk} /\ overrun \in BOOLEAN
  /\ fn # "idle" =>
       /\ in \in Seq(InChars[fn])
       /\ out \in Seq(OutChars[fn] \cup {Junk})
       /\ \A k \in 1 .. Len(out) : k <= j => out[k] \in OutChars[fn]
  /\ coded # Nothing =>
       /\ coded.fn \in {"bytes_to_hex", "base64_encode"}
       /\ coded.data \in Seq(Bytes)
       /\ coded.text \in Seq(OutChars[coded.fn])

\* No write falls outside the buffer, for any text a caller may present: not
\* the '\0' of an encoder, and not the first byte of a group in base64_decode,
\* which is stored without looking at *out_len.
InBounds == ~overrun

\* What was encoded decodes to the bytes it was made of, in both notations.
RoundTrip ==
  coded # Nothing /\ ret # Nothing /\ ret.fn \in {"hex_to_bytes", "base64_decode"} =>
    ret.value = coded.data

\* The encoders return the text of RFC 4648; the decoders return the bytes of
\* a well-formed text, every one of them written; a text with a character that
\* is no digit, or of a wrong length, is refused (sm4_c/docs/requirements/feature-7.md
\* and feature-11.md).
MatchesDefinition ==
  ret # Nothing =>
    CASE ret.fn = "bytes_to_hex"  -> Regrouped(ret.arg, ByteBits, ret.value, NibbleBits)
      [] ret.fn = "hex_to_bytes"  ->
           /\ ret.value # Failure <=> IsHexText(ret.arg)
           /\ ret.value # Failure => Regrouped(ret.arg, NibbleBits, ret.value, ByteBits)
      [] ret.fn = "base64_encode" -> IsBase64Of(ret.value, ret.arg)
      [] ret.fn = "base64_decode" ->
           /\ IsBase64Text(ret.arg) =>
                ret.value # Failure /\ Regrouped(DigitsOf(ret.arg), DigitBits, ret.value, ByteBits)
           /\ Len(ret.arg) % 4 # 0 \/ (\E k \in DOMAIN ret.arg : ret.arg[k] = Bad) =>
                ret.value = Failure

\* What sm4_c/docs/requirements/feature-11.md asks: a string that is not Base64 is
\* refused (base64_decode also takes '=' in the middle of a text).
OnlyBase64 ==
  ret # Nothing /\ ret.fn = "base64_decode" /\ ret.value # Failure => IsBase64Text(ret.arg)

=============================================================================

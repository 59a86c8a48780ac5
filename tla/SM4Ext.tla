------------------------------- MODULE SM4Ext -------------------------------
(***************************************************************************)
(* The fourteen SQL functions of sm4_c/sm4_ext.c: reading the arguments,     *)
(* calling sm4_c/sm4.c, building the result, and what every way out leaves   *)
(* in key_bytes, in iv_bytes and among the palloc'd blocks.                  *)
(*                                                                           *)
(* A function is the sequence of the steps it is written as, each step an    *)
(* action.  A session calls one function after another; ereport(ERROR) and   *)
(* the end of a query release the memory context.                            *)
(*                                                                           *)
(* The modes are ideal, as CipherBox has them: a sealed text is a sequence   *)
(* of bytes that only its parameters open, and a block mode may also take    *)
(* any whole number of blocks for the padded text of something.  A text is a *)
(* sequence of characters; hex and base64 texts are their bytes with the     *)
(* coding they are written in, Malformed where they are not well formed.     *)
(***************************************************************************)
EXTENDS Integers, Sequences, SequencesExt, FiniteSets

CONSTANTS
  KeyArgs,       (* the key arguments: [len, val], or Null *)
  IvArgs,        (* the IV arguments: [len, val], or Null *)
  AadArgs,       (* the AAD arguments: texts, or Null *)
  PlainArgs,     (* the plaintext arguments: texts, or Null *)
  StrayArgs,     (* ciphertext arguments of another origin: bytes *)
  Foreign,       (* plaintexts another program sealed, NUL bytes among them *)
  Garbage,       (* what a block mode may make of a ciphertext by accident *)
  Nul,           (* the byte 0 *)
  BlockSize, IvSize, TagSize,   (* SM4_BLOCK_SIZE, SM4_GCM_IV_SIZE, SM4_GCM_TAG_SIZE *)
  RandomIVs,     (* what RAND_bytes may return *)
  MaxSealed, MaxOpened,         (* bounds: entries in the two histories *)
  Null, NotHex, Malformed, Failure, Junk, Partial, Zeroed

ASSUME SizeAssumption ==
  /\ BlockSize \in Nat \ {0} /\ IvSize \in Nat \ {0} /\ TagSize \in Nat \ {0}
  /\ MaxSealed \in Nat /\ MaxOpened \in Nat

\* Texts and bytes are sequences, a PostgreSQL text has no NUL, and only
\* arguments that are read as hexadecimal can fail to be it.
ASSUME ArgumentAssumption ==
  /\ \A t \in (KeyArgs \cup IvArgs) \ {Null} :
       t.len \in Nat /\ (t.len \in {12, 16} => t.val # NotHex)
  /\ \A t \in PlainArgs \ {Null} : \A j \in DOMAIN t : t[j] # Nul
  /\ \A t \in (PlainArgs \ {Null}) \cup Foreign \cup StrayArgs \cup RandomIVs :
       t \in Seq(Range(t))
  /\ \A iv \in RandomIVs : Len(iv) = IvSize
  /\ Malformed # <<>>

VARIABLES
  todo,        (* the steps the function has left, <<>> between calls *)
  call,        (* its frame: fn, the arguments, aad_str and the input to work on *)
  key_bytes, iv_bytes,   (* the two stack arrays, which outlive the call *)
  heap,        (* the palloc'd blocks the function holds, by the variable's name *)
  doubleFree,  (* a block was freed that is not held *)
  outcome,     (* how the last call ended: kind, value, the step it was in, and
                  whether what it was to work on was empty *)
  sealed,      (* history: what encryptions returned *)
  opened       (* history: how decryptions of well-formed arguments ended *)

vars == <<todo, call, key_bytes, iv_bytes, heap, doubleFree, outcome, sealed, opened>>

-----------------------------------------------------------------------------
(* The functions: the steps each is written as.  sm4--1.0.sql declares the   *)
(* functions of ECB and CBC STRICT; the others test their arguments for NULL *)
(* themselves, except for the AAD.                                           *)

Function(dir, mode, coding, steps) ==
  [dir |-> dir, mode |-> mode, coding |-> coding, steps |-> steps]

sm4_encrypt == Function("encrypt", "ecb", "bytea", <<"key", "plain", "seal">>)
sm4_decrypt == Function("decrypt", "ecb", "bytea", <<"key", "cipher", "open">>)
sm4_encrypt_cbc == Function("encrypt", "cbc", "bytea", <<"key", "iv", "plain", "seal">>)
sm4_decrypt_cbc == Function("decrypt", "cbc", "bytea", <<"key", "iv", "cipher", "open">>)
sm4_encrypt_hex == Function("encrypt", "ecb", "hex", <<"key", "plain", "seal">>)
sm4_decrypt_hex == Function("decrypt", "ecb", "hex", <<"key", "hex", "open">>)
sm4_encrypt_gcm ==
  Function("encrypt", "gcm", "bytea", <<"key", "iv", "aad", "plain", "seal">>)
sm4_decrypt_gcm ==
  Function("decrypt", "gcm", "bytea", <<"key", "iv", "aad", "cipher", "length", "open">>)
sm4_encrypt_gcm_base64 ==
  Function("encrypt", "gcm", "base64", <<"key", "iv", "aad", "plain", "seal">>)
sm4_decrypt_gcm_base64 ==
  Function("decrypt", "gcm", "base64", <<"key", "iv", "aad", "base64", "length", "open">>)
sm4_encrypt_gcm_auto_iv ==
  Function("encrypt", "auto", "bytea", <<"key", "aad", "plain", "random", "seal">>)
sm4_decrypt_gcm_auto_iv ==
  Function("decrypt", "auto", "bytea", <<"key", "aad", "cipher", "split", "open">>)
sm4_encrypt_gcm_auto_iv_base64 ==
  Function("encrypt", "auto", "base64", <<"key", "aad", "plain", "random", "seal">>)
sm4_decrypt_gcm_auto_iv_base64 ==
  Function("decrypt", "auto", "base64", <<"key", "aad", "base64", "split", "open">>)

Encryptions == {sm4_encrypt, sm4_encrypt_cbc, sm4_encrypt_hex, sm4_encrypt_gcm,
                sm4_encrypt_gcm_base64, sm4_encrypt_gcm_auto_iv,
                sm4_encrypt_gcm_auto_iv_base64}
Decryptions == {sm4_decrypt, sm4_decrypt_cbc, sm4_decrypt_hex, sm4_decrypt_gcm,
                sm4_decrypt_gcm_base64, sm4_decrypt_gcm_auto_iv,
                sm4_decrypt_gcm_auto_iv_base64}

TakesIv(f)  == f.mode \in {"cbc", "gcm"}
TakesAad(f) == f.mode \in {"gcm", "auto"}

-----------------------------------------------------------------------------
(* The modes of sm4.c, ideal *)

\* n bytes of which the last stands for all that was sealed.
Bytes(mode, p, pt, n) == [j \in 1 .. n |-> IF j < n THEN <<j>> ELSE <<mode, p, pt>>]

SealedBytes(mode, p, pt) ==
  IF mode \in {"ecb", "cbc"}
  THEN Bytes(mode, p, pt, Len(pt) + BlockSize - (Len(pt) % BlockSize))
  ELSE Bytes("gcm", p, pt, Len(pt) + TagSize)

Plaintexts == (PlainArgs \ {Null}) \cup Foreign

\* What the library may answer to a decryption.
Answers(mode, p, bytes) ==
  LET of == {pt \in Plaintexts : SealedBytes(mode, p, pt) = bytes}
  IN  IF of # {} THEN of
      ELSE IF mode \in {"ecb", "cbc"} /\ Len(bytes) % BlockSize = 0 /\ bytes # <<>>
      THEN {Failure} \cup Garbage
      ELSE {Failure}

\* cstring_to_text on a buffer of these bytes with a '\0' after them
CString(bytes) ==
  IF \E j \in DOMAIN bytes : bytes[j] = Nul
  THEN SubSeq(bytes, 1, SelectInSeq(bytes, LAMBDA b : b = Nul) - 1)
  ELSE bytes

-----------------------------------------------------------------------------
(* Reading the arguments *)

HexText(t) == IF t.val = NotHex THEN Failure ELSE t.val

(* get_key_bytes, and the same code for the IV of CBC *)
GetKeyBytes(t) ==
  CASE t.len = 16 -> t.val
    [] t.len = 32 -> HexText(t)
    [] OTHER      -> Failure

\* mutant: 32 characters are taken as they are
GetGcmIvRaw(t) == IF t.len \in {12, 16, 32} THEN t.val ELSE Failure

(* the IV of GCM: recommended 12 bytes, or 16 *)
GetGcmIv(t) ==
  CASE t.len \in {12, 16} -> t.val
    [] t.len \in {24, 32} -> HexText(t)
    [] OTHER              -> Failure

\* What is left in a buffer when the characters stop being hexadecimal.
AfterFailure(t, old) == IF t.val = NotHex THEN Partial ELSE old

AadBytes(t) == IF t = Null THEN <<>> ELSE t

-----------------------------------------------------------------------------
(* Going on and leaving *)

Fn == call.fn
At(step) == todo # <<>> /\ Head(todo) = step
Logs == <<sealed, opened>>

\* The blocks in `new' are allocated, then those in S freed.
Free(new, S) ==
  /\ heap' = (heap \cup new) \ S
  /\ doubleFree' = (doubleFree \/ ~ S \subseteq heap \cup new)

Keep == UNCHANGED <<heap, doubleFree>>

\* The next step, with these bytes for the local variables.
Go(aad_str, input) ==
  /\ todo' = Tail(todo)
  /\ call' = [call EXCEPT !.aad_str = aad_str, !.input = input]
  /\ UNCHANGED <<outcome, Logs>>

AadBlock == heap \cap {"aad_str"}         \* if (aad_str) ... pfree(aad_str)

Empty == call.data = <<>> \/ (Fn.dir = "decrypt" /\ call.data.bytes = <<>>)

\* The step allocates the blocks `new' and the function ends, by PG_RETURN or
\* ereport, having freed those in S.
Leave(kind, value, new, S) ==
  /\ todo' = <<>>
  /\ call' = Null
  /\ outcome' = [kind |-> kind, value |-> value, at |-> Head(todo), empty |-> Empty]
  /\ Free(new, S)

WipeKey  == key_bytes' = Zeroed /\ UNCHANGED iv_bytes
WipeBoth == key_bytes' = Zeroed /\ iv_bytes' = IF Fn.mode = "ecb" THEN iv_bytes ELSE Zeroed

WipeArgsKeyOnly == WipeKey                \* mutant: iv_bytes is forgotten

\* Functions that were given an IV wipe it with the key; auto_iv has none yet.
WipeArgs == IF Fn.mode = "auto" THEN WipeKey ELSE WipeBoth

\* What the arguments of the call mean, and how its decryption ended.
Meaning ==
  [key |-> GetKeyBytes(call.key),
   iv  |-> IF TakesIv(Fn) THEN call.iv.val ELSE Null,
   aad |-> IF TakesAad(Fn) THEN AadBytes(call.aad) ELSE Null]

Opened(result) ==
  /\ opened' = opened \cup {[mode |-> Fn.mode, coding |-> Fn.coding, param |-> Meaning,
                             bytes |-> call.data.bytes, text |-> result]}
  /\ UNCHANGED sealed

-----------------------------------------------------------------------------
(* The steps *)

Invoke(f, key, iv, aad, data) ==
  /\ key_bytes' = Junk /\ iv_bytes' = Junk
  /\ heap' = {}
  /\ IF key = Null \/ data = Null \/ (TakesIv(f) /\ iv = Null)
     THEN /\ todo' = <<>> /\ call' = Null
          /\ outcome' = [kind |-> "null", value |-> Null, at |-> "arguments", empty |-> FALSE]
     ELSE /\ todo' = f.steps
          /\ call' = [fn |-> f, key |-> key, iv |-> iv, aad |-> aad, data |-> data,
                      aad_str |-> <<>>, input |-> <<>>]
          /\ outcome' = [kind |-> "running"]
  /\ UNCHANGED <<doubleFree, Logs>>

\* get_key_bytes frees key_str itself, whatever it returns.
FetchKey ==
  /\ At("key")
  /\ LET k == GetKeyBytes(call.key)
     IN  IF k = Failure
         THEN /\ key_bytes' = AfterFailure(call.key, key_bytes)
              /\ Leave("error", Null, {"key_str"}, {"key_str"}) /\ UNCHANGED Logs
         ELSE /\ key_bytes' = k
              /\ Free({"key_str"}, {"key_str"}) /\ Go(<<>>, <<>>)
  /\ UNCHANGED iv_bytes

GetIv(t) == IF Fn.mode = "cbc" THEN GetKeyBytes(t) ELSE GetGcmIv(t)

\* iv_str is freed on the three ways out and on the way on; no path of this step
\* touches key_bytes.
FetchIv ==
  /\ At("iv")
  /\ LET v == GetIv(call.iv)
     IN  IF v = Failure
         THEN /\ iv_bytes' = AfterFailure(call.iv, iv_bytes)
              /\ Leave("error", Null, {"iv_str"}, {"iv_str"}) /\ UNCHANGED Logs
         ELSE /\ iv_bytes' = v
              /\ Free({"iv_str"}, {"iv_str"}) /\ Go(<<>>, <<>>)
  /\ UNCHANGED key_bytes

FetchAad ==
  /\ At("aad")
  /\ Free(IF call.aad = Null THEN {} ELSE {"aad_str"}, {})
  /\ Go(AadBytes(call.aad), <<>>) /\ UNCHANGED <<key_bytes, iv_bytes>>

FetchPlainKeepsAad ==       \* mutant: the way out for '' leaves aad_str
  /\ At("plain")
  /\ IF Empty
     THEN WipeArgs /\ Leave("null", Null, {"plain_str"}, {"plain_str"}) /\ UNCHANGED Logs
     ELSE /\ Free({"plain_str"}, {})
          /\ Go(call.aad_str, call.data) /\ UNCHANGED <<key_bytes, iv_bytes>>

FetchPlainNoEmptyCheck ==   \* mutant: '' is encrypted like any other text
  /\ At("plain")
  /\ Free({"plain_str"}, {})
  /\ Go(call.aad_str, call.data) /\ UNCHANGED <<key_bytes, iv_bytes>>

\* The plaintext is copied into plain_str; '' gives NULL.
FetchPlain ==
  /\ At("plain")
  /\ IF Empty
     THEN /\ WipeArgs
          /\ Leave("null", Null, {"plain_str"}, {"plain_str"} \cup AadBlock)
          /\ UNCHANGED Logs
     ELSE /\ Free({"plain_str"}, {})
          /\ Go(call.aad_str, call.data) /\ UNCHANGED <<key_bytes, iv_bytes>>

\* A bytea is used where it is.
FetchCipher ==
  /\ At("cipher")
  /\ IF Empty
     THEN WipeArgs /\ Leave("null", Null, {}, AadBlock) /\ UNCHANGED Logs
     ELSE Go(call.aad_str, call.data.bytes) /\ Keep /\ UNCHANGED <<key_bytes, iv_bytes>>

HexBlocks == {"hex_str", "cipher"}

\* hex_str is copied before the check for '', cipher is allocated before the
\* digits are looked at.
FetchHex ==
  /\ At("hex")
  /\ \/ /\ Empty
        /\ WipeKey /\ Leave("null", Null, {"hex_str"}, {"hex_str"}) /\ UNCHANGED Logs
     \/ /\ call.data.bytes = Malformed
        /\ WipeKey /\ Leave("error", Null, HexBlocks, HexBlocks) /\ UNCHANGED Logs
     \/ /\ call.data.bytes \notin {<<>>, Malformed}
        /\ Free(HexBlocks, {})
        /\ Go(<<>>, call.data.bytes) /\ UNCHANGED <<key_bytes, iv_bytes>>

Base64Blocks == {"cipher_base64_str", "data"}

\* base64_decode allocates what it returns, and frees it when it meets a bad
\* character; the copy of the text is freed before its answer is looked at.
FetchBase64 ==
  /\ At("base64")
  /\ \/ /\ Empty
        /\ WipeArgs /\ Leave("null", Null, {}, AadBlock) /\ UNCHANGED Logs
     \/ /\ call.data.bytes = Malformed
        /\ WipeArgs /\ Leave("error", Null, Base64Blocks, Base64Blocks \cup AadBlock)
        /\ UNCHANGED Logs
     \/ /\ call.data.bytes \notin {<<>>, Malformed}
        /\ Free(Base64Blocks, {"cipher_base64_str"})
        /\ Go(call.aad_str, call.data.bytes) /\ UNCHANGED <<key_bytes, iv_bytes>>

DataBlock == IF Fn.coding = "base64" THEN {"data"} ELSE {}

CheckLength ==
  /\ At("length")
  /\ IF Len(call.input) < TagSize
     THEN WipeBoth /\ Leave("error", Null, {}, AadBlock \cup DataBlock) /\ Opened(Failure)
     ELSE Go(call.aad_str, call.input) /\ Keep /\ UNCHANGED <<key_bytes, iv_bytes>>

TooShortTag == Len(call.input) < TagSize   \* mutant: the length of the IV is left out

TooShort == Len(call.input) < IvSize + TagSize

\* The IV is the head of what came in.
SplitIv ==
  /\ At("split")
  /\ IF TooShort
     THEN WipeKey /\ Leave("error", Null, {}, AadBlock \cup DataBlock) /\ Opened(Failure)
     ELSE /\ iv_bytes' = SubSeq(call.input, 1, IvSize)
          /\ Go(call.aad_str, SubSeq(call.input, IvSize + 1, Len(call.input)))
          /\ Keep /\ UNCHANGED key_bytes

RandomIv ==
  /\ At("random")
  /\ \/ \E iv \in RandomIVs :
          /\ iv_bytes' = iv
          /\ Go(call.aad_str, call.input) /\ Keep /\ UNCHANGED key_bytes
     \/ /\ WipeKey                          \* RAND_bytes fails
        /\ Leave("error", Null, {}, {"plain_str"} \cup AadBlock) /\ UNCHANGED Logs

ParamNoAad ==               \* mutant: the AAD does not reach the library
  [key |-> key_bytes, iv |-> IF Fn.mode = "ecb" THEN Null ELSE iv_bytes,
   aad |-> IF TakesAad(Fn) THEN <<>> ELSE Null]

\* What the function passes to the library.
Param ==
  [key |-> key_bytes, iv |-> IF Fn.mode = "ecb" THEN Null ELSE iv_bytes,
   aad |-> IF TakesAad(Fn) THEN call.aad_str ELSE Null]

ResultBlocks ==
  CASE Fn.coding = "hex"    -> {"hex_str"}
    [] Fn.coding = "base64" -> {"cipher_with_tag", "base64_result"}
    [] OTHER                -> {}

BuiltNoIv(body) == body     \* mutant: the random IV is not put before the rest

\* The bytes of the result.
Built(body) == IF Fn.mode = "auto" THEN iv_bytes \o body ELSE body

Seal ==
  /\ At("seal")
  /\ WipeBoth
  /\ LET bytes == Built(SealedBytes(Fn.mode, Param, call.input))
         held  == {"plain_str", "cipher"} \cup AadBlock
     IN  \/ /\ Leave("value", [coding |-> Fn.coding, bytes |-> bytes],
                    {"cipher"} \cup ResultBlocks, held \cup ResultBlocks)
            /\ sealed' = sealed \cup
                 {[mode |-> Fn.mode, coding |-> Fn.coding, param |-> Meaning,
                   bytes |-> bytes, text |-> call.data]}
            /\ UNCHANGED opened
         \/ /\ Leave("error", Null, {"cipher"}, held)   \* the library's malloc fails
            /\ UNCHANGED Logs

Open ==
  /\ At("open")
  /\ WipeBoth
  /\ LET held == {"plain"} \cup AadBlock \cup DataBlock
                 \cup IF Fn.coding = "hex" THEN HexBlocks ELSE {}
     IN  \/ \E pt \in Answers(Fn.mode, Param, call.input) :
              LET text == IF pt = Failure THEN Failure ELSE CString(pt)
              IN  /\ IF pt = Failure THEN Leave("error", Null, {"plain"}, held)
                                     ELSE Leave("value", text, {"plain"}, held)
                  /\ Opened(text)
         \/ /\ TakesAad(Fn)                  \* the library's malloc fails
            /\ Leave("error", Null, {"plain"}, held) /\ UNCHANGED Logs

-----------------------------------------------------------------------------
Init ==
  /\ todo = <<>>
  /\ call = Null
  /\ key_bytes = Junk /\ iv_bytes = Junk
  /\ heap = {}
  /\ doubleFree = FALSE
  /\ outcome = [kind |-> "running"]
  /\ sealed = {} /\ opened = {}

\* Ciphertext arguments for f: what encryptions returned, whole or cut, and
\* others, in the coding f reads.
Coded(f) ==
  {[coding |-> f.coding, bytes |-> b] :
     b \in StrayArgs \cup UNION {{e.bytes, Front(e.bytes)} : e \in sealed}}
  \cup IF f.coding = "bytea" THEN {} ELSE {[coding |-> f.coding, bytes |-> Malformed]}

AadsOf(f) == IF TakesAad(f) THEN AadArgs ELSE {Null}
IvsOf(f)  == IF TakesIv(f) THEN IvArgs ELSE {Null}

\* The session ends once the histories are full.
Room == todo = <<>> /\ Cardinality(opened) < MaxOpened

Next ==
  \/ /\ Room /\ Cardinality(sealed) < MaxSealed
     /\ \E f \in Encryptions, key \in KeyArgs, data \in PlainArgs :
          \E iv \in IvsOf(f), aad \in AadsOf(f) : Invoke(f, key, iv, aad, data)
  \/ /\ Room
     /\ \E f \in Decryptions, key \in KeyArgs :
          \E iv \in IvsOf(f), aad \in AadsOf(f), data \in Coded(f) \cup {Null} :
            Invoke(f, key, iv, aad, data)
  \/ FetchKey
  \/ FetchIv
  \/ FetchAad
  \/ FetchPlain
  \/ FetchCipher
  \/ FetchHex
  \/ FetchBase64
  \/ CheckLength
  \/ SplitIv
  \/ RandomIv
  \/ Seal
  \/ Open

Spec == Init /\ [][Next]_vars

-----------------------------------------------------------------------------
(* Properties *)

Done == todo = <<>> /\ outcome.kind # "running"

Accepted(args, lens) == {t.val : t \in {u \in args \ {Null} : u.len \in lens}} \ {NotHex}

Keys == Accepted(KeyArgs, {16, 32})

\* What came in starts with an IV, as far as the splitting functions know.
Heads ==
  {SubSeq(c, 1, IvSize) :
     c \in {d \in StrayArgs \cup UNION {{e.bytes, Front(e.bytes)} : e \in sealed} :
             Len(d) >= IvSize}}

Ivs == Accepted(IvArgs, {12, 16, 24, 32}) \cup RandomIVs \cup Heads

\* Every variable has its type; after the step that reads it a key or an IV is
\* one an argument stands for, never characters that were not decoded.
TypeOK ==
  /\ key_bytes \in Keys \cup {Junk, Partial, Zeroed}
  /\ todo # <<>> => Head(todo) = "key" \/ key_bytes \in Keys
  /\ iv_bytes \in Ivs \cup {Junk, Partial, Zeroed}
  /\ heap \subseteq {"plain_str", "aad_str", "hex_str", "cipher", "data", "plain",
                    "cipher_with_tag", "base64_result", "key_str", "iv_str",
                    "cipher_base64_str"}
  /\ doubleFree \in BOOLEAN
  /\ outcome.kind \in {"running", "null", "value", "error"}

\* Each of the fourteen functions frees, on every way out, each block it
\* allocated, and frees it once.
HeapBalanced == ~doubleFree /\ (Done => heap = {})

\* Once the arguments were read, every way out wipes the key and the IV: '' and
\* empty ciphertexts, bad encodings, short ciphertexts, a failing RAND_bytes, and
\* the library's failures included (sm4_c/docs/requirements/feature-4.md).
SecretsWiped ==
  Done /\ outcome.at \notin {"arguments", "key", "iv"} =>
    key_bytes = Zeroed /\ iv_bytes \in {Zeroed, Junk}

\* Where the library is called to open GCM data, cipher_len has not wrapped below
\* zero and the IV has its twelve bytes.
LengthsFit ==
  todo # <<>> /\ Head(todo) = "open" /\ TakesAad(Fn) =>
    /\ Len(call.input) >= TagSize
    /\ Fn.mode = "auto" => Len(iv_bytes) = IvSize

\* What an encrypting function returned, the decrypting function of its mode
\* turns back into the plaintext in whichever coding it gets it, for arguments
\* that mean the same: a key or an IV as characters or as hexadecimal digits, an
\* AAD that is NULL or ''.
RoundTrip ==
  \A e \in sealed, d \in opened :
    e.mode = d.mode /\ e.param = d.param /\ e.bytes = d.bytes => d.text = e.text

\* A GCM function returns a text only for bytes that were sealed under the key, IV
\* and AAD its arguments mean.
Authentic ==
  \A d \in opened :
    d.mode \in {"gcm", "auto"} /\ d.text # Failure =>
      \E pt \in Plaintexts :
        /\ d.text = CString(pt)
        /\ \/ d.mode = "gcm" /\ d.bytes = SealedBytes("gcm", d.param, pt)
           \/ /\ d.mode = "auto"
              /\ LET iv == SubSeq(d.bytes, 1, IvSize)
                 IN  d.bytes = iv \o SealedBytes("gcm", [d.param EXCEPT !.iv = iv], pt)

\* sm4_c/docs/requirements/feature-4.md:12 and :42: when a function has returned, no
\* usable key is left in key_bytes.
KeyWiped == Done => key_bytes \notin Keys

\* In every function whose key and IV are right an empty text, hex string or
\* ciphertext gives NULL, neither an error nor a ciphertext of nothing, and NULL comes
\* of nothing else but of an argument that is NULL itself
\* (sm4_c/docs/requirements/feature-1.md).
EmptyGivesNull ==
  Done /\ outcome.at \notin {"key", "iv"} =>
    (outcome.kind = "null" <=> outcome.empty \/ outcome.at = "arguments")

=============================================================================

------------------------------- MODULE SM2Ext -------------------------------
(***************************************************************************)
(* The twelve SQL functions of sm2_c/sm2_ext_openssl.c: reading the keys,    *)
(* the message and the ciphertext, calling sm2_openssl.c, building the       *)
(* result, and what every way out leaves among the palloc'd blocks and in    *)
(* the sm2_context of the frame (whose OpenSSL objects no memory context     *)
(* would release).                                                           *)
(*                                                                           *)
(* A function is the sequence of the steps it is written as, each step an    *)
(* action; a session calls one function after another.  The library is       *)
(* ideal, and each of its functions may fail and then leaves nothing behind  *)
(* (SM2Context): a ciphertext is a sequence of bytes only the private key    *)
(* opens, a signature one only the public key and the message verify.  A     *)
(* private key is a number, a public key what Pub makes of it; a text is a   *)
(* sequence of characters, an encoded text the bytes its decoder makes of it *)
(* (any, for characters the decoder does not check), Malformed where its     *)
(* length is wrong.                                                          *)
(***************************************************************************)
EXTENDS Integers, Sequences, SequencesExt, FiniteSets

CONSTANTS
  PrivateArgs,   (* private key arguments: [len, val], or Null *)
  PublicArgs,    (* public key arguments: [len, head, val], or Null *)
  PlainArgs,     (* plaintexts and messages, or Null *)
  IdArgs,        (* user IDs, or Null *)
  StrayArgs,     (* ciphertexts and signatures of another origin: bytes *)
  Foreign,       (* plaintexts another program sealed, NUL bytes among them *)
  Generated,     (* the private keys OpenSSL may draw *)
  Pub(_),        (* scalar multiplication of the base point *)
  Zero,          (* 32 zero bytes *)
  Infinity,      (* the point at infinity *)
  Off,           (* bytes that are no point of the curve *)
  NotHex,        (* characters of which none is a hexadecimal digit *)
  Nul,           (* the byte 0 *)
  Offered,       (* the room for a plaintext, 256 *)
  Slack,         (* the room for a ciphertext beyond its plaintext, 200 *)
  SigRoom,       (* signature[128] *)
  SigLeast,      (* the shortest signature that is looked at, 64 *)
  Overhead,      (* what OpenSSL's DER takes beyond the plaintext *)
  SigSizes,      (* the sizes of a DER signature, about 70 to 72 *)
  ShortMax,      (* the longest bytea a table stores with a header of one byte *)
  MaxLog,        (* bound: results made, and results used *)
  Null, Malformed, Failure, Junk, Unread

ASSUME SizeAssumption ==
  /\ {Offered, Slack, SigRoom, SigLeast, Overhead, ShortMax, MaxLog} \subseteq Nat
  /\ Overhead <= Slack
  /\ SigSizes \subseteq SigLeast .. SigRoom /\ SigLeast > 0

ASSUME ArgumentAssumption ==
  /\ Pub(Zero) = Infinity
  /\ \A t \in (PrivateArgs \cup PublicArgs) \ {Null} : t.len \in Nat
  /\ \A t \in PlainArgs \ {Null} : \A j \in DOMAIN t : t[j] # Nul

VARIABLES
  todo,        (* the steps the function has left, <<>> between calls *)
  call,        (* its frame: fn, the arguments and the input to work on *)
  priv_key, pub_key,   (* the stack arrays *)
  ctx,         (* the key in the sm2_context of the frame, or Null *)
  heap,        (* the palloc'd blocks the function holds, by the variable's name *)
  misused,     (* history: a block not held was freed, an array was overrun *)
  outcome,     (* how the last call ended *)
  log          (* history: what encryptions and signatures returned, and how
                  decryptions and verifications ended *)

vars == <<todo, call, priv_key, pub_key, ctx, heap, misused, outcome, log>>

-----------------------------------------------------------------------------
(* The functions: the steps each is written as.  sm2--1.0.sql declares all   *)
(* but the four that sign and verify STRICT.                                 *)

Function(kind, coding, steps) == [kind |-> kind, coding |-> coding, steps |-> steps]

sm2_generate_key ==
  Function("generate", "hex", <<"generate", "read_private", "read_public", "answer">>)
sm2_get_pubkey ==
  Function("pubkey", "hex", <<"private", "load", "derive", "read_public", "answer">>)
sm2_encrypt_hex    == Function("encrypt", "hex", <<"public", "plain", "seal">>)
sm2_decrypt_hex    == Function("decrypt", "hex", <<"private", "hex", "open">>)
sm2_encrypt_base64 == Function("encrypt", "base64", <<"public", "plain", "seal">>)
sm2_decrypt_base64 == Function("decrypt", "base64", <<"private", "base64", "open">>)
sm2_encrypt_func   == Function("encrypt", "bytea", <<"public", "plain", "seal">>)
sm2_decrypt_func   == Function("decrypt", "bytea", <<"private", "bytea", "open">>)
sm2_sign_func      == Function("sign", "bytea", <<"private", "message", "id", "sign">>)
sm2_verify_func ==
  Function("verify", "bytea", <<"public", "bytea", "length", "message", "id", "verify">>)
sm2_sign_hex       == Function("sign", "hex", <<"private", "message", "id", "sign">>)
sm2_verify_hex ==
  Function("verify", "hex", <<"public", "sig_hex", "length", "message", "id", "verify">>)

Encryptions == {sm2_encrypt_hex, sm2_encrypt_base64, sm2_encrypt_func}
Decryptions == {sm2_decrypt_hex, sm2_decrypt_base64, sm2_decrypt_func}
Signers     == {sm2_sign_func, sm2_sign_hex}
Verifiers   == {sm2_verify_func, sm2_verify_hex}

Strict(f) == f.kind \notin {"sign", "verify"}

-----------------------------------------------------------------------------
(* The library, ideal *)

\* n bytes of which the last stands for all the others say.
Bytes(n, what) == [j \in 1 .. n |-> IF j < n THEN <<"byte", j>> ELSE what]

SealedBytes(point, pt) == Bytes(Len(pt) + Overhead, <<"sealed", point, pt>>)

SignatureBytes(d, message, n) == Bytes(n, <<"signature", d, message>>)

Plaintexts == (PlainArgs \ {Null}) \cup Foreign

\* What sm2_decrypt may answer; what follows the DER sequence is not looked at.
Answers(d, bytes, room) ==
  LET of == {pt \in Plaintexts : /\ IsPrefix(SealedBytes(Pub(d), pt), bytes)
                                 /\ pt # <<>> /\ Pub(d) # Infinity
                                 /\ Len(pt) <= room}
  IN  IF of # {} THEN of ELSE {Failure}

CString(bytes) ==
  IF \E j \in DOMAIN bytes : bytes[j] = Nul
  THEN SubSeq(bytes, 1, SelectInSeq(bytes, LAMBDA b : b = Nul) - 1)
  ELSE bytes

-----------------------------------------------------------------------------
(* Reading the keys *)

\* strtol, unchecked: no digits are zero.
HexBytes(t) == IF t.val = NotHex THEN Zero ELSE t.val

GetPrivateKeyUnchecked(t) ==     \* mutant: another length is not refused
  CASE t.len = 32 -> t.val
    [] t.len = 64 -> HexBytes(t)
    [] OTHER      -> Junk

(* get_private_key_bytes *)
GetPrivateKey(t) ==
  CASE t.len = 32 -> t.val
    [] t.len = 64 -> HexBytes(t)
    [] OTHER      -> Failure

(* get_public_key_bytes: 64 zero bytes are no point *)
GetPublicKey(t) ==
  CASE t.len = 64                      -> t.val
    [] t.len = 128                     -> IF t.val = NotHex THEN Off ELSE t.val
    [] t.len = 130 /\ t.head = "04"    -> IF t.val = NotHex THEN Off ELSE t.val
    [] OTHER                           -> Failure

Private == ({GetPrivateKey(t) : t \in PrivateArgs \ {Null}} \ {Failure}) \cup Generated

Public == {GetPublicKey(t) : t \in PublicArgs \ {Null}} \ {Failure}

\* sm2_verify wants the signature and nothing after it.
Verifies(point, message, bytes) ==
  \E d \in Private, n \in SigSizes :
    Pub(d) = point /\ bytes = SignatureBytes(d, message, n)

\* Values that stand for something else are no keys, texts or bytes of these: no
\* encoding of a point is infinity, and nobody else makes a signature that a key
\* here could have made.
ASSUME ValueAssumption ==
  /\ Junk \notin Generated \cup {Zero} \cup {t.val : t \in PrivateArgs \ {Null}}
  /\ Infinity \notin Public /\ Failure \notin PlainArgs
  /\ \A t \in Plaintexts : t \in Seq(Range(t))
  /\ \A d \in Private, t \in Plaintexts :
       Unread \notin {<<"sealed", Pub(d), t>>, <<"signature", d, t>>}
  /\ \A d \in Private, t \in PlainArgs \ {Null}, n \in SigSizes :
       SignatureBytes(d, t, n) \notin StrayArgs \cup {Malformed}

-----------------------------------------------------------------------------
(* Going on and leaving *)

Fn == call.fn
At(step) == todo # <<>> /\ Head(todo) = step

\* The next step, the function holding these blocks besides, with this input.
Go(new, input) ==
  /\ todo' = Tail(todo)
  /\ call' = [call EXCEPT !.input = input]
  /\ heap' = heap \cup new
  /\ UNCHANGED <<outcome, log>>

\* The function ends, by PG_RETURN or ereport: it allocated the blocks `new' in
\* this step and freed those in S.
Leave(kind, value, new, S) ==
  /\ todo' = <<>> /\ call' = Null
  /\ outcome' = [kind |-> kind, value |-> value, fn |-> Fn.kind]
  /\ heap' = (heap \cup new) \ S

Freed(new, S, overrun) ==
  misused' = (misused \/ overrun \/ ~ S \subseteq heap \cup new)

Keys == <<priv_key, pub_key>>

\* ereport in a step that touched nothing else
Refuse == Leave("error", Null, {}, {}) /\ UNCHANGED <<misused, log>>

-----------------------------------------------------------------------------
(* The steps *)

LacksArg(f, key, data, sig) ==
  \/ f.kind # "generate" /\ key = Null
  \/ f.kind \notin {"generate", "pubkey"} /\ data = Null
  \/ f.kind = "verify" /\ sig = Null

\* An argument that is NULL gives NULL where the function is STRICT; the others
\* take a null pointer for a text.
Invoke(f, key, data, sig, id) ==
  /\ priv_key' = Junk /\ pub_key' = Junk /\ ctx' = Null
  /\ heap' = {}
  /\ IF LacksArg(f, key, data, sig)
     THEN /\ todo' = <<>> /\ call' = Null
          /\ outcome' = [kind |-> IF Strict(f) THEN "null" ELSE "crash", value |-> Null]
     ELSE /\ todo' = f.steps
          /\ call' = [fn |-> f, key |-> key, data |-> data, sig |-> sig, id |-> id,
                      input |-> <<>>]
          /\ outcome' = [kind |-> "running"]
  /\ UNCHANGED <<misused, log>>

KeyText == {"key_str"}

\* get_private_key_bytes copies the argument and frees the copy on each way out.
ReadPrivateArg ==
  /\ At("private")
  /\ LET d == GetPrivateKey(call.key)
     IN  IF d = Failure THEN Leave("error", Null, KeyText, KeyText) /\ UNCHANGED <<log, Keys>>
         ELSE priv_key' = d /\ Go({}, <<>>) /\ UNCHANGED pub_key
  /\ Freed(KeyText, KeyText, FALSE)
  /\ UNCHANGED ctx

ReadPublicArg ==
  /\ At("public")
  /\ LET q == GetPublicKey(call.key)
     IN  IF q = Failure THEN Leave("error", Null, KeyText, KeyText) /\ UNCHANGED <<log, Keys>>
         ELSE pub_key' = q /\ Go({}, <<>>) /\ UNCHANGED priv_key
  /\ Freed(KeyText, KeyText, FALSE)
  /\ UNCHANGED ctx

\* sm2_init and sm2_generate_keypair; sm2_free before ereport
GenerateKeypair ==
  /\ At("generate")
  /\ \/ \E d \in Generated :
          /\ ctx' = [priv |-> d, pub |-> Pub(d)]
          /\ Go({"ctx"}, <<>>) /\ UNCHANGED misused
     \/ Refuse /\ UNCHANGED ctx
  /\ UNCHANGED Keys

\* sm2_init and sm2_set_private_key, which computes the public key as well
Load ==
  /\ At("load")
  /\ \/ /\ ctx' = [priv |-> priv_key, pub |-> Pub(priv_key)]
        /\ Go({"ctx"}, <<>>) /\ UNCHANGED misused
     \/ Refuse /\ UNCHANGED ctx
  /\ UNCHANGED Keys

\* sm2_derive_public_key, whose result is not looked at: where it fails the
\* context has the point it had, or none.
Derive ==
  /\ At("derive")
  /\ ctx' \in {ctx, [ctx EXCEPT !.pub = Null]}
  /\ Go({}, <<>>) /\ UNCHANGED <<misused, Keys>>

\* sm2_get_private_key, whose result is not looked at: where it fails the array
\* stays as it was.
ReadPrivate ==
  /\ At("read_private")
  /\ priv_key' \in {ctx.priv, priv_key}
  /\ Go({}, <<>>) /\ UNCHANGED <<misused, ctx, pub_key>>

\* sm2_get_public_key, whose result is not looked at either: the array stays as
\* it was where there are no coordinates to write.
ReadPublic ==
  /\ At("read_public")
  /\ \/ ctx.pub \notin {Null, Infinity} /\ pub_key' = ctx.pub
     \/ UNCHANGED pub_key
  /\ Go({}, <<>>) /\ UNCHANGED <<misused, ctx, priv_key>>

Elements == {"result[0]", "result[1]"}

\* The texts are built from the arrays and the context goes.  construct_array
\* copies the two elements of the result, and nothing frees them.
Answer ==
  /\ At("answer")
  /\ LET hex == IF Fn.kind = "generate" THEN {"priv_hex", "pub_hex"} ELSE {"pub_hex"}
         new == hex \cup IF Fn.kind = "generate" THEN Elements ELSE {}
     IN  /\ Leave("value", [priv |-> priv_key, pub |-> pub_key], new, hex \cup {"ctx"})
         /\ Freed(new, hex \cup {"ctx"}, FALSE)
  /\ ctx' = Null
  /\ UNCHANGED <<log, Keys>>

FetchPlain ==
  /\ At("plain")
  /\ Go({"plain_str"}, call.data) /\ UNCHANGED <<misused, ctx, Keys>>

\* cipher is allocated before the digits are looked at.
FetchHex ==
  /\ At("hex")
  /\ LET S == {"cipher_str", "cipher"}
     IN  IF call.data.bytes = Malformed
         THEN Leave("error", Null, S, S) /\ Freed(S, S, FALSE) /\ UNCHANGED log
         ELSE Go(S, call.data.bytes) /\ UNCHANGED misused
  /\ UNCHANGED <<ctx, Keys>>

\* base64_decode_ext gives NULL for a wrong length.
FetchBase64 ==
  /\ At("base64")
  /\ LET S == {"cipher_str"}
     IN  IF call.data.bytes = Malformed
         THEN Leave("error", Null, S, S) /\ Freed(S, S, FALSE) /\ UNCHANGED log
         ELSE Go(S \cup {"cipher"}, call.data.bytes) /\ UNCHANGED misused
  /\ UNCHANGED <<ctx, Keys>>

\* What VARSIZE and VARDATA make of a datum with a header of one byte: three
\* bytes of it are lost, and they and the header are the length.
Misread == {Bytes(n, Unread) : n \in {SigLeast, SigRoom + 1}}

Datum == IF Fn.kind = "verify" THEN call.sig ELSE call.data

FetchBytea ==
  /\ At("bytea")
  /\ \E bytes \in IF Datum.short THEN Misread ELSE {Datum.bytes} :
       Go({}, bytes) /\ UNCHANGED misused
  /\ UNCHANGED <<ctx, Keys>>

FetchSigHex ==
  /\ At("sig_hex")
  /\ Go({"sig_hex_str"}, call.sig.bytes) /\ UNCHANGED <<misused, ctx, Keys>>

LengthIs64(bytes) == bytes # Malformed /\ Len(bytes) = SigLeast \* mutant: as for r || s

LengthFits(bytes) == bytes # Malformed /\ Len(bytes) \in SigLeast .. SigRoom

Verified(verdict) ==
  log' = [log EXCEPT !.verified = @ \cup
            {[pub |-> GetPublicKey(call.key), message |-> call.data, id |-> call.id,
              bytes |-> call.sig.bytes, short |-> call.sig.short, verdict |-> verdict]}]

\* After it the digits go into signature[128].
CheckLength ==
  /\ At("length")
  /\ IF LengthFits(call.input)
     THEN /\ Go({}, call.input)
          /\ Freed({}, {}, Fn.coding = "hex" /\ Len(call.input) > SigRoom)
     ELSE LET S == IF Fn.coding = "hex" THEN {"sig_hex_str"} ELSE {}
          IN  Leave("error", Null, {}, S) /\ Freed({}, S, FALSE) /\ Verified("error")
  /\ UNCHANGED <<ctx, Keys>>

FetchMessage ==
  /\ At("message")
  /\ Go({"msg_str"}, call.input) /\ UNCHANGED <<misused, ctx, Keys>>

\* The ID is copied and never used.
FetchId ==
  /\ At("id")
  /\ Go(IF call.id = Null THEN {} ELSE {"id_str"}, call.input)
  /\ UNCHANGED <<misused, ctx, Keys>>

-----------------------------------------------------------------------------
(* The last steps *)

ResultBlocks ==
  CASE Fn.coding = "hex"    -> {"hex_str"}
    [] Fn.coding = "base64" -> {"b64_str"}
    [] OTHER                -> {}

SealTo(bytes) ==
  LET new  == {"cipher"} \cup ResultBlocks
      held == {"plain_str"} \cup new
  IN  /\ Leave("value", [coding |-> Fn.coding, bytes |-> bytes], new, held)
      /\ Freed(new, held, Len(bytes) > Len(call.input) + Slack)
      /\ log' = [log EXCEPT !.sealed = @ \cup
                   {[pub |-> pub_key, bytes |-> bytes, text |-> call.data]}]

\* sm2_encrypt refuses bytes that are no point and an empty plaintext.
Seal ==
  /\ At("seal")
  /\ \/ /\ pub_key # Off /\ call.input # <<>>
        /\ SealTo(SealedBytes(pub_key, call.input))
     \/ /\ Leave("error", Null, {"cipher"}, {"plain_str", "cipher"})
        /\ Freed({"cipher"}, {"plain_str", "cipher"}, FALSE)
        /\ UNCHANGED log
  /\ UNCHANGED <<ctx, Keys>>

PlainRoomSmall == Offered - 1    \* mutant: SM2_MAX_PLAINTEXT_SIZE

PlainRoom == Offered

PlainBlockTight == PlainRoom     \* mutant: palloc(plain_len)

PlainBlock == PlainRoom + 1

\* An answer of the library's, as opposed to a failing malloc.
Opened(text) ==
  log' = [log EXCEPT !.opened = @ \cup
            {[priv |-> priv_key, bytes |-> call.data.bytes, short |-> call.data.short,
              text |-> text]}]

\* plain[plain_len] = '\0', in plain_len + 1 bytes; a bytea is used where it is.
Open ==
  /\ At("open")
  /\ LET held == {"plain"} \cup IF Fn.coding = "bytea" THEN {} ELSE {"cipher_str", "cipher"}
     IN  \/ \E pt \in Answers(priv_key, call.input, PlainRoom) :
              IF pt = Failure
              THEN /\ Leave("error", Null, {"plain"}, held)
                   /\ Freed({"plain"}, held, FALSE) /\ Opened(Failure)
              ELSE /\ Leave("value", CString(pt), {"plain"}, held)
                   /\ Freed({"plain"}, held, Len(pt) + 1 > PlainBlock)
                   /\ Opened(CString(pt))
         \/ /\ Leave("error", Null, {"plain"}, held)
            /\ Freed({"plain"}, held, FALSE) /\ UNCHANGED log
  /\ UNCHANGED <<ctx, Keys>>

IdBlock == IF call.id = Null THEN {} ELSE {"id_str"}    \* if (id_text) pfree(id_str)

\* The hash of the signer's public key needs a point that has coordinates.
Sign ==
  /\ At("sign")
  /\ LET held == {"msg_str"} \cup IdBlock
         new  == IF Fn.coding = "hex" THEN {"hex_str"} ELSE {}
     IN  \/ /\ Pub(priv_key) # Infinity
            /\ \E n \in SigSizes :
                 LET bytes == SignatureBytes(priv_key, call.data, n)
                 IN  /\ Leave("value", [coding |-> Fn.coding, bytes |-> bytes], new,
                             held \cup new)
                     /\ Freed(new, held \cup new, n > SigRoom)
                     /\ log' = [log EXCEPT !.signed = @ \cup
                                  {[priv |-> priv_key, message |-> call.data,
                                    id |-> call.id, bytes |-> bytes]}]
         \/ /\ Leave("error", Null, {}, held) /\ Freed({}, held, FALSE)
            /\ UNCHANGED log
  /\ UNCHANGED <<ctx, Keys>>

\* A failing malloc and bytes that are no point are a false signature, too.
Verify ==
  /\ At("verify")
  /\ LET held == {"msg_str"} \cup IdBlock
                 \cup IF Fn.coding = "hex" THEN {"sig_hex_str"} ELSE {}
         verdict == IF Verifies(pub_key, call.data, call.input) THEN "true" ELSE "false"
     IN  \/ Leave("value", verdict, {}, held) /\ Freed({}, held, FALSE) /\ Verified(verdict)
         \/ Leave("value", "false", {}, held) /\ Freed({}, held, FALSE) /\ UNCHANGED log
  /\ UNCHANGED <<ctx, Keys>>

-----------------------------------------------------------------------------
Init ==
  /\ todo = <<>> /\ call = Null
  /\ priv_key = Junk /\ pub_key = Junk /\ ctx = Null
  /\ heap = {}
  /\ misused = FALSE
  /\ outcome = [kind |-> "running"]
  /\ log = [sealed |-> {}, opened |-> {}, signed |-> {}, verified |-> {}]

\* The bytes in the coding f reads: a bytea straight from a function or, short
\* enough, from a table; a text of a wrong length.
Coded(f, made) ==
  LET all == StrayArgs \cup UNION {{b, Front(b)} : b \in {e.bytes : e \in made}}
  IN  IF f.coding = "bytea"
      THEN {[bytes |-> b, short |-> FALSE] : b \in all}
           \cup {[bytes |-> b, short |-> TRUE] : b \in {c \in all : Len(c) <= ShortMax}}
      ELSE {[bytes |-> b, short |-> FALSE] : b \in all \cup {Malformed}}

\* The session ends once the histories are full.
Room(entries) == Cardinality(entries) < MaxLog

Made == log.sealed \cup log.signed
Used == log.opened \cup log.verified

Next ==
  \/ /\ todo = <<>> /\ Room(Used)
     /\ \/ Invoke(sm2_generate_key, Null, Null, Null, Null)
        \/ \E key \in PrivateArgs : Invoke(sm2_get_pubkey, key, Null, Null, Null)
        \/ /\ Room(Made)
           /\ \E f \in Encryptions, key \in PublicArgs, data \in PlainArgs :
                Invoke(f, key, data, Null, Null)
        \/ \E f \in Decryptions, key \in PrivateArgs :
             \E data \in Coded(f, log.sealed) \cup {Null} : Invoke(f, key, data, Null, Null)
        \/ /\ Room(Made)
           /\ \E f \in Signers, key \in PrivateArgs, data \in PlainArgs, id \in IdArgs :
                Invoke(f, key, data, Null, id)
        \/ \E f \in Verifiers, key \in PublicArgs, data \in PlainArgs, id \in IdArgs :
             \E sig \in Coded(f, log.signed) \cup {Null} : Invoke(f, key, data, sig, id)
  \/ ReadPrivateArg
  \/ ReadPublicArg
  \/ GenerateKeypair
  \/ Load
  \/ Derive
  \/ ReadPrivate
  \/ ReadPublic
  \/ Answer
  \/ FetchPlain
  \/ FetchHex
  \/ FetchBase64
  \/ FetchBytea
  \/ FetchSigHex
  \/ CheckLength
  \/ FetchMessage
  \/ FetchId
  \/ Seal
  \/ Open
  \/ Sign
  \/ Verify

Spec == Init /\ [][Next]_vars

-----------------------------------------------------------------------------
(* Properties *)

\* Every variable has its type.  After the step that reads it a key is what an
\* argument stands for, whatever its notation; where sm2_get_pubkey and
\* sm2_generate_key build their answer, each array holds its half of the pair in
\* the context or was never written (their calls of the library are not looked at),
\* and sm2_get_pubkey has its private key from the argument.
TypeOK ==
  /\ priv_key \in Private \cup {Junk} /\ pub_key \in Public \cup {Pub(d) : d \in Private} \cup {Junk}
  /\ \A step \in {"load", "hex", "base64", "open", "sign"} : At(step) =>
       IF Fn.kind = "verify" THEN pub_key # Junk ELSE priv_key # Junk
  /\ At("answer") =>
       /\ priv_key \in {ctx.priv} \cup IF Fn.kind = "generate" THEN {Junk} ELSE {}
       /\ pub_key \in {Pub(ctx.priv), Junk}
  /\ heap \subseteq {"ctx", "pub_hex", "priv_hex", "plain_str", "cipher_str", "cipher", "plain",
                    "hex_str", "b64_str", "msg_str", "id_str", "sig_hex_str"} \cup Elements
  /\ misused \in BOOLEAN
  /\ outcome.kind \in {"running", "null", "crash", "value", "error"}

Answered(kind) == outcome.kind = "value" /\ outcome.fn = kind

\* On every way out of the twelve functions each palloc'd block and the key of
\* the sm2_context are freed, once, but for the two elements of the array that
\* sm2_generate_key returns, which stay until the memory context goes; no
\* ciphertext, plaintext with its '\0' or signature is written beyond the array it
\* was given.
MemorySafe ==
  /\ ~misused
  /\ todo = <<>> /\ outcome.kind # "running" =>
       heap = IF Answered("generate") THEN Elements ELSE {}

\* What an encrypting function returned, every decrypting function turns back
\* into the plaintext for the matching private key in either notation and in
\* whichever coding it gets the bytes, up to 256 bytes of plaintext and unless
\* a bytea comes from a table with a short header; no other key opens it, and
\* nothing ever makes another text of it.
RoundTrip ==
  \A e \in log.sealed, d \in log.opened : e.bytes = d.bytes =>
    /\ d.text \in {e.text, Failure}
    /\ d.text = e.text <=> Pub(d.priv) = e.pub /\ Len(e.text) <= Offered /\ ~d.short

SignedAs(s, v) == s.bytes = v.bytes /\ s.message = v.message /\ Pub(s.priv) = v.pub

\* A verification answers true only for bytes that a signing function returned for
\* the message under the signer's key, in any notation and coding, and always for
\* those where the user ID is the same too; a signature that comes from a table
\* with a short header is never found true.
SignatureBinds ==
  \A v \in log.verified :
    /\ v.verdict = "true" => ~v.short /\ \E s \in log.signed : SignedAs(s, v)
    /\ \A s \in log.signed : SignedAs(s, v) /\ s.id = v.id /\ ~v.short => v.verdict = "true"

\* sm2_c/test_sm2.sql:180-188 and sm2_c/README.md:480: a signature is found true only
\* with the user ID it was made with.
IdBinds ==
  \A v \in log.verified :
    v.verdict = "true" => \E s \in log.signed : SignedAs(s, v) /\ s.id = v.id

=============================================================================

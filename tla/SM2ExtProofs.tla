---------------------------- MODULE SM2ExtProofs ----------------------------
(***************************************************************************)
(* Theorems about SM2Ext: for any keys, texts, ciphertexts and signatures    *)
(* and any number of calls, every way out of the twelve functions of         *)
(* sm2_c/sm2_ext_openssl.c releases what was allocated, once, what one       *)
(* function encrypts the others decrypt, and a signature is found true for   *)
(* what was signed and nothing else.                                         *)
(***************************************************************************)
EXTENDS SM2Ext, SequenceTheorems, TLAPS

-----------------------------------------------------------------------------
(* Control *)

StepNames == {"generate", "read_private", "read_public", "answer", "private", "load",
              "derive", "public", "plain", "seal", "hex", "base64", "bytea", "open",
              "message", "id", "sign", "sig_hex", "length", "verify"}

Sane(f) ==
  /\ f.kind \in {"generate", "pubkey", "encrypt", "decrypt", "sign", "verify"}
  /\ f.coding \in {"hex", "base64", "bytea"}

ReadsPrivate(f) == f.kind \in {"pubkey", "decrypt", "sign"}
ReadsPublic(f)  == f.kind \in {"encrypt", "verify"}

\* Which functions come to a step.
Runs(f, h) ==
  /\ h \in {"generate", "read_private"} => f.kind = "generate"
  /\ h \in {"load", "derive"} => f.kind = "pubkey"
  /\ h \in {"read_public", "answer"} => f.kind \in {"generate", "pubkey"}
  /\ h = "private" => ReadsPrivate(f)
  /\ h = "public" => ReadsPublic(f)
  /\ h \in {"plain", "seal"} => f.kind = "encrypt"
  /\ h \in {"hex", "base64", "open"} => f.kind = "decrypt"
  /\ h \in {"hex", "base64", "bytea"} => f.coding = h
  /\ h = "bytea" => f.kind \in {"decrypt", "verify"}
  /\ h = "sig_hex" => f.coding = "hex"
  /\ h \in {"sig_hex", "length", "verify"} => f.kind = "verify"
  /\ h \in {"message", "id"} => f.kind \in {"sign", "verify"}
  /\ h = "sign" => f.kind = "sign"

\* What comes after a step that went well.
Follows(f, g, h) ==
  \/ g = "generate" /\ h = "read_private"
  \/ g \in {"read_private", "derive"} /\ h = "read_public"
  \/ g = "read_public" /\ h = "answer"
  \/ g = "private" /\ h \in IF f.kind = "pubkey" THEN {"load"}
                            ELSE IF f.kind = "sign" THEN {"message"}
                            ELSE {"hex", "base64", "bytea"}
  \/ g = "load" /\ h = "derive"
  \/ g = "public" /\ h \in IF f.kind = "encrypt" THEN {"plain"} ELSE {"bytea", "sig_hex"}
  \/ g = "plain" /\ h = "seal"
  \/ g \in {"hex", "base64", "bytea", "sig_hex"} /\
     h = IF f.kind = "verify" THEN "length" ELSE "open"
  \/ g = "length" /\ h = "message"
  \/ g = "message" /\ h = "id"
  \/ g = "id" /\ h = IF f.kind = "sign" THEN "sign" ELSE "verify"

\* The steps a function returns or fails in.
Ends == {"answer", "seal", "open", "sign", "verify"}

\* The steps left are a path of the function to one of its ends.
Path(f, s) ==
  /\ s \in Seq(StepNames)
  /\ \A k \in 1 .. Len(s) : Runs(f, s[k])
  /\ \A k \in 1 .. Len(s) - 1 : Follows(f, s[k], s[k + 1])
  /\ Len(s) > 0 => s[Len(s)] \in Ends

\* The blocks that are held when a function comes to a step.
HeldAt(f, id, h) ==
  (IF h \in {"derive", "read_private", "read_public", "answer"} THEN {"ctx"} ELSE {})
  \cup (IF h = "seal" THEN {"plain_str"} ELSE {})
  \cup (IF h = "open" /\ f.coding # "bytea" THEN {"cipher_str", "cipher"} ELSE {})
  \cup (IF f.kind = "verify" /\ f.coding = "hex" /\ h \in {"length", "message", "id", "verify"}
        THEN {"sig_hex_str"} ELSE {})
  \cup (IF h \in {"id", "sign", "verify"} THEN {"msg_str"} ELSE {})
  \cup (IF h \in {"sign", "verify"} /\ id # Null THEN {"id_str"} ELSE {})

-----------------------------------------------------------------------------
(* What a call has read *)

Texted == PlainArgs \ {Null}

\* A sequence, of whatever.
IsBytes(s) == s \in Seq(Range(s))

TypesInv ==
  /\ priv_key \in Private \cup {Junk}
  /\ pub_key \in Public \cup {Pub(d) : d \in Private} \cup {Junk}
  /\ outcome.kind \in {"running", "null", "crash", "value", "error"}

\* What a verifying function may be given.
GivenSignatures ==
  StrayArgs \cup {Malformed} \cup UNION {{b, Front(b)} : b \in {e.bytes : e \in log.signed}}

IsDatum(f, x) ==
  /\ x = [bytes |-> x.bytes, short |-> x.short] /\ x.short \in BOOLEAN
  /\ f.coding # "bytea" => x.short = FALSE

FrameInv ==
  todo # <<>> =>
    /\ Sane(call.fn) /\ Path(call.fn, todo)
    /\ call = [fn |-> call.fn, key |-> call.key, data |-> call.data, sig |-> call.sig,
               id |-> call.id, input |-> call.input]
    /\ outcome.kind = "running"
    /\ ReadsPrivate(call.fn) => call.key \in PrivateArgs \ {Null}
    /\ ReadsPublic(call.fn) => call.key \in PublicArgs \ {Null}
    /\ call.fn.kind \in {"encrypt", "sign", "verify"} => call.data \in Texted
    /\ call.fn.kind = "decrypt" => IsDatum(call.fn, call.data)
    /\ call.fn.kind = "verify" =>
         IsDatum(call.fn, call.sig) /\ call.sig.bytes \in GivenSignatures

\* The arrays, once they are read, hold the keys the arguments stand for, and what
\* is written from the context is its pair.
KeyInv ==
  /\ todo # <<>> /\ ReadsPrivate(call.fn) /\ ~At("private") =>
       priv_key = GetPrivateKey(call.key) /\ priv_key \in Private
  /\ todo # <<>> /\ ReadsPublic(call.fn) /\ ~At("public") =>
       pub_key = GetPublicKey(call.key) /\ pub_key \in Public
  /\ At("derive") \/ At("read_private") \/ At("read_public") \/ At("answer") =>
       /\ ctx = [priv |-> ctx.priv, pub |-> ctx.pub]
       /\ ctx.priv \in Private /\ ctx.pub \in {Pub(ctx.priv), Null}
  /\ At("derive") => priv_key = ctx.priv
  /\ At("read_public") \/ At("answer") =>
       priv_key = ctx.priv \/ (call.fn.kind = "generate" /\ priv_key = Junk)
  /\ At("generate") \/ At("read_private") => priv_key = Junk
  /\ todo # <<>> /\ call.fn.kind \in {"generate", "pubkey"} /\ ~At("answer") => pub_key = Junk
  /\ At("answer") => pub_key \in {Pub(ctx.priv), Junk}

\* What the bytes are that a function works on.
Fetched(x) == call.input \in IF x.short THEN Misread ELSE {x.bytes}

InputInv ==
  /\ At("seal") => call.input = call.data
  /\ At("open") => Fetched(call.data)
  /\ At("length") => Fetched(call.sig)
  /\ todo # <<>> /\ call.fn.kind = "verify" /\ (At("message") \/ At("id") \/ At("verify")) =>
       Fetched(call.sig) /\ LengthFits(call.input)

BlocksInv ==
  /\ misused = FALSE
  /\ heap = IF todo # <<>> THEN HeldAt(call.fn, call.id, Head(todo))
            ELSE IF Answered("generate") THEN Elements ELSE {}

-----------------------------------------------------------------------------
(* The histories *)

Sealable == Texted \ {<<>>}

LogShape ==
  log = [sealed |-> log.sealed, opened |-> log.opened, signed |-> log.signed,
         verified |-> log.verified]

SealedInv ==
  \A e \in log.sealed :
    e.pub \in Public /\ e.text \in Sealable /\ e.bytes = SealedBytes(e.pub, e.text)

OpenedInv ==
  \A d \in log.opened, q \in Public, t \in Sealable : d.bytes = SealedBytes(q, t) =>
    /\ d.text \in {t, Failure}
    /\ d.text = t <=> Pub(d.priv) = q /\ Len(t) <= Offered /\ ~d.short

SignedInv ==
  \A s \in log.signed :
    /\ s.priv \in Private /\ s.message \in Texted
    /\ \E n \in SigSizes : s.bytes = SignatureBytes(s.priv, s.message, n)

VerifiedInv ==
  \A v \in log.verified :
    /\ v.verdict = "true" <=> ~v.short /\ Verifies(v.pub, v.message, v.bytes)
    /\ v.bytes \in GivenSignatures /\ v.message \in Texted

HistoryInv == LogShape /\ SealedInv /\ OpenedInv /\ SignedInv /\ VerifiedInv

IInv ==
  /\ TypesInv
  /\ FrameInv
  /\ KeyInv
  /\ InputInv
  /\ BlocksInv
  /\ HistoryInv

-----------------------------------------------------------------------------
(* Programs *)

LEMMA Path3 ==
  ASSUME NEW f, NEW a \in StepNames, NEW b \in StepNames, NEW c \in StepNames,
         Runs(f, a), Runs(f, b), Runs(f, c), Follows(f, a, b), Follows(f, b, c),
         c \in Ends
  PROVE  Path(f, <<a, b, c>>)
<1> DEFINE s == <<a, b, c>>
<1>1. s \in Seq(StepNames) /\ Len(s) = 3
  OBVIOUS
<1>2. \A k \in 1 .. Len(s) : k \in {1, 2, 3}
  BY <1>1
<1>3. \A k \in 1 .. Len(s) - 1 : k \in {1, 2}
  BY <1>1
<1>4. s[1] = a /\ s[2] = b /\ s[3] = c
  OBVIOUS
<1> HIDE DEF s
<1>5. \A k \in 1 .. Len(s) : Runs(f, s[k])
  BY <1>2, <1>4
<1>6. \A k \in 1 .. Len(s) - 1 : Follows(f, s[k], s[k + 1])
  BY <1>3, <1>4
<1>7. Len(s) > 0 => s[Len(s)] \in Ends
  BY <1>1, <1>4
<1>8. Path(f, s)
  BY <1>1, <1>5, <1>6, <1>7 DEF Path
<1> QED
  BY <1>8 DEF s

LEMMA Path4 ==
  ASSUME NEW f, NEW a \in StepNames, NEW b \in StepNames, NEW c \in StepNames,
         NEW d \in StepNames,
         Runs(f, a), Runs(f, b), Runs(f, c), Runs(f, d),
         Follows(f, a, b), Follows(f, b, c), Follows(f, c, d),
         d \in Ends
  PROVE  Path(f, <<a, b, c, d>>)
<1> DEFINE s == <<a, b, c, d>>
<1>1. s \in Seq(StepNames) /\ Len(s) = 4
  OBVIOUS
<1>2. \A k \in 1 .. Len(s) : k \in {1, 2, 3, 4}
  BY <1>1
<1>3. \A k \in 1 .. Len(s) - 1 : k \in {1, 2, 3}
  BY <1>1
<1>4. s[1] = a /\ s[2] = b /\ s[3] = c /\ s[4] = d
  OBVIOUS
<1> HIDE DEF s
<1>5. \A k \in 1 .. Len(s) : Runs(f, s[k])
  BY <1>2, <1>4
<1>6. \A k \in 1 .. Len(s) - 1 : Follows(f, s[k], s[k + 1])
  BY <1>3, <1>4
<1>7. Len(s) > 0 => s[Len(s)] \in Ends
  BY <1>1, <1>4
<1>8. Path(f, s)
  BY <1>1, <1>5, <1>6, <1>7 DEF Path
<1> QED
  BY <1>8 DEF s

LEMMA Path5 ==
  ASSUME NEW f, NEW a \in StepNames, NEW b \in StepNames, NEW c \in StepNames,
         NEW d \in StepNames, NEW e \in StepNames,
         Runs(f, a), Runs(f, b), Runs(f, c), Runs(f, d), Runs(f, e),
         Follows(f, a, b), Follows(f, b, c), Follows(f, c, d), Follows(f, d, e),
         e \in Ends
  PROVE  Path(f, <<a, b, c, d, e>>)
<1> DEFINE s == <<a, b, c, d, e>>
<1>1. s \in Seq(StepNames) /\ Len(s) = 5
  OBVIOUS
<1>2. \A k \in 1 .. Len(s) : k \in {1, 2, 3, 4, 5}
  BY <1>1
<1>3. \A k \in 1 .. Len(s) - 1 : k \in {1, 2, 3, 4}
  BY <1>1
<1>4. s[1] = a /\ s[2] = b /\ s[3] = c /\ s[4] = d /\ s[5] = e
  OBVIOUS
<1> HIDE DEF s
<1>5. \A k \in 1 .. Len(s) : Runs(f, s[k])
  BY <1>2, <1>4
<1>6. \A k \in 1 .. Len(s) - 1 : Follows(f, s[k], s[k + 1])
  BY <1>3, <1>4
<1>7. Len(s) > 0 => s[Len(s)] \in Ends
  BY <1>1, <1>4
<1>8. Path(f, s)
  BY <1>1, <1>5, <1>6, <1>7 DEF Path
<1> QED
  BY <1>8 DEF s

LEMMA Path6 ==
  ASSUME NEW f, NEW a \in StepNames, NEW b \in StepNames, NEW c \in StepNames,
         NEW d \in StepNames, NEW e \in StepNames, NEW g \in StepNames,
         Runs(f, a), Runs(f, b), Runs(f, c), Runs(f, d), Runs(f, e), Runs(f, g),
         Follows(f, a, b), Follows(f, b, c), Follows(f, c, d), Follows(f, d, e),
         Follows(f, e, g),
         g \in Ends
  PROVE  Path(f, <<a, b, c, d, e, g>>)
<1> DEFINE s == <<a, b, c, d, e, g>>
<1>1. s \in Seq(StepNames) /\ Len(s) = 6
  OBVIOUS
<1>2. \A k \in 1 .. Len(s) : k \in {1, 2, 3, 4, 5, 6}
  BY <1>1
<1>3. \A k \in 1 .. Len(s) - 1 : k \in {1, 2, 3, 4, 5}
  BY <1>1
<1>4. s[1] = a /\ s[2] = b /\ s[3] = c /\ s[4] = d /\ s[5] = e /\ s[6] = g
  OBVIOUS
<1> HIDE DEF s
<1>5. \A k \in 1 .. Len(s) : Runs(f, s[k])
  BY <1>2, <1>4
<1>6. \A k \in 1 .. Len(s) - 1 : Follows(f, s[k], s[k + 1])
  BY <1>3, <1>4
<1>7. Len(s) > 0 => s[Len(s)] \in Ends
  BY <1>1, <1>4
<1>8. Path(f, s)
  BY <1>1, <1>5, <1>6, <1>7 DEF Path
<1> QED
  BY <1>8 DEF s

\* Each of the twelve functions is a path that begins by reading the key or making one.
Program(f, kind) ==
  /\ Sane(f) /\ f.kind = kind /\ Path(f, f.steps) /\ f.steps # <<>>
  /\ Head(f.steps) = IF kind = "generate" THEN "generate"
                     ELSE IF ReadsPrivate(f) THEN "private" ELSE "public"

LEMMA Programs ==
  /\ Program(sm2_generate_key, "generate") /\ Program(sm2_get_pubkey, "pubkey")
  /\ \A f \in Encryptions : Program(f, "encrypt")
  /\ \A f \in Decryptions : Program(f, "decrypt")
  /\ \A f \in Signers : Program(f, "sign")
  /\ \A f \in Verifiers : Program(f, "verify")
<1>1. Program(sm2_generate_key, "generate")
  <2> DEFINE f == sm2_generate_key
  <2>1. f.kind = "generate" /\ f.coding = "hex"
        /\ f.steps = <<"generate", "read_private", "read_public", "answer">>
    BY DEF sm2_generate_key, Function
  <2> HIDE DEF f
  <2>2. ReadsPrivate(f) = FALSE /\ ReadsPublic(f) = FALSE
    BY <2>1 DEF ReadsPrivate, ReadsPublic
  <2>3. Runs(f, "generate") /\ Runs(f, "read_private") /\ Runs(f, "read_public")
        /\ Runs(f, "answer")
    BY <2>1, <2>2 DEF Runs
  <2>4. Follows(f, "generate", "read_private")
        /\ Follows(f, "read_private", "read_public") /\ Follows(f, "read_public", "answer")
    BY <2>1 DEF Follows
  <2>5. {"generate", "read_private", "read_public", "answer"} \subseteq StepNames
    BY DEF StepNames
  <2>6. "answer" \in Ends
    BY DEF Ends
  <2>7. Path(f, f.steps) /\ Head(f.steps) = "generate" /\ f.steps # <<>>
    BY <2>1, <2>3, <2>4, <2>5, <2>6, Path4
  <2>8. Sane(f)
    BY <2>1 DEF Sane
  <2> QED
    BY <2>1, <2>2, <2>7, <2>8 DEF Program, f
<1>2. Program(sm2_get_pubkey, "pubkey")
  <2> DEFINE f == sm2_get_pubkey
  <2>1. f.kind = "pubkey" /\ f.coding = "hex"
        /\ f.steps = <<"private", "load", "derive", "read_public", "answer">>
    BY DEF sm2_get_pubkey, Function
  <2> HIDE DEF f
  <2>2. ReadsPrivate(f) = TRUE /\ ReadsPublic(f) = FALSE
    BY <2>1 DEF ReadsPrivate, ReadsPublic
  <2>3. Runs(f, "private") /\ Runs(f, "load") /\ Runs(f, "derive")
        /\ Runs(f, "read_public") /\ Runs(f, "answer")
    BY <2>1, <2>2 DEF Runs
  <2>4. Follows(f, "private", "load") /\ Follows(f, "load", "derive")
        /\ Follows(f, "derive", "read_public") /\ Follows(f, "read_public", "answer")
    BY <2>1 DEF Follows
  <2>5. {"private", "load", "derive", "read_public", "answer"} \subseteq StepNames
    BY DEF StepNames
  <2>6. "answer" \in Ends
    BY DEF Ends
  <2>7. Path(f, f.steps) /\ Head(f.steps) = "private" /\ f.steps # <<>>
    BY <2>1, <2>3, <2>4, <2>5, <2>6, Path5
  <2>8. Sane(f)
    BY <2>1 DEF Sane
  <2> QED
    BY <2>1, <2>2, <2>7, <2>8 DEF Program, f
<1>3. Program(sm2_encrypt_hex, "encrypt")
  <2> DEFINE f == sm2_encrypt_hex
  <2>1. f.kind = "encrypt" /\ f.coding = "hex" /\ f.steps = <<"public", "plain", "seal">>
    BY DEF sm2_encrypt_hex, Function
  <2> HIDE DEF f
  <2>2. ReadsPrivate(f) = FALSE /\ ReadsPublic(f) = TRUE
    BY <2>1 DEF ReadsPrivate, ReadsPublic
  <2>3. Runs(f, "public") /\ Runs(f, "plain") /\ Runs(f, "seal")
    BY <2>1, <2>2 DEF Runs
  <2>4. Follows(f, "public", "plain") /\ Follows(f, "plain", "seal")
    BY <2>1 DEF Follows
  <2>5. {"public", "plain", "seal"} \subseteq StepNames
    BY DEF StepNames
  <2>6. "seal" \in Ends
    BY DEF Ends
  <2>7. Path(f, f.steps) /\ Head(f.steps) = "public" /\ f.steps # <<>>
    BY <2>1, <2>3, <2>4, <2>5, <2>6, Path3
  <2>8. Sane(f)
    BY <2>1 DEF Sane
  <2> QED
    BY <2>1, <2>2, <2>7, <2>8 DEF Program, f
<1>4. Program(sm2_decrypt_hex, "decrypt")
  <2> DEFINE f == sm2_decrypt_hex
  <2>1. f.kind = "decrypt" /\ f.coding = "hex" /\ f.steps = <<"private", "hex", "open">>
    BY DEF sm2_decrypt_hex, Function
  <2> HIDE DEF f
  <2>2. ReadsPrivate(f) = TRUE /\ ReadsPublic(f) = FALSE
    BY <2>1 DEF ReadsPrivate, ReadsPublic
  <2>3. Runs(f, "private") /\ Runs(f, "hex") /\ Runs(f, "open")
    BY <2>1, <2>2 DEF Runs
  <2>4. Follows(f, "private", "hex") /\ Follows(f, "hex", "open")
    BY <2>1 DEF Follows
  <2>5. {"private", "hex", "open"} \subseteq StepNames
    BY DEF StepNames
  <2>6. "open" \in Ends
    BY DEF Ends
  <2>7. Path(f, f.steps) /\ Head(f.steps) = "private" /\ f.steps # <<>>
    BY <2>1, <2>3, <2>4, <2>5, <2>6, Path3
  <2>8. Sane(f)
    BY <2>1 DEF Sane
  <2> QED
    BY <2>1, <2>2, <2>7, <2>8 DEF Program, f
<1>5. Program(sm2_encrypt_base64, "encrypt")
  <2> DEFINE f == sm2_encrypt_base64
  <2>1. f.kind = "encrypt" /\ f.coding = "base64" /\ f.steps = <<"public", "plain", "seal">>
    BY DEF sm2_encrypt_base64, Function
  <2> HIDE DEF f
  <2>2. ReadsPrivate(f) = FALSE /\ ReadsPublic(f) = TRUE
    BY <2>1 DEF ReadsPrivate, ReadsPublic
  <2>3. Runs(f, "public") /\ Runs(f, "plain") /\ Runs(f, "seal")
    BY <2>1, <2>2 DEF Runs
  <2>4. Follows(f, "public", "plain") /\ Follows(f, "plain", "seal")
    BY <2>1 DEF Follows
  <2>5. {"public", "plain", "seal"} \subseteq StepNames
    BY DEF StepNames
  <2>6. "seal" \in Ends
    BY DEF Ends
  <2>7. Path(f, f.steps) /\ Head(f.steps) = "public" /\ f.steps # <<>>
    BY <2>1, <2>3, <2>4, <2>5, <2>6, Path3
  <2>8. Sane(f)
    BY <2>1 DEF Sane
  <2> QED
    BY <2>1, <2>2, <2>7, <2>8 DEF Program, f
<1>6. Program(sm2_decrypt_base64, "decrypt")
  <2> DEFINE f == sm2_decrypt_base64
  <2>1. f.kind = "decrypt" /\ f.coding = "base64" /\ f.steps = <<"private", "base64", "open">>
    BY DEF sm2_decrypt_base64, Function
  <2> HIDE DEF f
  <2>2. ReadsPrivate(f) = TRUE /\ ReadsPublic(f) = FALSE
    BY <2>1 DEF ReadsPrivate, ReadsPublic
  <2>3. Runs(f, "private") /\ Runs(f, "base64") /\ Runs(f, "open")
    BY <2>1, <2>2 DEF Runs
  <2>4. Follows(f, "private", "base64") /\ Follows(f, "base64", "open")
    BY <2>1 DEF Follows
  <2>5. {"private", "base64", "open"} \subseteq StepNames
    BY DEF StepNames
  <2>6. "open" \in Ends
    BY DEF Ends
  <2>7. Path(f, f.steps) /\ Head(f.steps) = "private" /\ f.steps # <<>>
    BY <2>1, <2>3, <2>4, <2>5, <2>6, Path3
  <2>8. Sane(f)
    BY <2>1 DEF Sane
  <2> QED
    BY <2>1, <2>2, <2>7, <2>8 DEF Program, f
<1>7. Program(sm2_encrypt_func, "encrypt")
  <2> DEFINE f == sm2_encrypt_func
  <2>1. f.kind = "encrypt" /\ f.coding = "bytea" /\ f.steps = <<"public", "plain", "seal">>
    BY DEF sm2_encrypt_func, Function
  <2> HIDE DEF f
  <2>2. ReadsPrivate(f) = FALSE /\ ReadsPublic(f) = TRUE
    BY <2>1 DEF ReadsPrivate, ReadsPublic
  <2>3. Runs(f, "public") /\ Runs(f, "plain") /\ Runs(f, "seal")
    BY <2>1, <2>2 DEF Runs
  <2>4. Follows(f, "public", "plain") /\ Follows(f, "plain", "seal")
    BY <2>1 DEF Follows
  <2>5. {"public", "plain", "seal"} \subseteq StepNames
    BY DEF StepNames
  <2>6. "seal" \in Ends
    BY DEF Ends
  <2>7. Path(f, f.steps) /\ Head(f.steps) = "public" /\ f.steps # <<>>
    BY <2>1, <2>3, <2>4, <2>5, <2>6, Path3
  <2>8. Sane(f)
    BY <2>1 DEF Sane
  <2> QED
    BY <2>1, <2>2, <2>7, <2>8 DEF Program, f
<1>8. Program(sm2_decrypt_func, "decrypt")
  <2> DEFINE f == sm2_decrypt_func
  <2>1. f.kind = "decrypt" /\ f.coding = "bytea" /\ f.steps = <<"private", "bytea", "open">>
    BY DEF sm2_decrypt_func, Function
  <2> HIDE DEF f
  <2>2. ReadsPrivate(f) = TRUE /\ ReadsPublic(f) = FALSE
    BY <2>1 DEF ReadsPrivate, ReadsPublic
  <2>3. Runs(f, "private") /\ Runs(f, "bytea") /\ Runs(f, "open")
    BY <2>1, <2>2 DEF Runs
  <2>4. Follows(f, "private", "bytea") /\ Follows(f, "bytea", "open")
    BY <2>1 DEF Follows
  <2>5. {"private", "bytea", "open"} \subseteq StepNames
    BY DEF StepNames
  <2>6. "open" \in Ends
    BY DEF Ends
  <2>7. Path(f, f.steps) /\ Head(f.steps) = "private" /\ f.steps # <<>>
    BY <2>1, <2>3, <2>4, <2>5, <2>6, Path3
  <2>8. Sane(f)
    BY <2>1 DEF Sane
  <2> QED
    BY <2>1, <2>2, <2>7, <2>8 DEF Program, f
<1>9. Program(sm2_sign_func, "sign")
  <2> DEFINE f == sm2_sign_func
  <2>1. f.kind = "sign" /\ f.coding = "bytea" /\ f.steps = <<"private", "message", "id", "sign">>
    BY DEF sm2_sign_func, Function
  <2> HIDE DEF f
  <2>2. ReadsPrivate(f) = TRUE /\ ReadsPublic(f) = FALSE
    BY <2>1 DEF ReadsPrivate, ReadsPublic
  <2>3. Runs(f, "private") /\ Runs(f, "message") /\ Runs(f, "id") /\ Runs(f, "sign")
    BY <2>1, <2>2 DEF Runs
  <2>4. Follows(f, "private", "message") /\ Follows(f, "message", "id")
        /\ Follows(f, "id", "sign")
    BY <2>1 DEF Follows
  <2>5. {"private", "message", "id", "sign"} \subseteq StepNames
    BY DEF StepNames
  <2>6. "sign" \in Ends
    BY DEF Ends
  <2>7. Path(f, f.steps) /\ Head(f.steps) = "private" /\ f.steps # <<>>
    BY <2>1, <2>3, <2>4, <2>5, <2>6, Path4
  <2>8. Sane(f)
    BY <2>1 DEF Sane
  <2> QED
    BY <2>1, <2>2, <2>7, <2>8 DEF Program, f
<1>10. Program(sm2_verify_func, "verify")
  <2> DEFINE f == sm2_verify_func
  <2>1. f.kind = "verify" /\ f.coding = "bytea"
        /\ f.steps = <<"public", "bytea", "length", "message", "id", "verify">>
    BY DEF sm2_verify_func, Function
  <2> HIDE DEF f
  <2>2. ReadsPrivate(f) = FALSE /\ ReadsPublic(f) = TRUE
    BY <2>1 DEF ReadsPrivate, ReadsPublic
  <2>3. Runs(f, "public") /\ Runs(f, "bytea") /\ Runs(f, "length") /\ Runs(f, "message")
        /\ Runs(f, "id") /\ Runs(f, "verify")
    BY <2>1, <2>2 DEF Runs
  <2>4. Follows(f, "public", "bytea") /\ Follows(f, "bytea", "length")
        /\ Follows(f, "length", "message") /\ Follows(f, "message", "id")
        /\ Follows(f, "id", "verify")
    BY <2>1 DEF Follows
  <2>5. {"public", "bytea", "length", "message", "id", "verify"} \subseteq StepNames
    BY DEF StepNames
  <2>6. "verify" \in Ends
    BY DEF Ends
  <2>7. Path(f, f.steps) /\ Head(f.steps) = "public" /\ f.steps # <<>>
    BY <2>1, <2>3, <2>4, <2>5, <2>6, Path6
  <2>8. Sane(f)
    BY <2>1 DEF Sane
  <2> QED
    BY <2>1, <2>2, <2>7, <2>8 DEF Program, f
<1>11. Program(sm2_sign_hex, "sign")
  <2> DEFINE f == sm2_sign_hex
  <2>1. f.kind = "sign" /\ f.coding = "hex" /\ f.steps = <<"private", "message", "id", "sign">>
    BY DEF sm2_sign_hex, Function
  <2> HIDE DEF f
  <2>2. ReadsPrivate(f) = TRUE /\ ReadsPublic(f) = FALSE
    BY <2>1 DEF ReadsPrivate, ReadsPublic
  <2>3. Runs(f, "private") /\ Runs(f, "message") /\ Runs(f, "id") /\ Runs(f, "sign")
    BY <2>1, <2>2 DEF Runs
  <2>4. Follows(f, "private", "message") /\ Follows(f, "message", "id")
        /\ Follows(f, "id", "sign")
    BY <2>1 DEF Follows
  <2>5. {"private", "message", "id", "sign"} \subseteq StepNames
    BY DEF StepNames
  <2>6. "sign" \in Ends
    BY DEF Ends
  <2>7. Path(f, f.steps) /\ Head(f.steps) = "private" /\ f.steps # <<>>
    BY <2>1, <2>3, <2>4, <2>5, <2>6, Path4
  <2>8. Sane(f)
    BY <2>1 DEF Sane
  <2> QED
    BY <2>1, <2>2, <2>7, <2>8 DEF Program, f
<1>12. Program(sm2_verify_hex, "verify")
  <2> DEFINE f == sm2_verify_hex
  <2>1. f.kind = "verify" /\ f.coding = "hex"
        /\ f.steps = <<"public", "sig_hex", "length", "message", "id", "verify">>
    BY DEF sm2_verify_hex, Function
  <2> HIDE DEF f
  <2>2. ReadsPrivate(f) = FALSE /\ ReadsPublic(f) = TRUE
    BY <2>1 DEF ReadsPrivate, ReadsPublic
  <2>3. Runs(f, "public") /\ Runs(f, "sig_hex") /\ Runs(f, "length") /\ Runs(f, "message")
        /\ Runs(f, "id") /\ Runs(f, "verify")
    BY <2>1, <2>2 DEF Runs
  <2>4. Follows(f, "public", "sig_hex") /\ Follows(f, "sig_hex", "length")
        /\ Follows(f, "length", "message") /\ Follows(f, "message", "id")
        /\ Follows(f, "id", "verify")
    BY <2>1 DEF Follows
  <2>5. {"public", "sig_hex", "length", "message", "id", "verify"} \subseteq StepNames
    BY DEF StepNames
  <2>6. "verify" \in Ends
    BY DEF Ends
  <2>7. Path(f, f.steps) /\ Head(f.steps) = "public" /\ f.steps # <<>>
    BY <2>1, <2>3, <2>4, <2>5, <2>6, Path6
  <2>8. Sane(f)
    BY <2>1 DEF Sane
  <2> QED
    BY <2>1, <2>2, <2>7, <2>8 DEF Program, f
<1> QED
  BY <1>1, <1>2, <1>3, <1>4, <1>5, <1>6, <1>7, <1>8, <1>9, <1>10, <1>11, <1>12
  DEF Encryptions, Decryptions, Signers, Verifiers

\* What a step leaves of a path is one.
LEMMA PathTail ==
  ASSUME NEW f, NEW s, Path(f, s), s # <<>>
  PROVE  /\ Path(f, Tail(s)) /\ Runs(f, Head(s)) /\ Head(s) \in StepNames
         /\ Head(s) \notin Ends => Tail(s) # <<>>
         /\ Tail(s) # <<>> => Follows(f, Head(s), Head(Tail(s))) /\ Runs(f, Head(Tail(s)))
<1> DEFINE n == Len(s)
           t == Tail(s)
<1>1. /\ s \in Seq(StepNames) /\ n \in Nat \ {0}
      /\ \A k \in 1 .. n : Runs(f, s[k])
      /\ \A k \in 1 .. n - 1 : Follows(f, s[k], s[k + 1])
      /\ s[n] \in Ends
  BY EmptySeq DEF Path
<1>2. /\ Head(s) = s[1] /\ s[1] \in StepNames
      /\ t \in Seq(StepNames) /\ Len(t) = n - 1
      /\ \A k \in 1 .. n - 1 : t[k] = s[k + 1]
  BY <1>1, HeadTailProperties
<1>3. t # <<>> => Len(t) \in Nat \ {0}
  BY <1>2, EmptySeq
<1> HIDE DEF n, t
<1>4. \A k \in 1 .. Len(t) : Runs(f, t[k])
  <2> TAKE k \in 1 .. Len(t)
  <2>1. k \in 1 .. n - 1 /\ k + 1 \in 1 .. n
    BY <1>1, <1>2
  <2> QED
    BY <1>1, <1>2, <2>1
<1>5. \A k \in 1 .. Len(t) - 1 : Follows(f, t[k], t[k + 1])
  <2> TAKE k \in 1 .. Len(t) - 1
  <2>1. k \in 1 .. n - 1 /\ k + 1 \in 1 .. n - 1
    BY <1>1, <1>2
  <2> QED
    BY <1>1, <1>2, <2>1
<1>6. t # <<>> => Follows(f, s[1], Head(t)) /\ Runs(f, Head(t))
  <2> SUFFICES ASSUME t # <<>> PROVE Follows(f, s[1], Head(t)) /\ Runs(f, Head(t))
    OBVIOUS
  <2>1. 1 \in 1 .. n - 1 /\ 1 \in 1 .. Len(t)
    BY <1>1, <1>2, <1>3
  <2>2. Follows(f, s[1], s[1 + 1]) /\ t[1] = s[1 + 1] /\ Runs(f, t[1])
    BY <1>1, <1>2, <1>4, <2>1
  <2>3. Head(t) = t[1]
    BY <1>2, HeadTailProperties
  <2> QED
    BY <2>2, <2>3
<1>7. Runs(f, s[1])
  BY <1>1
<1>8. Len(t) > 0 => t[Len(t)] \in Ends
  <2> SUFFICES ASSUME Len(t) > 0 PROVE t[Len(t)] \in Ends
    OBVIOUS
  <2>1. Len(t) = n - 1 /\ n - 1 \in 1 .. n - 1 /\ n - 1 + 1 = n
    BY <1>1, <1>2
  <2>2. t[n - 1] = s[n]
    BY <1>2, <2>1
  <2> QED
    BY <1>1, <2>1, <2>2
<1>9. s[1] \notin Ends => t # <<>>
  <2>1. t = <<>> => Len(t) = 0
    BY <1>2, EmptySeq
  <2>2. Len(t) = 0 => n = 1
    BY <1>1, <1>2
  <2> QED
    BY <1>1, <2>1, <2>2
<1>10. Path(f, t)
  BY <1>2, <1>4, <1>5, <1>8 DEF Path
<1> QED
  BY <1>2, <1>6, <1>7, <1>9, <1>10 DEF t

-----------------------------------------------------------------------------
(* Bytes *)

LEMMA BytesForm ==
  ASSUME NEW n \in Nat \ {0}, NEW what
  PROVE  /\ IsBytes(Bytes(n, what)) /\ Len(Bytes(n, what)) = n
         /\ Bytes(n, what)[n] = what
         /\ \A j \in 1 .. n - 1 : Bytes(n, what)[j] = <<"byte", j>>
<1> DEFINE f == Bytes(n, what)
           S == {f[j] : j \in 1 .. n}
<1>1. f \in [1 .. n -> S] /\ DOMAIN f = 1 .. n
  BY DEF Bytes
<1>2. f[n] = what /\ \A j \in 1 .. n - 1 : f[j] = <<"byte", j>>
  BY DEF Bytes
<1> HIDE DEF f
<1>3. f \in Seq(S)
  BY <1>1, SeqDef
<1>4. Len(f) \in Nat /\ DOMAIN f = 1 .. Len(f)
  BY <1>3, LenProperties
<1>5. Len(f) = n
  BY <1>1, <1>4
<1>6. IsBytes(f)
  BY <1>3, SeqOfRange DEF IsBytes
<1> QED
  BY <1>2, <1>5, <1>6 DEF f

LEMMA FirstBytes ==
  ASSUME NEW s, IsBytes(s), NEW k \in Int, k <= Len(s)
  PROVE  /\ Len(SubSeq(s, 1, k)) = IF 1 <= k THEN k ELSE 0
         /\ \A i \in 1 .. k : SubSeq(s, 1, k)[i] = s[i]
<1> DEFINE S == Range(s)
<1>1. s \in Seq(S) /\ Len(s) \in Nat
  BY LenProperties DEF IsBytes
<1>2. \A i \in 1 .. k : s[i] \in S
  <2> TAKE i \in 1 .. k
  <2>1. i \in 1 .. Len(s)
    BY <1>1
  <2> QED
    BY <1>1, <2>1, ElementOfSeq
<1> HIDE DEF S
<1>3. /\ Len(SubSeq(s, 1, k)) = IF 1 <= k THEN k - 1 + 1 ELSE 0
      /\ \A i \in 1 .. k - 1 + 1 : SubSeq(s, 1, k)[i] = s[1 + i - 1]
  BY <1>2, SubSeqProperties
<1>4. \A i \in 1 .. k : SubSeq(s, 1, k)[i] = s[i]
  <2> TAKE i \in 1 .. k
  <2>1. i \in 1 .. k - 1 + 1 /\ 1 + i - 1 = i
    OBVIOUS
  <2> QED
    BY <1>3, <2>1
<1>5. Len(SubSeq(s, 1, k)) = IF 1 <= k THEN k ELSE 0
  BY <1>3
<1> QED
  BY <1>4, <1>5

\* Bytes that begin other bytes are all of them, or say nothing.
LEMMA PrefixForm ==
  ASSUME NEW n \in Nat \ {0}, NEW w, NEW m \in Nat \ {0}, NEW z,
         IsPrefix(Bytes(n, w), Bytes(m, z))
  PROVE  (n = m /\ w = z) \/ w = <<"byte", n>>
<1> DEFINE s == Bytes(n, w)
           t == Bytes(m, z)
<1>1. /\ IsBytes(s) /\ Len(s) = n /\ s[n] = w
      /\ IsBytes(t) /\ Len(t) = m /\ t[m] = z
      /\ \A j \in 1 .. m - 1 : t[j] = <<"byte", j>>
  BY BytesForm
<1>2. Len(s) <= Len(t) /\ SubSeq(s, 1, Len(s)) = SubSeq(t, 1, Len(s))
  BY DEF IsPrefix
<1> HIDE DEF s, t
<1>3. n <= m /\ SubSeq(s, 1, n) = SubSeq(t, 1, n) /\ n \in 1 .. n /\ n \in Int /\ n <= n
  BY <1>1, <1>2
<1>4. SubSeq(s, 1, n)[n] = s[n] /\ SubSeq(t, 1, n)[n] = t[n]
  BY <1>1, <1>3, FirstBytes
<1>5. t[n] = w
  BY <1>1, <1>3, <1>4
<1>6. CASE n = m
  BY <1>1, <1>5, <1>6
<1>7. CASE n # m
  <2>1. n \in 1 .. m - 1
    BY <1>3, <1>7
  <2> QED
    BY <1>1, <1>5, <2>1
<1> QED
  BY <1>6, <1>7

\* A prefix of bytes says nothing.
LEMMA FrontForm ==
  ASSUME NEW n \in Nat \ {0}, NEW w, NEW m \in Nat \ {0}, NEW z,
         Bytes(n, w) = Front(Bytes(m, z))
  PROVE  w = <<"byte", n>>
<1> DEFINE s == Bytes(n, w)
           t == Bytes(m, z)
           k == m - 1
<1>1. /\ Len(s) = n /\ s[n] = w
      /\ IsBytes(t) /\ Len(t) = m
      /\ \A j \in 1 .. k : t[j] = <<"byte", j>>
  BY BytesForm
<1>2. k \in Int /\ k <= m /\ s = SubSeq(t, 1, k)
  BY <1>1 DEF Front
<1> HIDE DEF s, t, k
<1>3. Len(s) = (IF 1 <= k THEN k ELSE 0) /\ \A i \in 1 .. k : s[i] = t[i]
  BY <1>1, <1>2, FirstBytes
<1>4. k = n
  BY <1>1, <1>2, <1>3
<1>5. n \in 1 .. k
  BY <1>4
<1> QED
  BY <1>1, <1>3, <1>5

LEMMA TextLength ==
  ASSUME NEW t \in Plaintexts
  PROVE  Len(t) \in Nat /\ (t # <<>> => Len(t) > 0)
<1>1. t \in Seq(Range(t))
  BY ValueAssumption
<1> QED
  BY <1>1, LenProperties, EmptySeq

LEMMA SealedLength ==
  ASSUME NEW t \in Plaintexts, t # <<>>
  PROVE  Len(t) + Overhead \in Nat \ {0} /\ Len(t) \in Nat
BY TextLength, SizeAssumption

\* What begins bytes that were sealed is those bytes.
LEMMA SealedPrefix ==
  ASSUME NEW p, NEW q, NEW t \in Plaintexts, NEW u \in Plaintexts, t # <<>>, u # <<>>,
         IsPrefix(SealedBytes(p, t), SealedBytes(q, u))
  PROVE  p = q /\ t = u
<1> DEFINE n == Len(t) + Overhead
           m == Len(u) + Overhead
           w == <<"sealed", p, t>>
           z == <<"sealed", q, u>>
<1>1. n \in Nat \ {0} /\ m \in Nat \ {0}
  BY SealedLength
<1>2. IsPrefix(Bytes(n, w), Bytes(m, z))
  BY DEF SealedBytes
<1>3. w # <<"byte", n>>
  OBVIOUS
<1> HIDE DEF n, m, w, z
<1>4. w = z
  BY <1>1, <1>2, <1>3, PrefixForm
<1> QED
  BY <1>4 DEF w, z

LEMMA PrefixSelf ==
  ASSUME NEW s, IsBytes(s)
  PROVE  IsPrefix(s, s)
<1>1. Len(s) \in Nat
  BY LenProperties DEF IsBytes
<1> QED
  BY <1>1 DEF IsPrefix

\* The library opens what was sealed for the key, if there is room for it, and
\* nothing else.
LEMMA OwnAnswers ==
  ASSUME NEW d \in Private, NEW q \in Public, NEW t \in Sealable,
         NEW a \in Answers(d, SealedBytes(q, t), Offered)
  PROVE  /\ a \in {t, Failure}
         /\ a = t <=> Pub(d) = q /\ Len(t) <= Offered
<1> DEFINE of == {pt \in Plaintexts : /\ IsPrefix(SealedBytes(Pub(d), pt), SealedBytes(q, t))
                                      /\ pt # <<>> /\ Pub(d) # Infinity
                                      /\ Len(pt) <= Offered}
<1>1. a \in IF of # {} THEN of ELSE {Failure}
  BY DEF Answers
<1>2. t \in Plaintexts /\ t # <<>> /\ t # Failure
  BY ValueAssumption DEF Sealable, Texted, Plaintexts
<1>3. \A pt \in of : pt = t /\ Pub(d) = q /\ Len(pt) <= Offered
  BY <1>2, SealedPrefix
<1>4. ASSUME Pub(d) = q, Len(t) <= Offered PROVE t \in of
  <2>1. IsBytes(SealedBytes(q, t))
    BY <1>2, SealedLength, BytesForm DEF SealedBytes
  <2>2. IsPrefix(SealedBytes(Pub(d), t), SealedBytes(q, t))
    BY <1>4, <2>1, PrefixSelf
  <2>3. Pub(d) # Infinity
    BY <1>4, ValueAssumption
  <2> QED
    BY <1>2, <1>4, <2>2, <2>3
<1> HIDE DEF of
<1> QED
  BY <1>1, <1>2, <1>3, <1>4

\* Bytes that were misread are opened by no key.
LEMMA MisreadAnswers ==
  ASSUME NEW d \in Private, NEW b \in Misread, NEW a \in Answers(d, b, Offered)
  PROVE  a = Failure
<1> DEFINE of == {pt \in Plaintexts : /\ IsPrefix(SealedBytes(Pub(d), pt), b)
                                      /\ pt # <<>> /\ Pub(d) # Infinity
                                      /\ Len(pt) <= Offered}
<1>1. a \in IF of # {} THEN of ELSE {Failure}
  BY DEF Answers
<1>2. ASSUME NEW pt \in of PROVE FALSE
  <2> DEFINE n == Len(pt) + Overhead
             w == <<"sealed", Pub(d), pt>>
  <2>1. pt \in Plaintexts /\ pt # <<>> /\ IsPrefix(Bytes(n, w), b)
    BY <1>2 DEF SealedBytes
  <2>2. PICK m \in {SigLeast, SigRoom + 1} : b = Bytes(m, Unread)
    BY DEF Misread
  <2>3. n \in Nat \ {0} /\ m \in Nat \ {0}
    BY <2>1, SealedLength, SizeAssumption
  <2>4. w # <<"byte", n>>
    OBVIOUS
  <2>5. w # Unread
    BY <2>1, ValueAssumption
  <2> HIDE DEF n, w
  <2> QED
    BY <2>1, <2>2, <2>3, <2>4, <2>5, PrefixForm
<1> HIDE DEF of
<1> QED
  BY <1>1, <1>2

LEMMA CStringText ==
  ASSUME NEW t \in Texted
  PROVE  CString(t) = t
BY ArgumentAssumption DEF CString, Texted

LEMMA SignatureForm ==
  ASSUME NEW d, NEW t, NEW n \in SigSizes
  PROVE  /\ n \in Nat \ {0} /\ n \in SigLeast .. SigRoom
         /\ Len(SignatureBytes(d, t, n)) = n
         /\ SignatureBytes(d, t, n)[n] = <<"signature", d, t>>
<1>1. n \in Nat \ {0} /\ n \in SigLeast .. SigRoom
  BY SizeAssumption
<1> QED
  BY <1>1, BytesForm DEF SignatureBytes

\* Bytes that were misread are no signature.
LEMMA MisreadVerifies ==
  ASSUME NEW q, NEW t \in Texted, NEW b \in Misread
  PROVE  ~Verifies(q, t, b)
<1> SUFFICES ASSUME NEW d \in Private, NEW n \in SigSizes, b = SignatureBytes(d, t, n)
             PROVE  FALSE
  BY DEF Verifies
<1>1. PICK m \in {SigLeast, SigRoom + 1} : b = Bytes(m, Unread)
  BY DEF Misread
<1>2. m \in Nat \ {0}
  BY SizeAssumption
<1>3. Len(b) = m /\ b[m] = Unread
  BY <1>1, <1>2, BytesForm
<1>4. Len(b) = n /\ b[n] = <<"signature", d, t>>
  BY SignatureForm
<1>5. t \in Plaintexts
  BY DEF Texted, Plaintexts
<1> QED
  BY <1>3, <1>4, <1>5, ValueAssumption

\* A signature is of one key and one message, and what is left of a signature is none.
LEMMA SignatureOnly ==
  ASSUME NEW d, NEW t, NEW n \in SigSizes, NEW e, NEW u, NEW m \in SigSizes
  PROVE  /\ SignatureBytes(d, t, n) = SignatureBytes(e, u, m) => d = e /\ t = u
         /\ SignatureBytes(d, t, n) # Front(SignatureBytes(e, u, m))
<1>1. /\ n \in Nat \ {0} /\ m \in Nat \ {0}
      /\ Len(SignatureBytes(d, t, n)) = n /\ Len(SignatureBytes(e, u, m)) = m
      /\ SignatureBytes(d, t, n)[n] = <<"signature", d, t>>
      /\ SignatureBytes(e, u, m)[m] = <<"signature", e, u>>
  BY SignatureForm
<1>2. SignatureBytes(d, t, n) = SignatureBytes(e, u, m) => d = e /\ t = u
  <2> SUFFICES ASSUME SignatureBytes(d, t, n) = SignatureBytes(e, u, m) PROVE d = e /\ t = u
    OBVIOUS
  <2>1. <<"signature", d, t>> = <<"signature", e, u>>
    BY <1>1
  <2> QED
    BY <2>1
<1>3. ASSUME SignatureBytes(d, t, n) = Front(SignatureBytes(e, u, m)) PROVE FALSE
  <2>1. <<"signature", d, t>> = <<"byte", n>>
    BY <1>1, <1>3, FrontForm DEF SignatureBytes
  <2> QED
    BY <2>1
<1> QED
  BY <1>2, <1>3

-----------------------------------------------------------------------------
(* Going on and leaving *)

LEMMA SameHistory ==
  ASSUME HistoryInv, log' = log
  PROVE  HistoryInv' /\ GivenSignatures' = GivenSignatures
<1>1. GivenSignatures' = GivenSignatures
  BY DEF GivenSignatures
<1>2. LogShape' /\ SealedInv' /\ OpenedInv'
  BY DEF HistoryInv, LogShape, SealedInv, OpenedInv
<1>3. SignedInv' /\ VerifiedInv'
  BY <1>1 DEF HistoryInv, SignedInv, VerifiedInv
<1> QED
  BY <1>1, <1>2, <1>3 DEF HistoryInv

\* The arguments do not change while a function works on them.
SameArguments ==
  /\ call'.fn = call.fn /\ call'.key = call.key /\ call'.data = call.data
  /\ call'.sig = call.sig /\ call'.id = call.id

LEMMA GoFacts ==
  ASSUME IInv, todo # <<>>, NEW new, NEW x, Go(new, x)
  PROVE  /\ todo' = Tail(todo) /\ SameArguments /\ call'.input = x /\ heap' = heap \cup new
         /\ Sane(call.fn) /\ Runs(call.fn, Head(todo)) /\ Head(todo) \in StepNames
         /\ Head(todo) \notin Ends =>
              /\ todo' # <<>>
              /\ Follows(call.fn, Head(todo), Head(todo')) /\ Runs(call.fn, Head(todo'))
         /\ outcome'.kind = "running"
         /\ FrameInv' /\ HistoryInv'
<1>1. /\ Sane(call.fn) /\ Path(call.fn, todo) /\ outcome.kind = "running"
      /\ call = [fn |-> call.fn, key |-> call.key, data |-> call.data, sig |-> call.sig,
                 id |-> call.id, input |-> call.input]
  BY DEF IInv, FrameInv
<1>2. /\ todo' = Tail(todo) /\ outcome' = outcome /\ log' = log /\ heap' = heap \cup new
      /\ call' = [call EXCEPT !.input = x]
  BY DEF Go
<1>3. /\ SameArguments /\ call'.input = x
      /\ call' = [fn |-> call'.fn, key |-> call'.key, data |-> call'.data, sig |-> call'.sig,
                  id |-> call'.id, input |-> call'.input]
  BY <1>1, <1>2 DEF SameArguments
<1>4. /\ Path(call.fn, Tail(todo)) /\ Runs(call.fn, Head(todo)) /\ Head(todo) \in StepNames
      /\ Head(todo) \notin Ends => Tail(todo) # <<>>
      /\ Tail(todo) # <<>> =>
           Follows(call.fn, Head(todo), Head(Tail(todo))) /\ Runs(call.fn, Head(Tail(todo)))
  BY <1>1, PathTail
<1>5. HistoryInv' /\ GivenSignatures' = GivenSignatures
  BY <1>2, SameHistory DEF IInv
<1>6. FrameInv'
  BY <1>1, <1>2, <1>3, <1>4, <1>5 DEF IInv, FrameInv, SameArguments
<1> QED
  BY <1>1, <1>2, <1>3, <1>4, <1>5, <1>6

\* What is left to show of a step that goes on.
LEMMA GoInv ==
  ASSUME IInv, todo # <<>>, NEW new, NEW x, Go(new, x), KeyInv', InputInv',
         misused' = FALSE,
         todo' # <<>> /\ heap' = HeldAt(call.fn, call.id, Head(todo')),
         priv_key' \in Private \cup {Junk},
         pub_key' \in Public \cup {Pub(d) : d \in Private} \cup {Junk}
  PROVE  IInv'
<1>1. SameArguments /\ outcome'.kind = "running" /\ FrameInv' /\ HistoryInv'
  BY GoFacts
<1>2. BlocksInv'
  BY <1>1 DEF BlocksInv, SameArguments
<1>3. TypesInv'
  BY <1>1 DEF TypesInv
<1> QED
  BY <1>1, <1>2, <1>3 DEF IInv

\* What is left to show of a way out: it frees what is held, but for the elements
\* of the array that is returned.
LEMMA LeaveKeeping ==
  ASSUME IInv, NEW kind \in {"value", "error"}, NEW value, NEW new, NEW S,
         Leave(kind, value, new, S), misused' = FALSE,
         (heap \cup new) \ S =
           IF kind = "value" /\ call.fn.kind = "generate" THEN Elements ELSE {},
         priv_key' = priv_key, pub_key' = pub_key, HistoryInv'
  PROVE  IInv'
<1>1. todo' = <<>> /\ heap' = (heap \cup new) \ S
      /\ outcome' = [kind |-> kind, value |-> value, fn |-> call.fn.kind]
  BY DEF Leave, Fn
<1>2. \A h : ~At(h)'
  BY <1>1 DEF At
<1>3. FrameInv' /\ KeyInv'
  BY <1>1, <1>2 DEF FrameInv, KeyInv
<1>6. BlocksInv'
  <2>1. Answered("generate")' <=> kind = "value" /\ call.fn.kind = "generate"
    BY <1>1 DEF Answered
  <2> QED
    BY <1>1, <2>1 DEF BlocksInv
<1>4. InputInv'
  BY <1>1, <1>2 DEF InputInv
<1>5. TypesInv'
  BY <1>1 DEF IInv, TypesInv
<1> QED
  BY <1>3, <1>4, <1>5, <1>6 DEF IInv

LEMMA LeaveInv ==
  ASSUME IInv, NEW kind \in {"value", "error"}, NEW value, NEW new, NEW S,
         Leave(kind, value, new, S), S = heap \cup new, misused' = FALSE,
         kind = "error" \/ call.fn.kind # "generate",
         priv_key' = priv_key, pub_key' = pub_key, HistoryInv'
  PROVE  IInv'
<1>1. (heap \cup new) \ S =
        IF kind = "value" /\ call.fn.kind = "generate" THEN Elements ELSE {}
  OBVIOUS
<1> QED
  BY <1>1, LeaveKeeping

\* An ereport where nothing is held.
LEMMA RefuseInv ==
  ASSUME IInv, Refuse, heap = {}, priv_key' = priv_key, pub_key' = pub_key
  PROVE  IInv'
<1>1. Leave("error", Null, {}, {}) /\ misused' = misused /\ log' = log
  BY DEF Refuse
<1>2. misused' = FALSE /\ HistoryInv'
  BY <1>1, SameHistory DEF IInv, BlocksInv
<1>3. {} = heap \cup {}
  OBVIOUS
<1> QED
  BY <1>1, <1>2, <1>3, LeaveInv

\* A step that frees, on its way out, what it has made and nothing else is held.
LEMMA LeaveNothing ==
  ASSUME IInv, NEW S, heap = {}, Leave("error", Null, S, S), Freed(S, S, FALSE), log' = log,
         UNCHANGED Keys
  PROVE  IInv'
<1>1. misused = FALSE /\ HistoryInv'
  BY SameHistory DEF IInv, BlocksInv
<1>2. S = heap \cup S
  OBVIOUS
<1>3. misused' = (misused \/ FALSE \/ ~ S \subseteq heap \cup S)
  BY DEF Freed
<1>4. misused' = FALSE
  BY <1>1, <1>2, <1>3
<1>5. priv_key' = priv_key /\ pub_key' = pub_key
  BY DEF Keys
<1> QED
  BY <1>1, <1>2, <1>4, <1>5, LeaveInv

-----------------------------------------------------------------------------
(* Where a function is *)

LEMMA AtFacts ==
  ASSUME IInv, NEW h, At(h)
  PROVE  /\ todo # <<>> /\ Head(todo) = h /\ \A g : At(g) <=> g = h
         /\ heap = HeldAt(call.fn, call.id, h) /\ misused = FALSE
         /\ Sane(call.fn) /\ Runs(call.fn, h)
         /\ priv_key \in Private \cup {Junk}
         /\ pub_key \in Public \cup {Pub(d) : d \in Private} \cup {Junk}
<1>1. todo # <<>> /\ Head(todo) = h
  BY DEF At
<1>2. Runs(call.fn, h) /\ Sane(call.fn)
  BY <1>1, PathTail DEF IInv, FrameInv
<1>3. heap = HeldAt(call.fn, call.id, h) /\ misused = FALSE
  BY <1>1 DEF IInv, BlocksInv
<1> QED
  BY <1>1, <1>2, <1>3 DEF At, IInv, TypesInv

\* The step that is come to.
LEMMA AtNext ==
  ASSUME NEW h, todo' # <<>>, Head(todo') = h
  PROVE  \A g : At(g)' <=> g = h
BY DEF At

LEMMA PrivateRead ==
  ASSUME IInv, NEW h, At(h), h # "private", ReadsPrivate(call.fn)
  PROVE  priv_key = GetPrivateKey(call.key) /\ priv_key \in Private
<1>1. todo # <<>> /\ ~At("private")
  BY AtFacts
<1> QED
  BY <1>1 DEF IInv, KeyInv

LEMMA PublicRead ==
  ASSUME IInv, NEW h, At(h), h # "public", ReadsPublic(call.fn)
  PROVE  pub_key = GetPublicKey(call.key) /\ pub_key \in Public
<1>1. todo # <<>> /\ ~At("public")
  BY AtFacts
<1> QED
  BY <1>1 DEF IInv, KeyInv

\* The steps that build a key, and those that fetch what is worked on.
Builds == {"generate", "read_private", "read_public", "answer", "load", "derive"}
Fetches == {"plain", "hex", "base64", "bytea", "sig_hex", "length", "message", "id"}

LEMMA Apart ==
  ASSUME NEW f, Sane(f)
  PROVE  /\ \A h \in Builds : Runs(f, h) => f.kind \in {"generate", "pubkey"}
         /\ \A h \in Fetches \cup {"seal", "open", "sign", "verify"} :
              /\ Runs(f, h) => f.kind \notin {"generate", "pubkey"}
              /\ h \notin Builds /\ h \notin {"private", "public"}
         /\ ~(ReadsPrivate(f) /\ ReadsPublic(f))
BY DEF Sane, Builds, Fetches, Runs, ReadsPrivate, ReadsPublic

\* Fetching leaves the keys that were read.
LEMMA KeysKept ==
  ASSUME IInv, NEW h \in Fetches, At(h), NEW new, NEW x, Go(new, x), UNCHANGED <<ctx, Keys>>,
         todo' # <<>>, NEW g \in Fetches \cup {"seal", "open", "sign", "verify"}, Head(todo') = g
  PROVE  KeyInv'
<1>1. /\ todo # <<>> /\ Sane(call.fn) /\ Runs(call.fn, h)
  BY AtFacts
<1>2. SameArguments
  BY <1>1, GoFacts
<1>3. /\ call.fn.kind \notin {"generate", "pubkey"} /\ h \notin {"private", "public"}
      /\ g \notin Builds
  BY <1>1, Apart
<1>4. ctx' = ctx /\ priv_key' = priv_key /\ pub_key' = pub_key
  BY DEF Keys
<1>5. /\ ReadsPrivate(call.fn) => priv_key = GetPrivateKey(call.key) /\ priv_key \in Private
      /\ ReadsPublic(call.fn) => pub_key = GetPublicKey(call.key) /\ pub_key \in Public
  BY <1>3, PrivateRead, PublicRead
<1>6. /\ ~At("derive")' /\ ~At("read_private")' /\ ~At("read_public")' /\ ~At("answer")'
      /\ ~At("generate")'
  BY <1>3, AtNext DEF Builds
<1> QED
  BY <1>2, <1>3, <1>4, <1>5, <1>6 DEF KeyInv, SameArguments

-----------------------------------------------------------------------------
(* Reading and making the keys *)

LEMMA GoneOn ==
  ASSUME IInv, NEW h \in StepNames \ Ends, At(h), NEW new, NEW x, Go(new, x)
  PROVE  /\ todo' # <<>> /\ Follows(call.fn, h, Head(todo')) /\ Runs(call.fn, Head(todo'))
         /\ SameArguments /\ call'.input = x /\ heap' = heap \cup new
<1>1. todo # <<>> /\ Head(todo) = h
  BY AtFacts
<1> QED
  BY <1>1, GoFacts

\* What an array holds before it is written is no private key.
LEMMA JunkNoKey == Junk \notin Private
<1> SUFFICES ASSUME Junk \in Private PROVE FALSE
  OBVIOUS
<1>1. Junk \notin Generated \cup {Zero} \cup {t.val : t \in PrivateArgs \ {Null}}
  BY ValueAssumption
<1>2. PICK t \in PrivateArgs \ {Null} : Junk = GetPrivateKey(t) /\ Junk # Failure
  BY <1>1 DEF Private
<1>3. \/ GetPrivateKey(t) = t.val
      \/ GetPrivateKey(t) = HexBytes(t)
      \/ GetPrivateKey(t) = Failure
  BY DEF GetPrivateKey
<1>4. HexBytes(t) \in {Zero, t.val}
  BY DEF HexBytes
<1> QED
  BY <1>1, <1>2, <1>3, <1>4

LEMMA PrivateValue ==
  ASSUME NEW t \in PrivateArgs \ {Null}, GetPrivateKey(t) # Failure
  PROVE  GetPrivateKey(t) \in Private
BY DEF Private

LEMMA PublicValue ==
  ASSUME NEW t \in PublicArgs \ {Null}, GetPublicKey(t) # Failure
  PROVE  GetPublicKey(t) \in Public
BY DEF Public

LEMMA ReadPrivateArgStep ==
  ASSUME IInv, ReadPrivateArg
  PROVE  IInv'
<1> DEFINE d == GetPrivateKey(call.key)
           g == Head(todo')
<1>1. At("private") /\ ctx' = ctx
  BY DEF ReadPrivateArg
<1>2. /\ todo # <<>> /\ Sane(call.fn) /\ ReadsPrivate(call.fn) /\ misused = FALSE
      /\ priv_key \in Private \cup {Junk}
      /\ pub_key \in Public \cup {Pub(k) : k \in Private} \cup {Junk}
  BY <1>1, AtFacts DEF Runs
<1>3. heap = {}
  <2>1. heap = HeldAt(call.fn, call.id, "private")
    BY <1>1, AtFacts
  <2>2. HeldAt(call.fn, call.id, "private") = {}
    BY DEF HeldAt
  <2> QED
    BY <2>1, <2>2
<1>4. CASE d = Failure
  <2>1. /\ Leave("error", Null, KeyText, KeyText) /\ Freed(KeyText, KeyText, FALSE)
        /\ log' = log /\ UNCHANGED Keys
    BY <1>4 DEF ReadPrivateArg, Keys
  <2> QED
    BY <1>3, <2>1, LeaveNothing
<1>5. CASE d # Failure
  <2>1. priv_key' = d /\ pub_key' = pub_key /\ misused' = FALSE /\ Go({}, <<>>)
    <3>1. KeyText \subseteq heap \cup KeyText
      OBVIOUS
    <3> QED
      BY <1>2, <1>5, <3>1 DEF ReadPrivateArg, Freed
  <2>2. d \in Private
    BY <1>2, <1>5, PrivateValue DEF IInv, FrameInv
  <2>3. "private" \in StepNames \ Ends
    BY DEF StepNames, Ends
  <2>4. todo' # <<>> /\ Follows(call.fn, "private", g) /\ SameArguments /\ heap' = {}
    BY <1>1, <1>3, <2>1, <2>3, GoneOn
  <2>5. g \in IF call.fn.kind = "pubkey" THEN {"load"}
              ELSE IF call.fn.kind = "sign" THEN {"message"} ELSE {"hex", "base64", "bytea"}
    BY <2>4 DEF Follows
  <2>6. \A k : At(k)' <=> k = g
    BY <2>4, AtNext
  <2>7. ~ReadsPublic(call.fn) /\ call.fn.kind \notin {"generate", "verify"}
    BY <1>2, Apart DEF ReadsPrivate
  <2>8. call.fn.kind = "pubkey" => pub_key = Junk
    <3>1. ~At("answer")
      BY <1>1 DEF At
    <3> QED
      BY <1>2, <3>1 DEF IInv, KeyInv
  <2> HIDE DEF d, g
  <2>9. priv_key' = GetPrivateKey(call.key)
    BY <2>1 DEF d
  <2>10. KeyInv'
    BY <2>1, <2>2, <2>4, <2>5, <2>6, <2>7, <2>8, <2>9 DEF KeyInv, SameArguments
  <2>11. InputInv'
    BY <2>4, <2>5, <2>6, <2>7 DEF InputInv, SameArguments
  <2>12. HeldAt(call.fn, call.id, g) = {}
    BY <2>5, <2>7 DEF HeldAt
  <2>13. todo' # <<>> /\ heap' = HeldAt(call.fn, call.id, Head(todo'))
    BY <2>4, <2>12 DEF g
  <2> QED
    BY <1>2, <2>1, <2>2, <2>10, <2>11, <2>13, GoInv
<1> QED
  BY <1>4, <1>5

LEMMA ReadPublicArgStep ==
  ASSUME IInv, ReadPublicArg
  PROVE  IInv'
<1> DEFINE q == GetPublicKey(call.key)
           g == Head(todo')
<1>1. At("public") /\ ctx' = ctx
  BY DEF ReadPublicArg
<1>2. /\ todo # <<>> /\ Sane(call.fn) /\ ReadsPublic(call.fn) /\ misused = FALSE
      /\ priv_key \in Private \cup {Junk}
      /\ pub_key \in Public \cup {Pub(k) : k \in Private} \cup {Junk}
  BY <1>1, AtFacts DEF Runs
<1>3. heap = {}
  <2>1. heap = HeldAt(call.fn, call.id, "public")
    BY <1>1, AtFacts
  <2>2. HeldAt(call.fn, call.id, "public") = {}
    BY DEF HeldAt
  <2> QED
    BY <2>1, <2>2
<1>4. CASE q = Failure
  <2>1. /\ Leave("error", Null, KeyText, KeyText) /\ Freed(KeyText, KeyText, FALSE)
        /\ log' = log /\ UNCHANGED Keys
    BY <1>4 DEF ReadPublicArg, Keys
  <2> QED
    BY <1>3, <2>1, LeaveNothing
<1>5. CASE q # Failure
  <2>1. pub_key' = q /\ priv_key' = priv_key /\ misused' = FALSE /\ Go({}, <<>>)
    <3>1. KeyText \subseteq heap \cup KeyText
      OBVIOUS
    <3> QED
      BY <1>2, <1>5, <3>1 DEF ReadPublicArg, Freed
  <2>2. q \in Public
    BY <1>2, <1>5, PublicValue DEF IInv, FrameInv
  <2>3. "public" \in StepNames \ Ends
    BY DEF StepNames, Ends
  <2>4. todo' # <<>> /\ Follows(call.fn, "public", g) /\ SameArguments /\ heap' = {}
    BY <1>1, <1>3, <2>1, <2>3, GoneOn
  <2>5. g \in {"plain", "bytea", "sig_hex"}
    BY <2>4 DEF Follows
  <2>6. \A k : At(k)' <=> k = g
    BY <2>4, AtNext
  <2>7. ~ReadsPrivate(call.fn) /\ call.fn.kind \notin {"generate", "pubkey"}
    BY <1>2, Apart DEF ReadsPublic
  <2> HIDE DEF q, g
  <2>8. pub_key' = GetPublicKey(call.key)
    BY <2>1 DEF q
  <2>9. KeyInv'
    BY <2>1, <2>2, <2>4, <2>5, <2>6, <2>7, <2>8 DEF KeyInv, SameArguments
  <2>10. InputInv'
    BY <2>4, <2>5, <2>6 DEF InputInv, SameArguments
  <2>11. HeldAt(call.fn, call.id, g) = {}
    BY <2>5 DEF HeldAt
  <2>12. todo' # <<>> /\ heap' = HeldAt(call.fn, call.id, Head(todo'))
    BY <2>4, <2>11 DEF g
  <2> QED
    BY <1>2, <2>1, <2>2, <2>9, <2>10, <2>12, GoInv
<1> QED
  BY <1>4, <1>5

\* Where a function builds a key, the arrays hold what it wrote.
LEMMA Building ==
  ASSUME IInv, NEW h \in Builds, At(h)
  PROVE  /\ todo # <<>> /\ misused = FALSE
         /\ call.fn.kind \in {"generate", "pubkey"} /\ ~ReadsPublic(call.fn)
         /\ ReadsPrivate(call.fn) <=> call.fn.kind = "pubkey"
         /\ h \in {"generate", "read_private"} => call.fn.kind = "generate"
         /\ h \in {"load", "derive"} => call.fn.kind = "pubkey"
         /\ ReadsPrivate(call.fn) =>
              priv_key = GetPrivateKey(call.key) /\ priv_key \in Private
         /\ h # "answer" => pub_key = Junk
         /\ h \in {"generate", "read_private"} => priv_key = Junk
         /\ priv_key \in Private \cup {Junk}
         /\ pub_key \in Public \cup {Pub(k) : k \in Private} \cup {Junk}
         /\ heap = IF h \in {"generate", "load"} THEN {} ELSE {"ctx"}
<1>1. /\ todo # <<>> /\ misused = FALSE /\ Sane(call.fn) /\ Runs(call.fn, h)
      /\ priv_key \in Private \cup {Junk}
      /\ pub_key \in Public \cup {Pub(k) : k \in Private} \cup {Junk}
      /\ heap = HeldAt(call.fn, call.id, h)
  BY AtFacts
<1>2. call.fn.kind \in {"generate", "pubkey"}
  BY <1>1, Apart
<1>3. ~ReadsPublic(call.fn) /\ (ReadsPrivate(call.fn) <=> call.fn.kind = "pubkey")
  BY <1>2 DEF ReadsPublic, ReadsPrivate
<1>4. ReadsPrivate(call.fn) => priv_key = GetPrivateKey(call.key) /\ priv_key \in Private
  <2>1. h # "private"
    BY DEF Builds
  <2> QED
    BY <2>1, PrivateRead
<1>5. h # "answer" => pub_key = Junk
  <2>1. h # "answer" => ~At("answer")
    BY AtFacts
  <2> QED
    BY <1>1, <1>2, <2>1 DEF IInv, KeyInv
<1>6. HeldAt(call.fn, call.id, h) = IF h \in {"generate", "load"} THEN {} ELSE {"ctx"}
  BY <1>2 DEF HeldAt, Builds
<1>7. /\ h \in {"generate", "read_private"} => call.fn.kind = "generate"
      /\ h \in {"load", "derive"} => call.fn.kind = "pubkey"
  BY <1>1 DEF Runs
<1>8. h \in {"generate", "read_private"} => priv_key = Junk
  BY DEF IInv, KeyInv
<1> QED
  BY <1>1, <1>2, <1>3, <1>4, <1>5, <1>6, <1>7, <1>8

\* What is left to show of a step that builds a key.
LEMMA Built ==
  ASSUME IInv, NEW h \in Builds \ {"answer"}, At(h), NEW new, Go(new, <<>>),
         new \subseteq {"ctx"}, h \in {"generate", "load"} => new = {"ctx"}, misused' = misused,
         ctx' = [priv |-> ctx'.priv, pub |-> ctx'.pub], ctx'.priv \in Private,
         ctx'.pub \in {Pub(ctx'.priv), Null},
         h # "generate" => priv_key' = ctx'.priv \/ (call.fn.kind = "generate" /\ priv_key' = Junk),
         call.fn.kind = "pubkey" \/ h = "generate" => priv_key' = priv_key,
         h # "read_public" => pub_key' = pub_key,
         pub_key' \in {Junk, Pub(ctx'.priv)}
  PROVE  IInv'
<1> DEFINE g == Head(todo')
<1>1. /\ todo # <<>> /\ misused' = FALSE
      /\ call.fn.kind \in {"generate", "pubkey"} /\ ~ReadsPublic(call.fn)
      /\ ReadsPrivate(call.fn) <=> call.fn.kind = "pubkey"
      /\ ReadsPrivate(call.fn) => priv_key = GetPrivateKey(call.key) /\ priv_key \in Private
      /\ pub_key = Junk /\ priv_key \in Private \cup {Junk}
      /\ heap = IF h \in {"generate", "load"} THEN {} ELSE {"ctx"}
      /\ h = "generate" => priv_key = Junk
      /\ h \in {"load", "derive"} => call.fn.kind = "pubkey"
  BY Building
<1>2. h \in StepNames \ Ends
  BY DEF Builds, StepNames, Ends
<1>3. todo' # <<>> /\ Follows(call.fn, h, g) /\ SameArguments /\ heap' = {"ctx"}
  BY <1>1, <1>2, GoneOn
<1>4. /\ g \in {"read_private", "derive", "read_public", "answer"}
      /\ g = "answer" <=> h = "read_public"
      /\ g = "read_private" <=> h = "generate"
      /\ g = "derive" => h = "load"
  BY <1>3 DEF Follows, Builds
<1>5. \A k : At(k)' <=> k = g
  BY <1>3, AtNext
<1> HIDE DEF g
<1>6. KeyInv'
  <2>1. ReadsPrivate(call.fn) => priv_key' = GetPrivateKey(call.key) /\ priv_key' \in Private
    BY <1>1
  <2>2. /\ g # "read_private" =>
             priv_key' = ctx'.priv \/ (call.fn.kind = "generate" /\ priv_key' = Junk)
        /\ g = "derive" => priv_key' = ctx'.priv
        /\ g = "read_private" => priv_key' = Junk
    BY <1>1, <1>4
  <2>3. g # "answer" => pub_key' = Junk
    BY <1>1, <1>4
  <2> QED
    BY <1>1, <1>3, <1>4, <1>5, <2>1, <2>2, <2>3 DEF KeyInv, SameArguments
<1>7. InputInv'
  BY <1>1, <1>3, <1>4, <1>5 DEF InputInv, SameArguments
<1>8. HeldAt(call.fn, call.id, g) = {"ctx"}
  BY <1>1, <1>4 DEF HeldAt
<1>9. todo' # <<>> /\ heap' = HeldAt(call.fn, call.id, Head(todo'))
  BY <1>3, <1>8 DEF g
<1>10. /\ priv_key' \in Private \cup {Junk}
       /\ pub_key' \in Public \cup {Pub(d) : d \in Private} \cup {Junk}
  BY <1>1
<1> QED
  BY <1>1, <1>6, <1>7, <1>9, <1>10, GoInv

LEMMA GenerateKeypairStep ==
  ASSUME IInv, GenerateKeypair
  PROVE  IInv'
<1>1. At("generate") /\ priv_key' = priv_key /\ pub_key' = pub_key
  BY DEF GenerateKeypair, Keys
<1>2. "generate" \in Builds \ {"answer"}
  BY DEF Builds
<1>3. heap = {} /\ pub_key = Junk
  BY <1>1, <1>2, Building
<1>4. ASSUME NEW d \in Generated, ctx' = [priv |-> d, pub |-> Pub(d)],
             Go({"ctx"}, <<>>), misused' = misused
      PROVE  IInv'
  <2>1. d \in Private
    BY DEF Private
  <2>2. /\ ctx' = [priv |-> ctx'.priv, pub |-> ctx'.pub] /\ ctx'.priv \in Private
        /\ ctx'.pub \in {Pub(ctx'.priv), Null}
    BY <1>4, <2>1
  <2> QED
    BY <1>1, <1>2, <1>3, <1>4, <2>2, Built
<1>5. CASE Refuse
  BY <1>1, <1>3, <1>5, RefuseInv
<1> QED
  BY <1>4, <1>5 DEF GenerateKeypair

LEMMA LoadStep ==
  ASSUME IInv, Load
  PROVE  IInv'
<1>1. At("load") /\ priv_key' = priv_key /\ pub_key' = pub_key
  BY DEF Load, Keys
<1>2. "load" \in Builds \ {"answer"}
  BY DEF Builds
<1>3. heap = {} /\ pub_key = Junk /\ priv_key \in Private
  BY <1>1, <1>2, Building
<1>4. ASSUME ctx' = [priv |-> priv_key, pub |-> Pub(priv_key)],
             Go({"ctx"}, <<>>), misused' = misused
      PROVE  IInv'
  <2>1. /\ ctx' = [priv |-> ctx'.priv, pub |-> ctx'.pub] /\ ctx'.priv \in Private
        /\ ctx'.pub \in {Pub(ctx'.priv), Null} /\ priv_key' = ctx'.priv
    BY <1>1, <1>3, <1>4
  <2> QED
    BY <1>1, <1>2, <1>3, <1>4, <2>1, Built
<1>5. CASE Refuse
  BY <1>1, <1>3, <1>5, RefuseInv
<1> QED
  BY <1>4, <1>5 DEF Load

\* The key in the context, while it is used.
LEMMA InContext ==
  ASSUME IInv, NEW h \in {"derive", "read_private", "read_public", "answer"}, At(h)
  PROVE  /\ ctx = [priv |-> ctx.priv, pub |-> ctx.pub]
         /\ ctx.priv \in Private /\ ctx.pub \in {Pub(ctx.priv), Null}
         /\ h # "read_private" =>
              priv_key = ctx.priv \/ (call.fn.kind = "generate" /\ priv_key = Junk)
         /\ h = "derive" => priv_key = ctx.priv
         /\ h = "answer" => pub_key \in {Pub(ctx.priv), Junk}
BY DEF IInv, KeyInv

LEMMA DeriveStep ==
  ASSUME IInv, Derive
  PROVE  IInv'
<1>1. /\ At("derive") /\ priv_key' = priv_key /\ pub_key' = pub_key /\ misused' = misused
      /\ ctx' \in {ctx, [ctx EXCEPT !.pub = Null]} /\ Go({}, <<>>)
  BY DEF Derive, Keys
<1>2. "derive" \in Builds \ {"answer"}
  BY DEF Builds
<1>3. pub_key = Junk
  BY <1>1, <1>2, Building
<1>4. /\ ctx = [priv |-> ctx.priv, pub |-> ctx.pub]
      /\ ctx.priv \in Private /\ ctx.pub \in {Pub(ctx.priv), Null} /\ priv_key = ctx.priv
  BY <1>1, InContext
<1>5. /\ ctx' = [priv |-> ctx'.priv, pub |-> ctx'.pub] /\ ctx'.priv = ctx.priv
      /\ ctx'.pub \in {ctx.pub, Null}
  BY <1>1, <1>4
<1>6. ctx'.priv \in Private /\ ctx'.pub \in {Pub(ctx'.priv), Null} /\ priv_key' = ctx'.priv
  BY <1>1, <1>4, <1>5
<1> QED
  BY <1>1, <1>2, <1>3, <1>5, <1>6, Built

LEMMA ReadPrivateStep ==
  ASSUME IInv, ReadPrivate
  PROVE  IInv'
<1>1. /\ At("read_private") /\ priv_key' \in {ctx.priv, priv_key} /\ pub_key' = pub_key
      /\ misused' = misused /\ ctx' = ctx /\ Go({}, <<>>)
  BY DEF ReadPrivate
<1>2. "read_private" \in Builds \ {"answer"}
  BY DEF Builds
<1>3. pub_key = Junk /\ priv_key = Junk /\ call.fn.kind = "generate"
  BY <1>1, <1>2, Building
<1>4. /\ ctx = [priv |-> ctx.priv, pub |-> ctx.pub]
      /\ ctx.priv \in Private /\ ctx.pub \in {Pub(ctx.priv), Null}
  BY <1>1, InContext
<1>5. /\ ctx' = [priv |-> ctx'.priv, pub |-> ctx'.pub] /\ ctx'.priv \in Private
      /\ ctx'.pub \in {Pub(ctx'.priv), Null}
      /\ priv_key' = ctx'.priv \/ (call.fn.kind = "generate" /\ priv_key' = Junk)
  BY <1>1, <1>3, <1>4
<1> QED
  BY <1>1, <1>2, <1>3, <1>5, Built

LEMMA ReadPublicStep ==
  ASSUME IInv, ReadPublic
  PROVE  IInv'
<1>1. /\ At("read_public") /\ priv_key' = priv_key /\ misused' = misused /\ ctx' = ctx
      /\ Go({}, <<>>)
      /\ (ctx.pub \notin {Null, Infinity} /\ pub_key' = ctx.pub) \/ pub_key' = pub_key
  BY DEF ReadPublic
<1>2. "read_public" \in Builds \ {"answer"}
  BY DEF Builds
<1>3. pub_key = Junk
  BY <1>1, <1>2, Building
<1>4. /\ ctx = [priv |-> ctx.priv, pub |-> ctx.pub]
      /\ priv_key = ctx.priv \/ (call.fn.kind = "generate" /\ priv_key = Junk)
      /\ ctx.priv \in Private /\ ctx.pub \in {Pub(ctx.priv), Null}
  BY <1>1, InContext
<1>5. /\ ctx' = [priv |-> ctx'.priv, pub |-> ctx'.pub] /\ ctx'.priv \in Private
      /\ ctx'.pub \in {Pub(ctx'.priv), Null}
      /\ priv_key' = ctx'.priv \/ (call.fn.kind = "generate" /\ priv_key' = Junk)
      /\ pub_key' \in {Junk, Pub(ctx'.priv)}
  BY <1>1, <1>3, <1>4
<1> QED
  BY <1>1, <1>2, <1>5, Built

\* The array of sm2_free's frame and the texts go.
LEMMA AnswerStep ==
  ASSUME IInv, Answer
  PROVE  IInv'
<1> DEFINE hex == IF Fn.kind = "generate" THEN {"priv_hex", "pub_hex"} ELSE {"pub_hex"}
           left == IF Fn.kind = "generate" THEN Elements ELSE {}
           new == hex \cup left
           value == [priv |-> priv_key, pub |-> pub_key]
<1>1. /\ At("answer") /\ priv_key' = priv_key /\ pub_key' = pub_key /\ log' = log
      /\ Leave("value", value, new, hex \cup {"ctx"})
      /\ misused' = (misused \/ FALSE \/ ~ hex \cup {"ctx"} \subseteq heap \cup new)
  BY DEF Answer, Keys, Freed
<1>2. "answer" \in Builds
  BY DEF Builds
<1>3. heap = {"ctx"} /\ misused = FALSE
  BY <1>1, <1>2, Building
<1>4. HistoryInv'
  BY <1>1, SameHistory DEF IInv
<1>5. hex \subseteq {"priv_hex", "pub_hex"} /\ left \subseteq {"result[0]", "result[1]"}
  BY DEF Elements
<1>6. left = IF "value" = "value" /\ call.fn.kind = "generate" THEN Elements ELSE {}
  BY DEF Fn
<1> HIDE DEF hex, left, value
<1>7. (heap \cup new) \ (hex \cup {"ctx"}) = left /\ misused' = FALSE
  BY <1>1, <1>3, <1>5
<1>8. (heap \cup new) \ (hex \cup {"ctx"}) =
        IF "value" = "value" /\ call.fn.kind = "generate" THEN Elements ELSE {}
  BY <1>6, <1>7
<1> HIDE DEF new
<1> QED
  BY <1>1, <1>4, <1>7, <1>8, LeaveKeeping

-----------------------------------------------------------------------------
(* Fetching what is worked on *)

\* What holds of the arguments where they are fetched.
LEMMA Arguments ==
  ASSUME IInv, NEW h, At(h)
  PROVE  /\ call.fn.kind \in {"encrypt", "sign", "verify"} => call.data \in Texted
         /\ call.fn.kind = "decrypt" => IsDatum(call.fn, call.data)
         /\ call.fn.kind = "verify" =>
              IsDatum(call.fn, call.sig) /\ call.sig.bytes \in GivenSignatures
<1>1. todo # <<>>
  BY DEF At
<1> QED
  BY <1>1 DEF IInv, FrameInv

\* What is left to show of a step that fetches.
LEMMA FetchInv ==
  ASSUME IInv, NEW h \in Fetches, At(h), NEW new, NEW x, Go(new, x),
         UNCHANGED <<ctx, Keys>>, misused' = FALSE,
         NEW g \in Fetches \cup {"seal", "open", "sign", "verify"}, Head(todo') = g,
         heap \cup new = HeldAt(call.fn, call.id, g),
         g = "seal" => x = call.data,
         g = "open" => x \in IF call.data.short THEN Misread ELSE {call.data.bytes},
         g = "length" \/ (call.fn.kind = "verify" /\ g \in {"message", "id", "verify"}) =>
           x \in IF call.sig.short THEN Misread ELSE {call.sig.bytes},
         call.fn.kind = "verify" /\ g \in {"message", "id", "verify"} => LengthFits(x)
  PROVE  IInv'
<1>1. todo # <<>> /\ priv_key' \in Private \cup {Junk}
      /\ pub_key' \in Public \cup {Pub(k) : k \in Private} \cup {Junk}
  BY AtFacts DEF Keys
<1>2. h \in StepNames \ Ends
  BY DEF Fetches, StepNames, Ends
<1>3. todo' # <<>> /\ SameArguments /\ call'.input = x /\ heap' = heap \cup new
  BY <1>2, GoneOn
<1>4. KeyInv'
  BY <1>3, KeysKept
<1>5. \A k : At(k)' <=> k = g
  BY <1>3, AtNext
<1>6. InputInv'
  <2>1. At("seal")' => call'.input = call'.data
    BY <1>3, <1>5 DEF SameArguments
  <2>2. At("open")' => Fetched(call.data)'
    BY <1>3, <1>5 DEF SameArguments, Fetched
  <2>3. At("length")' => Fetched(call.sig)'
    BY <1>3, <1>5 DEF SameArguments, Fetched
  <2>4. call'.fn.kind = "verify" /\ (At("message") \/ At("id") \/ At("verify"))' =>
          Fetched(call.sig)' /\ LengthFits(call'.input)
    BY <1>3, <1>5 DEF SameArguments, Fetched
  <2> QED
    BY <2>1, <2>2, <2>3, <2>4 DEF InputInv
<1>7. todo' # <<>> /\ heap' = HeldAt(call.fn, call.id, Head(todo'))
  BY <1>3
<1> QED
  BY <1>1, <1>4, <1>6, <1>7, GoInv

LEMMA FetchPlainStep ==
  ASSUME IInv, FetchPlain
  PROVE  IInv'
<1> DEFINE g == Head(todo')
<1>1. At("plain") /\ Go({"plain_str"}, call.data) /\ misused' = misused /\ UNCHANGED <<ctx, Keys>>
  BY DEF FetchPlain
<1>2. misused' = FALSE /\ call.fn.kind = "encrypt" /\ heap = HeldAt(call.fn, call.id, "plain")
  BY <1>1, AtFacts DEF Runs
<1>3. "plain" \in Fetches /\ "plain" \in StepNames \ Ends
  BY DEF Fetches, StepNames, Ends
<1>4. Follows(call.fn, "plain", g)
  BY <1>1, <1>3, GoneOn
<1>5. g = "seal"
  BY <1>4 DEF Follows
<1>6. /\ HeldAt(call.fn, call.id, "plain") = {}
      /\ HeldAt(call.fn, call.id, "seal") = {"plain_str"}
  BY <1>2 DEF HeldAt
<1>7. heap \cup {"plain_str"} = HeldAt(call.fn, call.id, "seal")
  BY <1>2, <1>6
<1> QED
  BY <1>1, <1>2, <1>3, <1>5, <1>7, FetchInv

LEMMA FetchHexStep ==
  ASSUME IInv, FetchHex
  PROVE  IInv'
<1> DEFINE S == {"cipher_str", "cipher"}
           g == Head(todo')
<1>1. At("hex") /\ UNCHANGED <<ctx, Keys>> /\ UNCHANGED Keys
  BY DEF FetchHex
<1>2. /\ misused = FALSE /\ call.fn.kind = "decrypt" /\ call.fn.coding = "hex"
      /\ heap = HeldAt(call.fn, call.id, "hex")
  BY <1>1, AtFacts DEF Runs
<1>3. heap = {}
  <2>1. HeldAt(call.fn, call.id, "hex") = {}
    BY DEF HeldAt
  <2> QED
    BY <1>2, <2>1
<1>4. CASE call.data.bytes = Malformed
  <2>1. Leave("error", Null, S, S) /\ Freed(S, S, FALSE) /\ log' = log
    BY <1>4 DEF FetchHex
  <2> HIDE DEF S
  <2> QED
    BY <1>1, <1>3, <2>1, LeaveNothing
<1>5. CASE call.data.bytes # Malformed
  <2>1. Go(S, call.data.bytes) /\ misused' = FALSE
    BY <1>2, <1>5 DEF FetchHex
  <2>2. "hex" \in Fetches /\ "hex" \in StepNames \ Ends
    BY DEF Fetches, StepNames, Ends
  <2>3. Follows(call.fn, "hex", g)
    BY <1>1, <2>1, <2>2, GoneOn
  <2>4. g = "open"
    BY <1>2, <2>3 DEF Follows
  <2>5. HeldAt(call.fn, call.id, "open") = S
    BY <1>2 DEF HeldAt
  <2>6. call.data.short = FALSE
    BY <1>1, <1>2, Arguments DEF IsDatum
  <2> HIDE DEF S
  <2>7. heap \cup S = HeldAt(call.fn, call.id, "open")
    BY <1>3, <2>5
  <2>8. call.data.bytes \in IF call.data.short THEN Misread ELSE {call.data.bytes}
    BY <2>6
  <2> QED
    BY <1>1, <1>2, <2>1, <2>2, <2>4, <2>7, <2>8, FetchInv
<1> QED
  BY <1>4, <1>5

LEMMA FetchBase64Step ==
  ASSUME IInv, FetchBase64
  PROVE  IInv'
<1> DEFINE S == {"cipher_str"}
           T == S \cup {"cipher"}
           g == Head(todo')
<1>1. At("base64") /\ UNCHANGED <<ctx, Keys>> /\ UNCHANGED Keys
  BY DEF FetchBase64
<1>2. /\ misused = FALSE /\ call.fn.kind = "decrypt" /\ call.fn.coding = "base64"
      /\ heap = HeldAt(call.fn, call.id, "base64")
  BY <1>1, AtFacts DEF Runs
<1>3. heap = {}
  <2>1. HeldAt(call.fn, call.id, "base64") = {}
    BY DEF HeldAt
  <2> QED
    BY <1>2, <2>1
<1>4. CASE call.data.bytes = Malformed
  <2>1. Leave("error", Null, S, S) /\ Freed(S, S, FALSE) /\ log' = log
    BY <1>4 DEF FetchBase64
  <2> HIDE DEF S
  <2> QED
    BY <1>1, <1>3, <2>1, LeaveNothing
<1>5. CASE call.data.bytes # Malformed
  <2>1. Go(T, call.data.bytes) /\ misused' = FALSE
    BY <1>2, <1>5 DEF FetchBase64
  <2>2. "base64" \in Fetches /\ "base64" \in StepNames \ Ends
    BY DEF Fetches, StepNames, Ends
  <2>3. Follows(call.fn, "base64", g)
    BY <1>1, <2>1, <2>2, GoneOn
  <2>4. g = "open"
    BY <1>2, <2>3 DEF Follows
  <2>5. HeldAt(call.fn, call.id, "open") = T
    BY <1>2 DEF HeldAt
  <2>6. call.data.short = FALSE
    BY <1>1, <1>2, Arguments DEF IsDatum
  <2> HIDE DEF T
  <2>7. heap \cup T = HeldAt(call.fn, call.id, "open")
    BY <1>3, <2>5
  <2>8. call.data.bytes \in IF call.data.short THEN Misread ELSE {call.data.bytes}
    BY <2>6
  <2> QED
    BY <1>1, <1>2, <2>1, <2>2, <2>4, <2>7, <2>8, FetchInv
<1> QED
  BY <1>4, <1>5

LEMMA FetchByteaStep ==
  ASSUME IInv, FetchBytea
  PROVE  IInv'
<1> DEFINE g == Head(todo')
<1>1. At("bytea") /\ UNCHANGED <<ctx, Keys>>
  BY DEF FetchBytea
<1>2. PICK x \in IF Datum.short THEN Misread ELSE {Datum.bytes} :
        Go({}, x) /\ misused' = misused
  BY DEF FetchBytea
<1>3. /\ misused' = FALSE /\ call.fn.kind \in {"decrypt", "verify"} /\ call.fn.coding = "bytea"
      /\ heap = HeldAt(call.fn, call.id, "bytea")
  BY <1>1, <1>2, AtFacts DEF Runs
<1>4. "bytea" \in Fetches /\ "bytea" \in StepNames \ Ends
  BY DEF Fetches, StepNames, Ends
<1>5. Follows(call.fn, "bytea", g)
  BY <1>1, <1>2, <1>4, GoneOn
<1>6. g = IF call.fn.kind = "verify" THEN "length" ELSE "open"
  BY <1>5 DEF Follows
<1>7. /\ HeldAt(call.fn, call.id, "bytea") = {} /\ HeldAt(call.fn, call.id, "open") = {}
      /\ HeldAt(call.fn, call.id, "length") = {}
  BY <1>3 DEF HeldAt
<1>8. Datum = IF call.fn.kind = "verify" THEN call.sig ELSE call.data
  BY DEF Datum, Fn
<1> HIDE DEF g
<1>9. heap \cup {} = HeldAt(call.fn, call.id, g)
  BY <1>3, <1>6, <1>7
<1>10. /\ g \in Fetches \cup {"seal", "open", "sign", "verify"}
       /\ g \notin {"seal", "message", "id", "verify"}
  BY <1>6 DEF Fetches
<1>11. /\ g = "open" => x \in IF call.data.short THEN Misread ELSE {call.data.bytes}
       /\ g = "length" => x \in IF call.sig.short THEN Misread ELSE {call.sig.bytes}
  BY <1>6, <1>8
<1>12. Head(todo') = g
  BY DEF g
<1> QED
  BY <1>1, <1>2, <1>3, <1>4, <1>9, <1>10, <1>11, <1>12, FetchInv

LEMMA FetchSigHexStep ==
  ASSUME IInv, FetchSigHex
  PROVE  IInv'
<1> DEFINE g == Head(todo')
<1>1. /\ At("sig_hex") /\ Go({"sig_hex_str"}, call.sig.bytes) /\ misused' = misused
      /\ UNCHANGED <<ctx, Keys>>
  BY DEF FetchSigHex
<1>2. /\ misused' = FALSE /\ call.fn.kind = "verify" /\ call.fn.coding = "hex"
      /\ heap = HeldAt(call.fn, call.id, "sig_hex")
  BY <1>1, AtFacts DEF Runs
<1>3. "sig_hex" \in Fetches /\ "sig_hex" \in StepNames \ Ends
  BY DEF Fetches, StepNames, Ends
<1>4. Follows(call.fn, "sig_hex", g)
  BY <1>1, <1>3, GoneOn
<1>5. g = "length" /\ "length" \in Fetches
  BY <1>2, <1>4 DEF Follows, Fetches
<1>6. /\ HeldAt(call.fn, call.id, "sig_hex") = {}
      /\ HeldAt(call.fn, call.id, "length") = {"sig_hex_str"}
  BY <1>2 DEF HeldAt
<1>7. heap \cup {"sig_hex_str"} = HeldAt(call.fn, call.id, "length")
  BY <1>2, <1>6
<1>8. call.sig.short = FALSE
  BY <1>1, <1>2, Arguments DEF IsDatum
<1>9. call.sig.bytes \in IF call.sig.short THEN Misread ELSE {call.sig.bytes}
  BY <1>8
<1> QED
  BY <1>1, <1>2, <1>3, <1>5, <1>7, <1>9, FetchInv

LEMMA FetchMessageStep ==
  ASSUME IInv, FetchMessage
  PROVE  IInv'
<1> DEFINE g == Head(todo')
           x == call.input
<1>1. At("message") /\ Go({"msg_str"}, x) /\ misused' = misused /\ UNCHANGED <<ctx, Keys>>
  BY DEF FetchMessage
<1>2. /\ todo # <<>> /\ misused' = FALSE /\ call.fn.kind \in {"sign", "verify"}
      /\ heap = HeldAt(call.fn, call.id, "message")
  BY <1>1, AtFacts DEF Runs
<1>3. "message" \in Fetches /\ "message" \in StepNames \ Ends
  BY DEF Fetches, StepNames, Ends
<1>4. Follows(call.fn, "message", g)
  BY <1>1, <1>3, GoneOn
<1>5. g = "id" /\ "id" \in Fetches
  BY <1>4 DEF Follows, Fetches
<1>6. HeldAt(call.fn, call.id, "message") \cup {"msg_str"} = HeldAt(call.fn, call.id, "id")
  BY DEF HeldAt
<1>7. heap \cup {"msg_str"} = HeldAt(call.fn, call.id, "id")
  BY <1>2, <1>6
<1>8. call.fn.kind = "verify" => /\ LengthFits(x)
                                 /\ x \in IF call.sig.short THEN Misread ELSE {call.sig.bytes}
  BY <1>1, <1>2 DEF IInv, InputInv, Fetched
<1> HIDE DEF x
<1> QED
  BY <1>1, <1>2, <1>3, <1>5, <1>7, <1>8, FetchInv

LEMMA FetchIdStep ==
  ASSUME IInv, FetchId
  PROVE  IInv'
<1> DEFINE g == Head(todo')
           x == call.input
           new == IF call.id = Null THEN {} ELSE {"id_str"}
<1>1. At("id") /\ Go(new, x) /\ misused' = misused /\ UNCHANGED <<ctx, Keys>>
  BY DEF FetchId
<1>2. /\ todo # <<>> /\ misused' = FALSE /\ call.fn.kind \in {"sign", "verify"}
      /\ heap = HeldAt(call.fn, call.id, "id")
  BY <1>1, AtFacts DEF Runs
<1>3. "id" \in Fetches /\ "id" \in StepNames \ Ends
  BY DEF Fetches, StepNames, Ends
<1>4. Follows(call.fn, "id", g)
  BY <1>1, <1>3, GoneOn
<1>5. g = IF call.fn.kind = "sign" THEN "sign" ELSE "verify"
  BY <1>4 DEF Follows
<1>6. /\ HeldAt(call.fn, call.id, "id") \cup new = HeldAt(call.fn, call.id, "verify")
      /\ HeldAt(call.fn, call.id, "verify") = HeldAt(call.fn, call.id, "sign")
         \/ call.fn.kind # "sign"
  BY DEF HeldAt
<1>7. call.fn.kind = "verify" => /\ LengthFits(x)
                                 /\ x \in IF call.sig.short THEN Misread ELSE {call.sig.bytes}
  BY <1>1, <1>2 DEF IInv, InputInv, Fetched
<1> HIDE DEF x, g, new
<1>8. heap \cup new = HeldAt(call.fn, call.id, g)
  BY <1>2, <1>5, <1>6
<1>9. g \in {"sign", "verify"} /\ (g = "sign" => call.fn.kind = "sign")
  BY <1>2, <1>5
<1>10. Head(todo') = g
  BY DEF g
<1> QED
  BY <1>1, <1>2, <1>3, <1>7, <1>8, <1>9, <1>10, FetchInv

-----------------------------------------------------------------------------
(* What the histories record *)

LEMMA RecordSealed ==
  ASSUME HistoryInv, NEW e, log' = [log EXCEPT !.sealed = @ \cup {e}],
         e.pub \in Public, e.text \in Sealable, e.bytes = SealedBytes(e.pub, e.text)
  PROVE  HistoryInv'
<1>1. log = [sealed |-> log.sealed, opened |-> log.opened, signed |-> log.signed,
             verified |-> log.verified]
  BY DEF HistoryInv, LogShape
<1>2. /\ LogShape' /\ log'.sealed = log.sealed \cup {e} /\ log'.opened = log.opened
      /\ log'.signed = log.signed /\ log'.verified = log.verified
  BY <1>1 DEF LogShape
<1>3. GivenSignatures' = GivenSignatures
  BY <1>2 DEF GivenSignatures
<1>4. SealedInv'
  BY <1>2 DEF HistoryInv, SealedInv
<1>5. OpenedInv' /\ SignedInv' /\ VerifiedInv'
  BY <1>2, <1>3 DEF HistoryInv, OpenedInv, SignedInv, VerifiedInv
<1> QED
  BY <1>2, <1>4, <1>5 DEF HistoryInv

\* What an entry of the openings has to say.
Opens(d) ==
  \A q \in Public, t \in Sealable : d.bytes = SealedBytes(q, t) =>
    /\ d.text \in {t, Failure}
    /\ d.text = t <=> Pub(d.priv) = q /\ Len(t) <= Offered /\ ~d.short

LEMMA RecordOpened ==
  ASSUME HistoryInv, NEW d, log' = [log EXCEPT !.opened = @ \cup {d}], Opens(d)
  PROVE  HistoryInv'
<1>1. log = [sealed |-> log.sealed, opened |-> log.opened, signed |-> log.signed,
             verified |-> log.verified]
  BY DEF HistoryInv, LogShape
<1>2. /\ LogShape' /\ log'.opened = log.opened \cup {d} /\ log'.sealed = log.sealed
      /\ log'.signed = log.signed /\ log'.verified = log.verified
  BY <1>1 DEF LogShape
<1>3. GivenSignatures' = GivenSignatures
  BY <1>2 DEF GivenSignatures
<1>4. OpenedInv'
  <2>1. \A e \in log.opened : Opens(e)
    BY DEF HistoryInv, OpenedInv, Opens
  <2>2. \A e \in log'.opened : Opens(e)
    BY <1>2, <2>1
  <2> QED
    BY <2>2 DEF OpenedInv, Opens
<1>5. SealedInv' /\ SignedInv' /\ VerifiedInv'
  BY <1>2, <1>3 DEF HistoryInv, SealedInv, SignedInv, VerifiedInv
<1> QED
  BY <1>2, <1>4, <1>5 DEF HistoryInv

LEMMA RecordSigned ==
  ASSUME HistoryInv, NEW s, log' = [log EXCEPT !.signed = @ \cup {s}],
         s.priv \in Private, s.message \in Texted,
         NEW n \in SigSizes, s.bytes = SignatureBytes(s.priv, s.message, n)
  PROVE  HistoryInv'
<1>1. log = [sealed |-> log.sealed, opened |-> log.opened, signed |-> log.signed,
             verified |-> log.verified]
  BY DEF HistoryInv, LogShape
<1>2. /\ LogShape' /\ log'.signed = log.signed \cup {s} /\ log'.opened = log.opened
      /\ log'.sealed = log.sealed /\ log'.verified = log.verified
  BY <1>1 DEF LogShape
<1>3. GivenSignatures \subseteq GivenSignatures'
  BY <1>2 DEF GivenSignatures
<1>4. SignedInv'
  BY <1>2 DEF HistoryInv, SignedInv
<1>5. SealedInv' /\ OpenedInv'
  BY <1>2 DEF HistoryInv, SealedInv, OpenedInv
<1>6. VerifiedInv'
  BY <1>2, <1>3 DEF HistoryInv, VerifiedInv
<1> QED
  BY <1>2, <1>4, <1>5, <1>6 DEF HistoryInv

LEMMA RecordVerified ==
  ASSUME HistoryInv, NEW v, log' = [log EXCEPT !.verified = @ \cup {v}],
         v.verdict = "true" <=> ~v.short /\ Verifies(v.pub, v.message, v.bytes),
         v.bytes \in GivenSignatures, v.message \in Texted
  PROVE  HistoryInv'
<1>1. log = [sealed |-> log.sealed, opened |-> log.opened, signed |-> log.signed,
             verified |-> log.verified]
  BY DEF HistoryInv, LogShape
<1>2. /\ LogShape' /\ log'.verified = log.verified \cup {v} /\ log'.opened = log.opened
      /\ log'.sealed = log.sealed /\ log'.signed = log.signed
  BY <1>1 DEF LogShape
<1>3. GivenSignatures' = GivenSignatures
  BY <1>2 DEF GivenSignatures
<1>4. VerifiedInv'
  BY <1>2, <1>3 DEF HistoryInv, VerifiedInv
<1>5. SealedInv' /\ OpenedInv' /\ SignedInv'
  BY <1>2 DEF HistoryInv, SealedInv, OpenedInv, SignedInv
<1> QED
  BY <1>2, <1>4, <1>5 DEF HistoryInv

\* The same, of the entry that Verified makes.
LEMMA RecordVerdict ==
  ASSUME IInv, NEW h, At(h), h # "public", call.fn.kind = "verify", NEW verdict, Verified(verdict),
         verdict = "true" <=> ~call.sig.short /\ Verifies(pub_key, call.data, call.sig.bytes)
  PROVE  HistoryInv'
<1> DEFINE v == [pub |-> GetPublicKey(call.key), message |-> call.data, id |-> call.id,
                 bytes |-> call.sig.bytes, short |-> call.sig.short, verdict |-> verdict]
<1>1. log' = [log EXCEPT !.verified = @ \cup {v}]
  BY DEF Verified
<1>2. ReadsPublic(call.fn)
  BY DEF ReadsPublic
<1>3. pub_key = GetPublicKey(call.key)
  BY <1>2, PublicRead
<1>4. call.data \in Texted /\ call.sig.bytes \in GivenSignatures
  BY Arguments
<1>5. /\ v.verdict = verdict /\ v.short = call.sig.short /\ v.pub = pub_key
      /\ v.message = call.data /\ v.bytes = call.sig.bytes
  BY <1>3
<1> HIDE DEF v
<1>6. v.verdict = "true" <=> ~v.short /\ Verifies(v.pub, v.message, v.bytes)
  BY <1>5
<1>7. v.bytes \in GivenSignatures /\ v.message \in Texted /\ HistoryInv
  BY <1>4, <1>5 DEF IInv
<1> QED
  BY <1>1, <1>6, <1>7, RecordVerified

-----------------------------------------------------------------------------
(* The last steps *)

\* Bytes of a length that is refused are no signature.
LEMMA RefusedLength ==
  ASSUME NEW q, NEW t \in Texted, NEW b, ~LengthFits(b)
  PROVE  ~Verifies(q, t, b)
<1> SUFFICES ASSUME NEW d \in Private, NEW n \in SigSizes, b = SignatureBytes(d, t, n)
             PROVE  FALSE
  BY DEF Verifies
<1>1. Len(b) \in SigLeast .. SigRoom
  BY SignatureForm
<1>2. b # Malformed
  BY ValueAssumption DEF Texted
<1> QED
  BY <1>1, <1>2 DEF LengthFits

LEMMA CheckLengthStep ==
  ASSUME IInv, CheckLength
  PROVE  IInv'
<1> DEFINE g == Head(todo')
           b == call.input
<1>1. At("length") /\ UNCHANGED <<ctx, Keys>> /\ priv_key' = priv_key /\ pub_key' = pub_key
  BY DEF CheckLength, Keys
<1>2. /\ misused = FALSE /\ call.fn.kind = "verify" /\ Sane(call.fn)
      /\ heap = HeldAt(call.fn, call.id, "length")
  BY <1>1, AtFacts DEF Runs
<1>3. b \in IF call.sig.short THEN Misread ELSE {call.sig.bytes}
  BY <1>1 DEF IInv, InputInv, Fetched
<1>4. HeldAt(call.fn, call.id, "length") = IF call.fn.coding = "hex" THEN {"sig_hex_str"} ELSE {}
  BY <1>2 DEF HeldAt
<1>5. CASE LengthFits(b)
  <2>1. Go({}, b) /\ Freed({}, {}, call.fn.coding = "hex" /\ Len(b) > SigRoom)
    BY <1>5 DEF CheckLength, Fn
  <2>2. ~(Len(b) > SigRoom)
    BY <1>5, SizeAssumption DEF LengthFits
  <2>3. misused' = FALSE
    BY <1>2, <2>1, <2>2 DEF Freed
  <2>4. "length" \in Fetches /\ "length" \in StepNames \ Ends
    BY DEF Fetches, StepNames, Ends
  <2>5. Follows(call.fn, "length", g)
    BY <1>1, <2>1, <2>4, GoneOn
  <2>6. g = "message" /\ "message" \in Fetches
    BY <2>5 DEF Follows, Fetches
  <2>7. HeldAt(call.fn, call.id, "message") = HeldAt(call.fn, call.id, "length")
    BY DEF HeldAt
  <2> HIDE DEF b
  <2>8. heap \cup {} = HeldAt(call.fn, call.id, "message")
    BY <1>2, <2>7
  <2> QED
    BY <1>1, <1>3, <1>5, <2>1, <2>3, <2>4, <2>6, <2>8, FetchInv
<1>6. CASE ~LengthFits(b)
  <2> DEFINE S == IF call.fn.coding = "hex" THEN {"sig_hex_str"} ELSE {}
  <2>1. Leave("error", Null, {}, S) /\ Freed({}, S, FALSE) /\ Verified("error")
    BY <1>6 DEF CheckLength, Fn
  <2>2. S = heap \cup {} /\ misused' = (misused \/ FALSE \/ ~ S \subseteq heap \cup {})
    BY <1>2, <1>4, <2>1 DEF Freed
  <2> HIDE DEF S
  <2>3. misused' = FALSE
    BY <1>2, <2>2
  <2>4. call.data \in Texted
    BY <1>1, <1>2, Arguments
  <2>5. ~(~call.sig.short /\ Verifies(pub_key, call.data, call.sig.bytes))
    <3>1. ~call.sig.short => b = call.sig.bytes
      BY <1>3
    <3>2. ~Verifies(pub_key, call.data, b)
      BY <1>6, <2>4, RefusedLength
    <3> QED
      BY <3>1, <3>2
  <2>6. "error" # "true" /\ "length" # "public"
    OBVIOUS
  <2>7. "error" = "true" <=> ~call.sig.short /\ Verifies(pub_key, call.data, call.sig.bytes)
    BY <2>5, <2>6
  <2>8. HistoryInv'
    BY <1>1, <1>2, <2>1, <2>6, <2>7, RecordVerdict
  <2> QED
    BY <1>1, <2>1, <2>2, <2>3, <2>8, LeaveInv
<1> QED
  BY <1>5, <1>6

LEMMA SealStep ==
  ASSUME IInv, Seal
  PROVE  IInv'
<1> DEFINE b == SealedBytes(pub_key, call.input)
           new == {"cipher"} \cup ResultBlocks
           held == {"plain_str"} \cup new
           value == [coding |-> Fn.coding, bytes |-> b]
           e == [pub |-> pub_key, bytes |-> b, text |-> call.data]
<1>1. At("seal") /\ priv_key' = priv_key /\ pub_key' = pub_key
  BY DEF Seal, Keys
<1>2. /\ misused = FALSE /\ call.fn.kind = "encrypt" /\ ReadsPublic(call.fn)
      /\ heap = HeldAt(call.fn, call.id, "seal")
  BY <1>1, AtFacts DEF Runs, ReadsPublic
<1>3. heap = {"plain_str"}
  <2>1. HeldAt(call.fn, call.id, "seal") = {"plain_str"}
    BY <1>2 DEF HeldAt
  <2> QED
    BY <1>2, <2>1
<1>4. pub_key \in Public
  <2>1. "seal" # "public"
    OBVIOUS
  <2> QED
    BY <1>1, <1>2, <2>1, PublicRead
<1>5. call.data \in Texted /\ call.input = call.data
  <2>1. call.input = call.data
    BY <1>1 DEF IInv, InputInv
  <2> QED
    BY <1>1, <1>2, <2>1, Arguments
<1>6. ASSUME call.input # <<>>, SealTo(b)
      PROVE  IInv'
  <2>1. /\ Leave("value", value, new, held)
        /\ Freed(new, held, Len(b) > Len(call.input) + Slack)
        /\ log' = [log EXCEPT !.sealed = @ \cup {e}]
    BY <1>6 DEF SealTo
  <2>2. call.data \in Sealable /\ call.data \in Plaintexts /\ call.data # <<>>
    BY <1>5, <1>6 DEF Sealable, Texted, Plaintexts
  <2>3. ~(Len(b) > Len(call.input) + Slack)
    <3>1. Len(call.data) + Overhead \in Nat \ {0} /\ Len(call.data) \in Nat
      BY <2>2, SealedLength
    <3>2. Len(b) = Len(call.data) + Overhead
      BY <1>5, <3>1, BytesForm DEF SealedBytes
    <3> QED
      BY <1>5, <3>1, <3>2, SizeAssumption
  <2>4. e.pub = pub_key /\ e.text = call.data /\ e.bytes = SealedBytes(e.pub, e.text)
    BY <1>5
  <2>5. misused' = (misused \/ Len(b) > Len(call.input) + Slack \/ ~ held \subseteq heap \cup new)
    BY <2>1 DEF Freed
  <2>6. held = heap \cup new
    BY <1>3
  <2> HIDE DEF b, new, held, value, e
  <2>7. HistoryInv'
    BY <1>4, <2>1, <2>2, <2>4, RecordSealed DEF IInv
  <2>8. misused' = FALSE
    BY <1>2, <2>3, <2>5, <2>6
  <2> QED
    BY <1>1, <1>2, <2>1, <2>6, <2>7, <2>8, LeaveInv
<1>7. ASSUME Leave("error", Null, {"cipher"}, {"plain_str", "cipher"}),
             Freed({"cipher"}, {"plain_str", "cipher"}, FALSE), log' = log
      PROVE  IInv'
  <2>1. {"plain_str", "cipher"} = heap \cup {"cipher"}
    BY <1>3
  <2>2. misused' = FALSE
    BY <1>2, <1>7, <2>1 DEF Freed
  <2>3. HistoryInv'
    BY <1>7, SameHistory DEF IInv
  <2> QED
    BY <1>1, <1>7, <2>1, <2>2, <2>3, LeaveInv
<1> QED
  BY <1>6, <1>7 DEF Seal

\* What an opening records is what it has to say.
LEMMA OpenedEntry ==
  ASSUME NEW k \in Private, NEW x, x = [bytes |-> x.bytes, short |-> x.short], x.short \in BOOLEAN,
         NEW b \in IF x.short THEN Misread ELSE {x.bytes},
         NEW pt \in Answers(k, b, Offered),
         NEW text, text = IF pt = Failure THEN Failure ELSE CString(pt)
  PROVE  Opens([priv |-> k, bytes |-> x.bytes, short |-> x.short, text |-> text])
<1> DEFINE d == [priv |-> k, bytes |-> x.bytes, short |-> x.short, text |-> text]
<1>1. d.priv = k /\ d.bytes = x.bytes /\ d.short = x.short /\ d.text = text
  OBVIOUS
<1> HIDE DEF d
<1> SUFFICES ASSUME NEW q \in Public, NEW t \in Sealable, x.bytes = SealedBytes(q, t)
             PROVE  /\ text \in {t, Failure}
                    /\ text = t <=> Pub(k) = q /\ Len(t) <= Offered /\ ~x.short
  BY <1>1 DEF Opens, d
<1>2. t # Failure /\ t \in Texted
  BY ValueAssumption DEF Sealable, Texted
<1>3. CASE x.short
  <2>1. pt = Failure
    BY <1>3, MisreadAnswers
  <2> QED
    BY <1>2, <1>3, <2>1
<1>4. CASE ~x.short
  <2>1. pt \in Answers(k, SealedBytes(q, t), Offered)
    BY <1>4
  <2>2. pt \in {t, Failure} /\ (pt = t <=> Pub(k) = q /\ Len(t) <= Offered)
    BY <2>1, OwnAnswers
  <2>3. pt = t => text = t
    BY <1>2, CStringText
  <2> QED
    BY <1>2, <1>4, <2>2, <2>3
<1> QED
  BY <1>3, <1>4

LEMMA OpenStep ==
  ASSUME IInv, Open
  PROVE  IInv'
<1> DEFINE held == {"plain"} \cup IF Fn.coding = "bytea" THEN {} ELSE {"cipher_str", "cipher"}
           x == call.data
           b == call.input
<1>1. At("open") /\ priv_key' = priv_key /\ pub_key' = pub_key
  BY DEF Open, Keys
<1>2. /\ misused = FALSE /\ call.fn.kind = "decrypt" /\ ReadsPrivate(call.fn)
      /\ heap = HeldAt(call.fn, call.id, "open")
  BY <1>1, AtFacts DEF Runs, ReadsPrivate
<1>3. held = heap \cup {"plain"}
  <2>1. HeldAt(call.fn, call.id, "open") =
          IF call.fn.coding = "bytea" THEN {} ELSE {"cipher_str", "cipher"}
    BY <1>2 DEF HeldAt
  <2> QED
    BY <1>2, <2>1 DEF Fn
<1>4. priv_key \in Private
  <2>1. "open" # "private"
    OBVIOUS
  <2> QED
    BY <1>1, <1>2, <2>1, PrivateRead
<1>5. /\ x = [bytes |-> x.bytes, short |-> x.short] /\ x.short \in BOOLEAN
      /\ b \in IF x.short THEN Misread ELSE {x.bytes}
  <2>1. b \in IF x.short THEN Misread ELSE {x.bytes}
    BY <1>1 DEF IInv, InputInv, Fetched
  <2>2. IsDatum(call.fn, call.data)
    BY <1>1, <1>2, Arguments
  <2> QED
    BY <2>1, <2>2 DEF IsDatum
<1>6. ASSUME NEW kind \in {"value", "error"}, NEW value, NEW overrun, overrun = FALSE,
             Leave(kind, value, {"plain"}, held), Freed({"plain"}, held, overrun), HistoryInv'
      PROVE  IInv'
  <2> HIDE DEF held
  <2>1. misused' = FALSE
    BY <1>2, <1>3, <1>6 DEF Freed
  <2> QED
    BY <1>1, <1>2, <1>3, <1>6, <2>1, LeaveInv
<1>7. ASSUME NEW pt \in Answers(priv_key, b, Offered), NEW text,
             text = IF pt = Failure THEN Failure ELSE CString(pt), Opened(text)
      PROVE  HistoryInv'
  <2> DEFINE d == [priv |-> priv_key, bytes |-> x.bytes, short |-> x.short, text |-> text]
  <2>1. log' = [log EXCEPT !.opened = @ \cup {d}]
    BY <1>7 DEF Opened
  <2> HIDE DEF x, b
  <2>2. Opens(d)
    BY <1>4, <1>5, <1>7, OpenedEntry
  <2> HIDE DEF d
  <2> QED
    BY <2>1, <2>2, RecordOpened DEF IInv
<1>8. ASSUME NEW pt \in Answers(priv_key, b, PlainRoom),
             IF pt = Failure
             THEN /\ Leave("error", Null, {"plain"}, held)
                  /\ Freed({"plain"}, held, FALSE) /\ Opened(Failure)
             ELSE /\ Leave("value", CString(pt), {"plain"}, held)
                  /\ Freed({"plain"}, held, Len(pt) + 1 > PlainBlock)
                  /\ Opened(CString(pt))
      PROVE  IInv'
  <2>1. pt \in Answers(priv_key, b, Offered)
    BY <1>8 DEF PlainRoom
  <2>2. CASE pt = Failure
    <3>1. HistoryInv'
      BY <1>7, <1>8, <2>1, <2>2
    <3> QED
      BY <1>6, <1>8, <2>2, <3>1
  <2>3. CASE pt # Failure
    <3>1. pt \in Plaintexts /\ Len(pt) <= Offered
      BY <2>1, <2>3 DEF Answers
    <3>2. (Len(pt) + 1 > PlainBlock) = FALSE
      BY <3>1, TextLength, SizeAssumption DEF PlainBlock, PlainRoom
    <3>3. HistoryInv'
      BY <1>7, <1>8, <2>1, <2>3
    <3> QED
      BY <1>6, <1>8, <2>3, <3>2, <3>3
  <2> QED
    BY <2>2, <2>3
<1>9. ASSUME Leave("error", Null, {"plain"}, held), Freed({"plain"}, held, FALSE), log' = log
      PROVE  IInv'
  <2>1. HistoryInv'
    BY <1>9, SameHistory DEF IInv
  <2> QED
    BY <1>6, <1>9, <2>1
<1> QED
  BY <1>8, <1>9 DEF Open

LEMMA SignStep ==
  ASSUME IInv, Sign
  PROVE  IInv'
<1> DEFINE held == {"msg_str"} \cup IdBlock
           new == IF Fn.coding = "hex" THEN {"hex_str"} ELSE {}
<1>1. At("sign") /\ priv_key' = priv_key /\ pub_key' = pub_key
  BY DEF Sign, Keys
<1>2. /\ misused = FALSE /\ call.fn.kind = "sign" /\ ReadsPrivate(call.fn)
      /\ heap = HeldAt(call.fn, call.id, "sign")
  BY <1>1, AtFacts DEF Runs, ReadsPrivate
<1>3. held = heap
  <2>1. HeldAt(call.fn, call.id, "sign") =
          {"msg_str"} \cup IF call.id = Null THEN {} ELSE {"id_str"}
    BY <1>2 DEF HeldAt
  <2> QED
    BY <1>2, <2>1 DEF IdBlock
<1>4. priv_key \in Private /\ call.data \in Texted
  <2>1. "sign" # "private"
    OBVIOUS
  <2> QED
    BY <1>1, <1>2, <2>1, PrivateRead, Arguments
<1>5. ASSUME NEW n \in SigSizes, NEW b, b = SignatureBytes(priv_key, call.data, n),
             Leave("value", [coding |-> Fn.coding, bytes |-> b], new, held \cup new),
             Freed(new, held \cup new, n > SigRoom),
             log' = [log EXCEPT !.signed = @ \cup
                       {[priv |-> priv_key, message |-> call.data, id |-> call.id, bytes |-> b]}]
      PROVE  IInv'
  <2> DEFINE s == [priv |-> priv_key, message |-> call.data, id |-> call.id, bytes |-> b]
             value == [coding |-> Fn.coding, bytes |-> b]
  <2>1. (n > SigRoom) = FALSE
    BY SignatureForm, SizeAssumption
  <2>2. misused' = (misused \/ (n > SigRoom) \/ ~ held \cup new \subseteq heap \cup new)
    BY <1>5 DEF Freed
  <2>3. s.priv = priv_key /\ s.message = call.data /\ s.bytes = b
    OBVIOUS
  <2>4. Leave("value", value, new, held \cup new) /\ log' = [log EXCEPT !.signed = @ \cup {s}]
    BY <1>5
  <2> HIDE DEF held, new, s, value
  <2>5. misused' = FALSE /\ held \cup new = heap \cup new
    BY <1>2, <1>3, <2>1, <2>2
  <2>6. HistoryInv'
    BY <1>4, <1>5, <2>3, <2>4, RecordSigned DEF IInv
  <2> QED
    BY <1>1, <1>2, <2>4, <2>5, <2>6, LeaveInv
<1>6. ASSUME Leave("error", Null, {}, held), Freed({}, held, FALSE), log' = log
      PROVE  IInv'
  <2> HIDE DEF held
  <2>1. held = heap \cup {} /\ misused' = FALSE
    BY <1>2, <1>3, <1>6 DEF Freed
  <2>2. HistoryInv'
    BY <1>6, SameHistory DEF IInv
  <2> QED
    BY <1>1, <1>6, <2>1, <2>2, LeaveInv
<1> QED
  BY <1>5, <1>6 DEF Sign

LEMMA VerifyStep ==
  ASSUME IInv, Verify
  PROVE  IInv'
<1> DEFINE held == {"msg_str"} \cup IdBlock
                   \cup IF Fn.coding = "hex" THEN {"sig_hex_str"} ELSE {}
           b == call.input
           verdict == IF Verifies(pub_key, call.data, b) THEN "true" ELSE "false"
<1>1. At("verify") /\ priv_key' = priv_key /\ pub_key' = pub_key
  BY DEF Verify, Keys
<1>2. /\ todo # <<>> /\ misused = FALSE /\ call.fn.kind = "verify"
      /\ heap = HeldAt(call.fn, call.id, "verify")
  BY <1>1, AtFacts DEF Runs
<1>3. held = heap
  <2>1. HeldAt(call.fn, call.id, "verify") =
          {"msg_str"} \cup (IF call.id = Null THEN {} ELSE {"id_str"})
          \cup IF call.fn.coding = "hex" THEN {"sig_hex_str"} ELSE {}
    BY <1>2 DEF HeldAt
  <2> QED
    BY <1>2, <2>1 DEF IdBlock, Fn
<1>4. b \in IF call.sig.short THEN Misread ELSE {call.sig.bytes}
  BY <1>1, <1>2 DEF IInv, InputInv, Fetched
<1>5. call.data \in Texted /\ call.sig.short \in BOOLEAN
  <2>1. IsDatum(call.fn, call.sig) /\ call.data \in Texted
    BY <1>1, <1>2, Arguments
  <2> QED
    BY <2>1 DEF IsDatum
<1>6. ASSUME NEW value, Leave("value", value, {}, held), Freed({}, held, FALSE), HistoryInv'
      PROVE  IInv'
  <2> HIDE DEF held
  <2>1. held = heap \cup {} /\ misused' = FALSE
    BY <1>2, <1>3, <1>6 DEF Freed
  <2> QED
    BY <1>1, <1>2, <1>6, <2>1, LeaveInv
<1>7. ASSUME Verified(verdict) PROVE HistoryInv'
  <2>1. verdict = "true" <=> Verifies(pub_key, call.data, b)
    OBVIOUS
  <2>2. Verifies(pub_key, call.data, b) <=>
          ~call.sig.short /\ Verifies(pub_key, call.data, call.sig.bytes)
    BY <1>4, <1>5, MisreadVerifies
  <2>3. "verify" # "public"
    OBVIOUS
  <2> HIDE DEF verdict
  <2> QED
    BY <1>1, <1>2, <1>7, <2>1, <2>2, <2>3, RecordVerdict
<1>8. ASSUME log' = log PROVE HistoryInv'
  BY <1>8, SameHistory DEF IInv
<1>9. \/ Leave("value", verdict, {}, held) /\ Freed({}, held, FALSE) /\ Verified(verdict)
      \/ Leave("value", "false", {}, held) /\ Freed({}, held, FALSE) /\ log' = log
  BY DEF Verify
<1> HIDE DEF held, verdict
<1> QED
  BY <1>6, <1>7, <1>8, <1>9

-----------------------------------------------------------------------------
(* A call, and the whole *)

\* What a function may be called with.
Given(f, key, data, sig) ==
  /\ ReadsPrivate(f) => key \in PrivateArgs
  /\ ReadsPublic(f) => key \in PublicArgs
  /\ f.kind \in {"encrypt", "sign", "verify"} => data \in PlainArgs
  /\ f.kind = "decrypt" => data = Null \/ IsDatum(f, data)
  /\ f.kind = "verify" =>
       sig = Null \/ (IsDatum(f, sig) /\ sig.bytes \in GivenSignatures)

LEMMA CodedDatum ==
  ASSUME NEW f, NEW made, NEW x \in Coded(f, made)
  PROVE  /\ IsDatum(f, x)
         /\ x.bytes \in StrayArgs \cup {Malformed}
                        \cup UNION {{b, Front(b)} : b \in {e.bytes : e \in made}}
<1> DEFINE all == StrayArgs \cup UNION {{b, Front(b)} : b \in {e.bytes : e \in made}}
<1>1. CASE f.coding = "bytea"
  <2>1. x \in {[bytes |-> b, short |-> FALSE] : b \in all}
              \cup {[bytes |-> b, short |-> TRUE] : b \in {c \in all : Len(c) <= ShortMax}}
    BY <1>1 DEF Coded
  <2> HIDE DEF all
  <2>2. PICK b \in all, s \in BOOLEAN : x = [bytes |-> b, short |-> s]
    BY <2>1
  <2>3. x = [bytes |-> x.bytes, short |-> x.short] /\ x.short \in BOOLEAN /\ x.bytes \in all
    BY <2>2
  <2> QED
    BY <1>1, <2>3 DEF IsDatum, all
<1>2. CASE f.coding # "bytea"
  <2>1. x \in {[bytes |-> b, short |-> FALSE] : b \in all \cup {Malformed}}
    BY <1>2 DEF Coded
  <2> HIDE DEF all
  <2>2. PICK b \in all \cup {Malformed} : x = [bytes |-> b, short |-> FALSE]
    BY <2>1
  <2>3. /\ x = [bytes |-> x.bytes, short |-> x.short] /\ x.short = FALSE
        /\ x.bytes \in all \cup {Malformed}
    BY <2>2
  <2> QED
    BY <2>3 DEF IsDatum, all
<1> QED
  BY <1>1, <1>2

LEMMA InvokeStep ==
  ASSUME IInv, NEW f, NEW kind, Program(f, kind), NEW key, NEW data, NEW sig, NEW id,
         Given(f, key, data, sig), Invoke(f, key, data, sig, id)
  PROVE  IInv'
<1>1. /\ priv_key' = Junk /\ pub_key' = Junk /\ ctx' = Null /\ heap' = {}
      /\ misused' = misused /\ log' = log
  BY DEF Invoke
<1>2. misused' = FALSE /\ HistoryInv' /\ GivenSignatures' = GivenSignatures
  BY <1>1, SameHistory DEF IInv, BlocksInv
<1>3. CASE LacksArg(f, key, data, sig)
  <2>1. /\ todo' = <<>>
        /\ outcome' = [kind |-> IF Strict(f) THEN "null" ELSE "crash", value |-> Null]
    BY <1>3 DEF Invoke
  <2>2. \A h : ~At(h)'
    BY <2>1 DEF At
  <2>3. FrameInv' /\ KeyInv' /\ InputInv' /\ BlocksInv'
    BY <1>1, <1>2, <2>1, <2>2 DEF FrameInv, KeyInv, InputInv, BlocksInv, Answered
  <2>4. TypesInv'
    BY <1>1, <2>1 DEF TypesInv
  <2> QED
    BY <1>2, <2>3, <2>4 DEF IInv
<1>4. CASE ~LacksArg(f, key, data, sig)
  <2> DEFINE g == Head(f.steps)
  <2>1. /\ todo' = f.steps /\ outcome' = [kind |-> "running"]
        /\ call' = [fn |-> f, key |-> key, data |-> data, sig |-> sig, id |-> id,
                    input |-> <<>>]
    BY <1>4 DEF Invoke
  <2>2. /\ Sane(f) /\ Path(f, f.steps) /\ f.steps # <<>>
        /\ g = IF f.kind = "generate" THEN "generate"
               ELSE IF ReadsPrivate(f) THEN "private" ELSE "public"
    BY DEF Program
  <2>3. \A h : At(h)' <=> h = g
    BY <2>1, <2>2 DEF At
  <2>4. FrameInv'
    <3>1. /\ ReadsPrivate(f) => key \in PrivateArgs \ {Null}
          /\ ReadsPublic(f) => key \in PublicArgs \ {Null}
      BY <1>4 DEF LacksArg, Given, ReadsPrivate, ReadsPublic
    <3>2. /\ f.kind \in {"encrypt", "sign", "verify"} => data \in Texted
          /\ f.kind = "decrypt" => IsDatum(f, data)
      BY <1>4 DEF LacksArg, Given, Texted
    <3>3. f.kind = "verify" => IsDatum(f, sig) /\ sig.bytes \in GivenSignatures
      BY <1>4 DEF LacksArg, Given
    <3>4. /\ (IsDatum(call.fn, call.data))' <=> IsDatum(f, data)
          /\ (IsDatum(call.fn, call.sig))' <=> IsDatum(f, sig)
      BY <2>1 DEF IsDatum
    <3> QED
      BY <1>2, <2>1, <2>2, <3>1, <3>2, <3>3, <3>4 DEF FrameInv
  <2>5. KeyInv'
    <3>1. g \in {"generate", "private", "public"}
      BY <2>2
    <3>2. /\ f.kind = "generate" => ~ReadsPrivate(f) /\ ~ReadsPublic(f)
          /\ ReadsPrivate(f) => g = "private"
          /\ ReadsPublic(f) => g = "public"
      BY <2>2, Apart DEF ReadsPrivate, ReadsPublic
    <3> HIDE DEF g
    <3>3. call'.fn = f
      BY <2>1
    <3> QED
      BY <1>1, <2>3, <3>1, <3>2, <3>3 DEF KeyInv
  <2>6. InputInv'
    <3>1. g \in {"generate", "private", "public"}
      BY <2>2
    <3> HIDE DEF g
    <3> QED
      BY <2>3, <3>1 DEF InputInv
  <2>7. BlocksInv'
    <3>1. HeldAt(f, id, g) = {}
      BY <2>2 DEF HeldAt
    <3> QED
      BY <1>1, <1>2, <2>1, <2>2, <3>1 DEF BlocksInv
  <2>8. TypesInv'
    BY <1>1, <2>1 DEF TypesInv
  <2> QED
    BY <1>2, <2>4, <2>5, <2>6, <2>7, <2>8 DEF IInv
<1> QED
  BY <1>3, <1>4

LEMMA InitInv ==
  ASSUME Init
  PROVE  IInv
<1>1. \A h : ~At(h)
  BY DEF Init, At
<1>2. FrameInv /\ KeyInv /\ InputInv /\ BlocksInv
  BY <1>1 DEF Init, FrameInv, KeyInv, InputInv, BlocksInv, Answered
<1>3. HistoryInv
  BY DEF Init, HistoryInv, LogShape, SealedInv, OpenedInv, SignedInv, VerifiedInv
<1>4. TypesInv
  BY DEF Init, TypesInv
<1> QED
  BY <1>2, <1>3, <1>4 DEF IInv

LEMMA StutterInv ==
  ASSUME IInv, UNCHANGED vars
  PROVE  IInv'
<1>1. /\ todo' = todo /\ call' = call /\ priv_key' = priv_key /\ pub_key' = pub_key
      /\ ctx' = ctx /\ heap' = heap /\ misused' = misused /\ outcome' = outcome /\ log' = log
  BY DEF vars
<1>2. \A h : At(h)' <=> At(h)
  BY <1>1 DEF At
<1>3. HistoryInv' /\ GivenSignatures' = GivenSignatures
  BY <1>1, SameHistory DEF IInv
<1>4. FrameInv' /\ BlocksInv' /\ TypesInv'
  BY <1>1, <1>3 DEF IInv, FrameInv, BlocksInv, TypesInv, Answered
<1>5. KeyInv'
  BY <1>1, <1>2 DEF IInv, KeyInv
<1>6. InputInv'
  BY <1>1, <1>2 DEF IInv, InputInv, Fetched
<1> QED
  BY <1>3, <1>4, <1>5, <1>6 DEF IInv

LEMMA StepInv ==
  ASSUME IInv, [Next]_vars
  PROVE  IInv'
<1>1. CASE Invoke(sm2_generate_key, Null, Null, Null, Null)
  <2>1. Program(sm2_generate_key, "generate")
    BY Programs
  <2>2. Given(sm2_generate_key, Null, Null, Null)
    BY <2>1 DEF Program, Given, ReadsPrivate, ReadsPublic
  <2> QED
    BY <1>1, <2>1, <2>2, InvokeStep
<1>2. ASSUME NEW key \in PrivateArgs, Invoke(sm2_get_pubkey, key, Null, Null, Null)
      PROVE  IInv'
  <2>1. Program(sm2_get_pubkey, "pubkey")
    BY Programs
  <2>2. Given(sm2_get_pubkey, key, Null, Null)
    BY <2>1 DEF Program, Given, ReadsPublic
  <2> QED
    BY <1>2, <2>1, <2>2, InvokeStep
<1>3. ASSUME NEW f \in Encryptions, NEW key \in PublicArgs, NEW data \in PlainArgs,
             Invoke(f, key, data, Null, Null)
      PROVE  IInv'
  <2>1. Program(f, "encrypt")
    BY Programs
  <2>2. Given(f, key, data, Null)
    BY <2>1 DEF Program, Given, ReadsPrivate
  <2> QED
    BY <1>3, <2>1, <2>2, InvokeStep
<1>4. ASSUME NEW f \in Decryptions, NEW key \in PrivateArgs,
             NEW data \in Coded(f, log.sealed) \cup {Null}, Invoke(f, key, data, Null, Null)
      PROVE  IInv'
  <2>1. Program(f, "decrypt")
    BY Programs
  <2>2. data = Null \/ IsDatum(f, data)
    BY CodedDatum
  <2>3. Given(f, key, data, Null)
    BY <2>1, <2>2 DEF Program, Given, ReadsPublic
  <2> QED
    BY <1>4, <2>1, <2>3, InvokeStep
<1>5. ASSUME NEW f \in Signers, NEW key \in PrivateArgs, NEW data \in PlainArgs,
             NEW id \in IdArgs, Invoke(f, key, data, Null, id)
      PROVE  IInv'
  <2>1. Program(f, "sign")
    BY Programs
  <2>2. Given(f, key, data, Null)
    BY <2>1 DEF Program, Given, ReadsPublic
  <2> QED
    BY <1>5, <2>1, <2>2, InvokeStep
<1>6. ASSUME NEW f \in Verifiers, NEW key \in PublicArgs, NEW data \in PlainArgs,
             NEW id \in IdArgs, NEW sig \in Coded(f, log.signed) \cup {Null},
             Invoke(f, key, data, sig, id)
      PROVE  IInv'
  <2>1. Program(f, "verify")
    BY Programs
  <2>2. sig = Null \/ (IsDatum(f, sig) /\ sig.bytes \in GivenSignatures)
    BY CodedDatum DEF GivenSignatures
  <2>3. Given(f, key, data, sig)
    BY <2>1, <2>2 DEF Program, Given, ReadsPrivate
  <2> QED
    BY <1>6, <2>1, <2>3, InvokeStep
<1>7. CASE ReadPrivateArg \/ ReadPublicArg \/ GenerateKeypair \/ Load \/ Derive
  BY <1>7, ReadPrivateArgStep, ReadPublicArgStep, GenerateKeypairStep, LoadStep, DeriveStep
<1>8. CASE ReadPrivate \/ ReadPublic \/ Answer
  BY <1>8, ReadPrivateStep, ReadPublicStep, AnswerStep
<1>9. CASE FetchPlain \/ FetchHex \/ FetchBase64 \/ FetchBytea \/ FetchSigHex
  BY <1>9, FetchPlainStep, FetchHexStep, FetchBase64Step, FetchByteaStep, FetchSigHexStep
<1>10. CASE CheckLength \/ FetchMessage \/ FetchId
  BY <1>10, CheckLengthStep, FetchMessageStep, FetchIdStep
<1>11. CASE Seal \/ Open \/ Sign \/ Verify
  BY <1>11, SealStep, OpenStep, SignStep, VerifyStep
<1>12. CASE UNCHANGED vars
  BY <1>12, StutterInv
<1> QED
  BY <1>1, <1>2, <1>3, <1>4, <1>5, <1>6, <1>7, <1>8, <1>9, <1>10, <1>11, <1>12 DEF Next

LEMMA AlwaysIInv == Spec => []IInv
<1>1. Init => IInv
  BY InitInv
<1>2. IInv /\ [Next]_vars => IInv'
  BY StepInv
<1> QED
  BY <1>1, <1>2, PTL DEF Spec

-----------------------------------------------------------------------------
(* What it means for the functions *)

\* Once its argument was read a key is what the argument stands for, and where
\* sm2_generate_key and sm2_get_pubkey build their answer each array holds its half of
\* the pair in the context or was never written, whichever call of the library failed,
\* and sm2_get_pubkey has the key of its argument; the blocks held have their types.
THEOREM Sm2ExtTypeCorrect == Spec => []TypeOK
<1>1. ASSUME IInv PROVE TypeOK
  <2>1. TypesInv /\ misused = FALSE
    BY <1>1 DEF IInv, BlocksInv
  <2>2. \A step \in {"load", "hex", "base64", "open", "sign"} : At(step) =>
          IF Fn.kind = "verify" THEN pub_key # Junk ELSE priv_key # Junk
    <3> SUFFICES ASSUME NEW step \in {"load", "hex", "base64", "open", "sign"}, At(step)
                 PROVE  Fn.kind # "verify" /\ priv_key # Junk
      OBVIOUS
    <3>1. Runs(call.fn, step) /\ step # "private"
      BY <1>1, AtFacts
    <3>2. ReadsPrivate(call.fn) /\ call.fn.kind # "verify"
      BY <3>1 DEF Runs, ReadsPrivate
    <3>3. priv_key \in Private
      BY <1>1, <3>1, <3>2, PrivateRead
    <3> QED
      BY <3>2, <3>3, JunkNoKey DEF Fn
  <2>3. At("answer") =>
          /\ priv_key \in {ctx.priv} \cup IF Fn.kind = "generate" THEN {Junk} ELSE {}
          /\ pub_key \in {Pub(ctx.priv), Junk}
    BY <1>1, InContext DEF Fn
  <2>4. heap \subseteq {"ctx", "pub_hex", "priv_hex", "plain_str", "cipher_str", "cipher", "plain",
                        "hex_str", "b64_str", "msg_str", "id_str", "sig_hex_str"} \cup Elements
    BY <1>1 DEF IInv, BlocksInv, HeldAt
  <2> QED
    BY <2>1, <2>2, <2>3, <2>4 DEF TypeOK, TypesInv
<1>2. IInv => TypeOK
  BY <1>1
<1> QED
  BY <1>2, AlwaysIInv, PTL

\* On every way out of the twelve functions the palloc'd blocks and the key in the
\* sm2_context have been freed, once, but for the two elements of the array that
\* sm2_generate_key returns, and no array was written beyond its end.
THEOREM Sm2ExtMemorySafe == Spec => []MemorySafe
<1>1. IInv => MemorySafe
  BY DEF IInv, BlocksInv, MemorySafe
<1> QED
  BY <1>1, AlwaysIInv, PTL

\* What an encrypting function returned, each decrypting function turns back into
\* the text with the matching key, in either notation and whichever coding, if it
\* has at most 256 bytes; with another key, never.
THEOREM Sm2ExtRoundTrip == Spec => []RoundTrip
<1>1. ASSUME IInv, NEW e \in log.sealed, NEW d \in log.opened, e.bytes = d.bytes
      PROVE  /\ d.text \in {e.text, Failure}
             /\ d.text = e.text <=> Pub(d.priv) = e.pub /\ Len(e.text) <= Offered /\ ~d.short
  <2>1. e.pub \in Public /\ e.text \in Sealable /\ e.bytes = SealedBytes(e.pub, e.text)
    BY <1>1 DEF IInv, HistoryInv, SealedInv
  <2> QED
    BY <1>1, <2>1 DEF IInv, HistoryInv, OpenedInv
<1>2. IInv => RoundTrip
  BY <1>1 DEF RoundTrip
<1> QED
  BY <1>2, AlwaysIInv, PTL

\* A verification is true only for the key, message and bytes of something that was
\* signed, and always for those and the same user ID.
THEOREM Sm2ExtSignatureBinds == Spec => []SignatureBinds
<1>1. ASSUME IInv, NEW v \in log.verified
      PROVE  /\ v.verdict = "true" => ~v.short /\ \E s \in log.signed : SignedAs(s, v)
             /\ \A s \in log.signed :
                  SignedAs(s, v) /\ s.id = v.id /\ ~v.short => v.verdict = "true"
  <2>1. /\ v.verdict = "true" <=> ~v.short /\ Verifies(v.pub, v.message, v.bytes)
        /\ v.bytes \in GivenSignatures /\ v.message \in Texted
    BY <1>1 DEF IInv, HistoryInv, VerifiedInv
  <2>2. \A s \in log.signed :
          /\ s.priv \in Private /\ s.message \in Texted
          /\ \E n \in SigSizes : s.bytes = SignatureBytes(s.priv, s.message, n)
    BY <1>1 DEF IInv, HistoryInv, SignedInv
  <2>3. ASSUME Verifies(v.pub, v.message, v.bytes)
        PROVE  \E s \in log.signed : SignedAs(s, v)
    <3>1. PICK d \in Private, n \in SigSizes :
            Pub(d) = v.pub /\ v.bytes = SignatureBytes(d, v.message, n)
      BY <2>3 DEF Verifies
    <3>2. v.bytes \notin StrayArgs \cup {Malformed}
      BY <2>1, <3>1, ValueAssumption DEF Texted
    <3>3. PICK s \in log.signed : v.bytes \in {s.bytes, Front(s.bytes)}
      BY <2>1, <3>2 DEF GivenSignatures
    <3>4. PICK m \in SigSizes : s.bytes = SignatureBytes(s.priv, s.message, m)
      BY <2>2
    <3>5. v.bytes # Front(s.bytes)
      BY <3>1, <3>4, SignatureOnly
    <3>6. s.bytes = v.bytes
      BY <3>3, <3>5
    <3>7. SignatureBytes(d, v.message, n) = SignatureBytes(s.priv, s.message, m)
      BY <3>1, <3>4, <3>6
    <3>8. d = s.priv /\ v.message = s.message
      BY <3>7, SignatureOnly
    <3> QED
      BY <3>1, <3>6, <3>8 DEF SignedAs
  <2>4. ASSUME NEW s \in log.signed, SignedAs(s, v)
        PROVE  Verifies(v.pub, v.message, v.bytes)
    BY <2>2, <2>4 DEF Verifies, SignedAs
  <2> QED
    BY <2>1, <2>3, <2>4
<1>2. IInv => SignatureBinds
  BY <1>1 DEF SignatureBinds
<1> QED
  BY <1>2, AlwaysIInv, PTL

=============================================================================

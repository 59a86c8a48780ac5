---------------------------- MODULE SM4ExtProofs ----------------------------
(***************************************************************************)
(* Theorems about SM4Ext: for any keys, IVs, AADs, texts and ciphertexts and *)
(* any number of calls, the fourteen functions of sm4_c/sm4_ext.c agree with *)
(* each other on keys, IVs, AAD and layout, and every way out of them frees  *)
(* what was allocated and wipes what was read.                               *)
(***************************************************************************)
EXTENDS SM4Ext, SequenceTheorems, TLAPS

-----------------------------------------------------------------------------
(* Control *)

StepNames == {"key", "iv", "aad", "plain", "cipher", "hex", "base64", "length", "split",
              "random", "seal", "open"}

Sane(f) ==
  /\ f.dir \in {"encrypt", "decrypt"}
  /\ f.mode \in {"ecb", "cbc", "gcm", "auto"}
  /\ f.coding \in {"bytea", "hex", "base64"}
  /\ f.coding = "hex" => f.mode = "ecb"
  /\ f.coding = "base64" => TakesAad(f)

\* Which functions come to a step.
Runs(f, h) ==
  /\ h = "iv" => TakesIv(f)
  /\ h = "aad" => TakesAad(f)
  /\ h \in {"plain", "random", "seal"} => f.dir = "encrypt"
  /\ h \in {"cipher", "hex", "base64", "length", "split", "open"} => f.dir = "decrypt"
  /\ h = "cipher" => f.coding = "bytea"
  /\ h \in {"hex", "base64"} => f.coding = h
  /\ h = "length" => f.mode = "gcm"
  /\ h \in {"random", "split"} => f.mode = "auto"

Texts == {"plain", "cipher", "hex", "base64"}

\* What comes after a step that went well.
Follows(f, g, h) ==
  \/ g = "key" /\ h \in IF TakesIv(f) THEN {"iv"} ELSE IF TakesAad(f) THEN {"aad"} ELSE Texts
  \/ g = "iv" /\ h \in IF TakesAad(f) THEN {"aad"} ELSE Texts
  \/ g = "aad" /\ h \in Texts
  \/ g = "plain" /\ h = IF f.mode = "auto" THEN "random" ELSE "seal"
  \/ /\ g \in {"cipher", "hex", "base64"}
     /\ h = IF f.mode = "auto" THEN "split" ELSE IF f.mode = "gcm" THEN "length" ELSE "open"
  \/ g = "random" /\ h = "seal"
  \/ g \in {"length", "split"} /\ h = "open"

\* The steps left are a path of the function.
Path(f, s) ==
  /\ s \in Seq(StepNames)
  /\ \A k \in 1 .. Len(s) : Runs(f, s[k])
  /\ \A k \in 1 .. Len(s) - 1 : Follows(f, s[k], s[k + 1])

\* The blocks that are held when a function comes to a step.
HeldAt(f, aad, h) ==
  (IF TakesAad(f) /\ aad # Null /\ h \notin {"key", "iv", "aad"} THEN {"aad_str"} ELSE {})
  \cup (IF h \in {"random", "seal"} THEN {"plain_str"} ELSE {})
  \cup (IF h \in {"length", "split", "open"}
        THEN IF f.coding = "hex" THEN HexBlocks
             ELSE IF f.coding = "base64" THEN {"data"} ELSE {}
        ELSE {})

-----------------------------------------------------------------------------
(* What a call has read *)

\* A sequence, of whatever.
IsBytes(s) == s \in Seq(Range(s))

Texted == PlainArgs \ {Null}

\* What a decrypting function may be given.
Given == StrayArgs \cup UNION {{e.bytes, Front(e.bytes)} : e \in sealed}

FrameInv ==
  todo # <<>> =>
    /\ Sane(call.fn) /\ Path(call.fn, todo)
    /\ call = [fn |-> call.fn, key |-> call.key, iv |-> call.iv, aad |-> call.aad,
               data |-> call.data, aad_str |-> call.aad_str, input |-> call.input]
    /\ outcome.kind = "running"
    /\ call.key \in KeyArgs \ {Null}
    /\ TakesIv(call.fn) => call.iv \in IvArgs \ {Null}
    /\ call.fn.dir = "encrypt" => call.data \in Texted
    /\ call.fn.dir = "decrypt" =>
         /\ call.data = [coding |-> call.data.coding, bytes |-> call.data.bytes]
         /\ call.data.bytes \in Given \/ (call.data.bytes = Malformed /\ call.fn.coding # "bytea")

\* The arrays, once they are read, hold what the arguments mean.
ReadInv ==
  /\ todo # <<>> /\ ~At("key") =>
       key_bytes = GetKeyBytes(call.key) /\ key_bytes \in Keys
  /\ todo # <<>> /\ ~TakesIv(call.fn) /\ (call.fn.mode = "ecb" \/ ~(At("seal") \/ At("open"))) =>
       iv_bytes = Junk
  /\ todo # <<>> /\ TakesIv(call.fn) /\ ~(At("key") \/ At("iv")) => iv_bytes = call.iv.val
  /\ todo # <<>> /\ TakesAad(call.fn) /\ ~(At("key") \/ At("iv") \/ At("aad")) =>
       call.aad_str = AadBytes(call.aad)

\* What there is to work on, once it is fetched.
InputInv ==
  /\ At("random") \/ At("seal") =>
       ~Empty /\ call.input = call.data
  /\ At("length") \/ At("split") \/ At("open") =>
       ~Empty /\ call.data.bytes \in Given
  /\ At("length") \/ At("split") => call.input = call.data.bytes
  /\ At("open") /\ call.fn.mode # "auto" => call.input = call.data.bytes
  /\ At("open") /\ call.fn.mode = "auto" =>
       /\ iv_bytes = SubSeq(call.data.bytes, 1, IvSize)
       /\ call.input = SubSeq(call.data.bytes, IvSize + 1, Len(call.data.bytes))
       /\ Len(call.data.bytes) >= IvSize + TagSize
  /\ At("open") /\ call.fn.mode = "gcm" => Len(call.input) >= TagSize
  /\ At("seal") /\ call.fn.mode = "auto" => iv_bytes \in RandomIVs

BlocksInv ==
  /\ doubleFree = FALSE
  /\ todo # <<>> => heap = HeldAt(call.fn, call.aad, Head(todo))

-----------------------------------------------------------------------------
(* The histories *)

\* The bytes that hold a text under the parameters, random IV included.
Holds(mode, p, bytes, text) ==
  IF mode = "auto"
  THEN \E iv : /\ IsBytes(iv) /\ Len(iv) = IvSize
               /\ bytes = iv \o SealedBytes("auto", [p EXCEPT !.iv = iv], text)
  ELSE bytes = SealedBytes(mode, p, text)

SealedInv ==
  \A e \in sealed :
    /\ IsBytes(e.bytes) /\ Len(e.bytes) > 0
    /\ e.text \in Texted
    /\ Holds(e.mode, e.param, e.bytes, e.text)

OpenedInv ==
  \A d \in opened, text \in Texted :
    Holds(d.mode, d.param, d.bytes, text) => d.text = text

HistoryInv == SealedInv /\ OpenedInv /\ Authentic

IInv ==
  /\ TypeOK
  /\ FrameInv
  /\ ReadInv
  /\ InputInv
  /\ BlocksInv
  /\ HistoryInv
  /\ HeapBalanced
  /\ SecretsWiped
  /\ EmptyGivesNull

-----------------------------------------------------------------------------
(* Programs *)

LEMMA Path3 ==
  ASSUME NEW f, NEW a \in StepNames, NEW b \in StepNames, NEW c \in StepNames,
         Runs(f, a), Runs(f, b), Runs(f, c), Follows(f, a, b), Follows(f, b, c)
  PROVE  Path(f, <<a, b, c>>)
<1> DEFINE s == <<a, b, c>>
<1>1. s \in Seq(StepNames) /\ Len(s) = 3
  OBVIOUS
<1>2. \A k \in 1 .. Len(s) : k \in {1, 2, 3}
  BY <1>1
<1>3. \A k \in 1 .. Len(s) - 1 : k \in {1, 2}
  BY <1>1
<1>4. s[1] = a /\ s[2] = b /\ s[3] = c
  OBVIOUS
<1> HIDE DEF s
<1>5. \A k \in 1 .. Len(s) : Runs(f, s[k])
  BY <1>2, <1>4
<1>6. \A k \in 1 .. Len(s) - 1 : Follows(f, s[k], s[k + 1])
  BY <1>3, <1>4
<1>7. Path(f, s)
  BY <1>1, <1>5, <1>6 DEF Path
<1> QED
  BY <1>7 DEF s

LEMMA Path4 ==
  ASSUME NEW f, NEW a \in StepNames, NEW b \in StepNames, NEW c \in StepNames,
         NEW d \in StepNames,
         Runs(f, a), Runs(f, b), Runs(f, c), Runs(f, d),
         Follows(f, a, b), Follows(f, b, c), Follows(f, c, d)
  PROVE  Path(f, <<a, b, c, d>>)
<1> DEFINE s == <<a, b, c, d>>
<1>1. s \in Seq(StepNames) /\ Len(s) = 4
  OBVIOUS
<1>2. \A k \in 1 .. Len(s) : k \in {1, 2, 3, 4}
  BY <1>1
<1>3. \A k \in 1 .. Len(s) - 1 : k \in {1, 2, 3}
  BY <1>1
<1>4. s[1] = a /\ s[2] = b /\ s[3] = c /\ s[4] = d
  OBVIOUS
<1> HIDE DEF s
<1>5. \A k \in 1 .. Len(s) : Runs(f, s[k])
  BY <1>2, <1>4
<1>6. \A k \in 1 .. Len(s) - 1 : Follows(f, s[k], s[k + 1])
  BY <1>3, <1>4
<1>7. Path(f, s)
  BY <1>1, <1>5, <1>6 DEF Path
<1> QED
  BY <1>7 DEF s

LEMMA Path5 ==
  ASSUME NEW f, NEW a \in StepNames, NEW b \in StepNames, NEW c \in StepNames,
         NEW d \in StepNames, NEW e \in StepNames,
         Runs(f, a), Runs(f, b), Runs(f, c), Runs(f, d), Runs(f, e),
         Follows(f, a, b), Follows(f, b, c), Follows(f, c, d), Follows(f, d, e)
  PROVE  Path(f, <<a, b, c, d, e>>)
<1> DEFINE s == <<a, b, c, d, e>>
<1>1. s \in Seq(StepNames) /\ Len(s) = 5
  OBVIOUS
<1>2. \A k \in 1 .. Len(s) : k \in {1, 2, 3, 4, 5}
  BY <1>1
<1>3. \A k \in 1 .. Len(s) - 1 : k \in {1, 2, 3, 4}
  BY <1>1
<1>4. s[1] = a /\ s[2] = b /\ s[3] = c /\ s[4] = d /\ s[5] = e
  OBVIOUS
<1> HIDE DEF s
<1>5. \A k \in 1 .. Len(s) : Runs(f, s[k])
  BY <1>2, <1>4
<1>6. \A k \in 1 .. Len(s) - 1 : Follows(f, s[k], s[k + 1])
  BY <1>3, <1>4
<1>7. Path(f, s)
  BY <1>1, <1>5, <1>6 DEF Path
<1> QED
  BY <1>7 DEF s

LEMMA Path6 ==
  ASSUME NEW f, NEW a \in StepNames, NEW b \in StepNames, NEW c \in StepNames,
         NEW d \in StepNames, NEW e \in StepNames, NEW g \in StepNames,
         Runs(f, a), Runs(f, b), Runs(f, c), Runs(f, d), Runs(f, e), Runs(f, g),
         Follows(f, a, b), Follows(f, b, c), Follows(f, c, d), Follows(f, d, e),
         Follows(f, e, g)
  PROVE  Path(f, <<a, b, c, d, e, g>>)
<1> DEFINE s == <<a, b, c, d, e, g>>
<1>1. s \in Seq(StepNames) /\ Len(s) = 6
  OBVIOUS
<1>2. \A k \in 1 .. Len(s) : k \in {1, 2, 3, 4, 5, 6}
  BY <1>1
<1>3. \A k \in 1 .. Len(s) - 1 : k \in {1, 2, 3, 4, 5}
  BY <1>1
<1>4. s[1] = a /\ s[2] = b /\ s[3] = c /\ s[4] = d /\ s[5] = e /\ s[6] = g
  OBVIOUS
<1> HIDE DEF s
<1>5. \A k \in 1 .. Len(s) : Runs(f, s[k])
  BY <1>2, <1>4
<1>6. \A k \in 1 .. Len(s) - 1 : Follows(f, s[k], s[k + 1])
  BY <1>3, <1>4
<1>7. Path(f, s)
  BY <1>1, <1>5, <1>6 DEF Path
<1> QED
  BY <1>7 DEF s

\* Each of the fourteen functions is a path that begins by reading the key.
Program(f, dir) ==
  Sane(f) /\ f.dir = dir /\ Path(f, f.steps) /\ Head(f.steps) = "key" /\ f.steps # <<>>

LEMMA Programs ==
  /\ \A f \in Encryptions : Program(f, "encrypt")
  /\ \A f \in Decryptions : Program(f, "decrypt")
<1>1. Program(sm4_encrypt, "encrypt")
  <2> DEFINE f == sm4_encrypt
  <2>1. /\ f.dir = "encrypt" /\ f.mode = "ecb" /\ f.coding = "bytea"
        /\ f.steps = <<"key", "plain", "seal">>
    BY DEF sm4_encrypt, Function
  <2>2. TakesIv(f) = FALSE /\ TakesAad(f) = FALSE
    BY <2>1 DEF TakesIv, TakesAad
  <2> HIDE DEF f
  <2>3. Runs(f, "key") /\ Runs(f, "plain") /\ Runs(f, "seal")
    BY <2>1, <2>2 DEF Runs
  <2>4. Follows(f, "key", "plain") /\ Follows(f, "plain", "seal")
    BY <2>1, <2>2 DEF Follows, Texts
  <2>5. {"key", "plain", "seal"} \subseteq StepNames
    BY DEF StepNames
  <2>6. Path(f, f.steps) /\ Head(f.steps) = "key" /\ f.steps # <<>>
    BY <2>1, <2>3, <2>4, <2>5, Path3
  <2>7. Sane(f)
    BY <2>1, <2>2 DEF Sane
  <2> QED
    BY <2>1, <2>6, <2>7 DEF Program, f
<1>2. Program(sm4_decrypt, "decrypt")
  <2> DEFINE f == sm4_decrypt
  <2>1. /\ f.dir = "decrypt" /\ f.mode = "ecb" /\ f.coding = "bytea"
        /\ f.steps = <<"key", "cipher", "open">>
    BY DEF sm4_decrypt, Function
  <2>2. TakesIv(f) = FALSE /\ TakesAad(f) = FALSE
    BY <2>1 DEF TakesIv, TakesAad
  <2> HIDE DEF f
  <2>3. Runs(f, "key") /\ Runs(f, "cipher") /\ Runs(f, "open")
    BY <2>1, <2>2 DEF Runs
  <2>4. Follows(f, "key", "cipher") /\ Follows(f, "cipher", "open")
    BY <2>1, <2>2 DEF Follows, Texts
  <2>5. {"key", "cipher", "open"} \subseteq StepNames
    BY DEF StepNames
  <2>6. Path(f, f.steps) /\ Head(f.steps) = "key" /\ f.steps # <<>>
    BY <2>1, <2>3, <2>4, <2>5, Path3
  <2>7. Sane(f)
    BY <2>1, <2>2 DEF Sane
  <2> QED
    BY <2>1, <2>6, <2>7 DEF Program, f
<1>3. Program(sm4_encrypt_cbc, "encrypt")
  <2> DEFINE f == sm4_encrypt_cbc
  <2>1. /\ f.dir = "encrypt" /\ f.mode = "cbc" /\ f.coding = "bytea"
        /\ f.steps = <<"key", "iv", "plain", "seal">>
    BY DEF sm4_encrypt_cbc, Function
  <2>2. TakesIv(f) = TRUE /\ TakesAad(f) = FALSE
    BY <2>1 DEF TakesIv, TakesAad
  <2> HIDE DEF f
  <2>3. Runs(f, "key") /\ Runs(f, "iv") /\ Runs(f, "plain") /\ Runs(f, "seal")
    BY <2>1, <2>2 DEF Runs
  <2>4. Follows(f, "key", "iv") /\ Follows(f, "iv", "plain") /\ Follows(f, "plain", "seal")
    BY <2>1, <2>2 DEF Follows, Texts
  <2>5. {"key", "iv", "plain", "seal"} \subseteq StepNames
    BY DEF StepNames
  <2>6. Path(f, f.steps) /\ Head(f.steps) = "key" /\ f.steps # <<>>
    BY <2>1, <2>3, <2>4, <2>5, Path4
  <2>7. Sane(f)
    BY <2>1, <2>2 DEF Sane
  <2> QED
    BY <2>1, <2>6, <2>7 DEF Program, f
<1>4. Program(sm4_decrypt_cbc, "decrypt")
  <2> DEFINE f == sm4_decrypt_cbc
  <2>1. /\ f.dir = "decrypt" /\ f.mode = "cbc" /\ f.coding = "bytea"
        /\ f.steps = <<"key", "iv", "cipher", "open">>
    BY DEF sm4_decrypt_cbc, Function
  <2>2. TakesIv(f) = TRUE /\ TakesAad(f) = FALSE
    BY <2>1 DEF TakesIv, TakesAad
  <2> HIDE DEF f
  <2>3. Runs(f, "key") /\ Runs(f, "iv") /\ Runs(f, "cipher") /\ Runs(f, "open")
    BY <2>1, <2>2 DEF Runs
  <2>4. Follows(f, "key", "iv") /\ Follows(f, "iv", "cipher") /\ Follows(f, "cipher", "open")
    BY <2>1, <2>2 DEF Follows, Texts
  <2>5. {"key", "iv", "cipher", "open"} \subseteq StepNames
    BY DEF StepNames
  <2>6. Path(f, f.steps) /\ Head(f.steps) = "key" /\ f.steps # <<>>
    BY <2>1, <2>3, <2>4, <2>5, Path4
  <2>7. Sane(f)
    BY <2>1, <2>2 DEF Sane
  <2> QED
    BY <2>1, <2>6, <2>7 DEF Program, f
<1>5. Program(sm4_encrypt_hex, "encrypt")
  <2> DEFINE f == sm4_encrypt_hex
  <2>1. /\ f.dir = "encrypt" /\ f.mode = "ecb" /\ f.coding = "hex"
        /\ f.steps = <<"key", "plain", "seal">>
    BY DEF sm4_encrypt_hex, Function
  <2>2. TakesIv(f) = FALSE /\ TakesAad(f) = FALSE
    BY <2>1 DEF TakesIv, TakesAad
  <2> HIDE DEF f
  <2>3. Runs(f, "key") /\ Runs(f, "plain") /\ Runs(f, "seal")
    BY <2>1, <2>2 DEF Runs
  <2>4. Follows(f, "key", "plain") /\ Follows(f, "plain", "seal")
    BY <2>1, <2>2 DEF Follows, Texts
  <2>5. {"key", "plain", "seal"} \subseteq StepNames
    BY DEF StepNames
  <2>6. Path(f, f.steps) /\ Head(f.steps) = "key" /\ f.steps # <<>>
    BY <2>1, <2>3, <2>4, <2>5, Path3
  <2>7. Sane(f)
    BY <2>1, <2>2 DEF Sane
  <2> QED
    BY <2>1, <2>6, <2>7 DEF Program, f
<1>6. Program(sm4_decrypt_hex, "decrypt")
  <2> DEFINE f == sm4_decrypt_hex
  <2>1. /\ f.dir = "decrypt" /\ f.mode = "ecb" /\ f.coding = "hex"
        /\ f.steps = <<"key", "hex", "open">>
    BY DEF sm4_decrypt_hex, Function
  <2>2. TakesIv(f) = FALSE /\ TakesAad(f) = FALSE
    BY <2>1 DEF TakesIv, TakesAad
  <2> HIDE DEF f
  <2>3. Runs(f, "key") /\ Runs(f, "hex") /\ Runs(f, "open")
    BY <2>1, <2>2 DEF Runs
  <2>4. Follows(f, "key", "hex") /\ Follows(f, "hex", "open")
    BY <2>1, <2>2 DEF Follows, Texts
  <2>5. {"key", "hex", "open"} \subseteq StepNames
    BY DEF StepNames
  <2>6. Path(f, f.steps) /\ Head(f.steps) = "key" /\ f.steps # <<>>
    BY <2>1, <2>3, <2>4, <2>5, Path3
  <2>7. Sane(f)
    BY <2>1, <2>2 DEF Sane
  <2> QED
    BY <2>1, <2>6, <2>7 DEF Program, f
<1>7. Program(sm4_encrypt_gcm, "encrypt")
  <2> DEFINE f == sm4_encrypt_gcm
  <2>1. /\ f.dir = "encrypt" /\ f.mode = "gcm" /\ f.coding = "bytea"
        /\ f.steps = <<"key", "iv", "aad", "plain", "seal">>
    BY DEF sm4_encrypt_gcm, Function
  <2>2. TakesIv(f) = TRUE /\ TakesAad(f) = TRUE
    BY <2>1 DEF TakesIv, TakesAad
  <2> HIDE DEF f
  <2>3. Runs(f, "key") /\ Runs(f, "iv") /\ Runs(f, "aad") /\ Runs(f, "plain") /\ Runs(f, "seal")
    BY <2>1, <2>2 DEF Runs
  <2>4. Follows(f, "key", "iv") /\ Follows(f, "iv", "aad") /\ Follows(f, "aad", "plain")
        /\ Follows(f, "plain", "seal")
    BY <2>1, <2>2 DEF Follows, Texts
  <2>5. {"key", "iv", "aad", "plain", "seal"} \subseteq StepNames
    BY DEF StepNames
  <2>6. Path(f, f.steps) /\ Head(f.steps) = "key" /\ f.steps # <<>>
    BY <2>1, <2>3, <2>4, <2>5, Path5
  <2>7. Sane(f)
    BY <2>1, <2>2 DEF Sane
  <2> QED
    BY <2>1, <2>6, <2>7 DEF Program, f
<1>8. Program(sm4_decrypt_gcm, "decrypt")
  <2> DEFINE f == sm4_decrypt_gcm
  <2>1. /\ f.dir = "decrypt" /\ f.mode = "gcm" /\ f.coding = "bytea"
        /\ f.steps = <<"key", "iv", "aad", "cipher", "length", "open">>
    BY DEF sm4_decrypt_gcm, Function
  <2>2. TakesIv(f) = TRUE /\ TakesAad(f) = TRUE
    BY <2>1 DEF TakesIv, TakesAad
  <2> HIDE DEF f
  <2>3. Runs(f, "key") /\ Runs(f, "iv") /\ Runs(f, "aad") /\ Runs(f, "cipher")
        /\ Runs(f, "length") /\ Runs(f, "open")
    BY <2>1, <2>2 DEF Runs
  <2>4. Follows(f, "key", "iv") /\ Follows(f, "iv", "aad") /\ Follows(f, "aad", "cipher")
        /\ Follows(f, "cipher", "length") /\ Follows(f, "length", "open")
    BY <2>1, <2>2 DEF Follows, Texts
  <2>5. {"key", "iv", "aad", "cipher", "length", "open"} \subseteq StepNames
    BY DEF StepNames
  <2>6. Path(f, f.steps) /\ Head(f.steps) = "key" /\ f.steps # <<>>
    BY <2>1, <2>3, <2>4, <2>5, Path6
  <2>7. Sane(f)
    BY <2>1, <2>2 DEF Sane
  <2> QED
    BY <2>1, <2>6, <2>7 DEF Program, f
<1>9. Program(sm4_encrypt_gcm_base64, "encrypt")
  <2> DEFINE f == sm4_encrypt_gcm_base64
  <2>1. /\ f.dir = "encrypt" /\ f.mode = "gcm" /\ f.coding = "base64"
        /\ f.steps = <<"key", "iv", "aad", "plain", "seal">>
    BY DEF sm4_encrypt_gcm_base64, Function
  <2>2. TakesIv(f) = TRUE /\ TakesAad(f) = TRUE
    BY <2>1 DEF TakesIv, TakesAad
  <2> HIDE DEF f
  <2>3. Runs(f, "key") /\ Runs(f, "iv") /\ Runs(f, "aad") /\ Runs(f, "plain") /\ Runs(f, "seal")
    BY <2>1, <2>2 DEF Runs
  <2>4. Follows(f, "key", "iv") /\ Follows(f, "iv", "aad") /\ Follows(f, "aad", "plain")
        /\ Follows(f, "plain", "seal")
    BY <2>1, <2>2 DEF Follows, Texts
  <2>5. {"key", "iv", "aad", "plain", "seal"} \subseteq StepNames
    BY DEF StepNames
  <2>6. Path(f, f.steps) /\ Head(f.steps) = "key" /\ f.steps # <<>>
    BY <2>1, <2>3, <2>4, <2>5, Path5
  <2>7. Sane(f)
    BY <2>1, <2>2 DEF Sane
  <2> QED
    BY <2>1, <2>6, <2>7 DEF Program, f
<1>10. Program(sm4_decrypt_gcm_base64, "decrypt")
  <2> DEFINE f == sm4_decrypt_gcm_base64
  <2>1. /\ f.dir = "decrypt" /\ f.mode = "gcm" /\ f.coding = "base64"
        /\ f.steps = <<"key", "iv", "aad", "base64", "length", "open">>
    BY DEF sm4_decrypt_gcm_base64, Function
  <2>2. TakesIv(f) = TRUE /\ TakesAad(f) = TRUE
    BY <2>1 DEF TakesIv, TakesAad
  <2> HIDE DEF f
  <2>3. Runs(f, "key") /\ Runs(f, "iv") /\ Runs(f, "aad") /\ Runs(f, "base64")
        /\ Runs(f, "length") /\ Runs(f, "open")
    BY <2>1, <2>2 DEF Runs
  <2>4. Follows(f, "key", "iv") /\ Follows(f, "iv", "aad") /\ Follows(f, "aad", "base64")
        /\ Follows(f, "base64", "length") /\ Follows(f, "length", "open")
    BY <2>1, <2>2 DEF Follows, Texts
  <2>5. {"key", "iv", "aad", "base64", "length", "open"} \subseteq StepNames
    BY DEF StepNames
  <2>6. Path(f, f.steps) /\ Head(f.steps) = "key" /\ f.steps # <<>>
    BY <2>1, <2>3, <2>4, <2>5, Path6
  <2>7. Sane(f)
    BY <2>1, <2>2 DEF Sane
  <2> QED
    BY <2>1, <2>6, <2>7 DEF Program, f
<1>11. Program(sm4_encrypt_gcm_auto_iv, "encrypt")
  <2> DEFINE f == sm4_encrypt_gcm_auto_iv
  <2>1. /\ f.dir = "encrypt" /\ f.mode = "auto" /\ f.coding = "bytea"
        /\ f.steps = <<"key", "aad", "plain", "random", "seal">>
    BY DEF sm4_encrypt_gcm_auto_iv, Function
  <2>2. TakesIv(f) = FALSE /\ TakesAad(f) = TRUE
    BY <2>1 DEF TakesIv, TakesAad
  <2> HIDE DEF f
  <2>3. Runs(f, "key") /\ Runs(f, "aad") /\ Runs(f, "plain") /\ Runs(f, "random") /\ Runs(f, "seal")
    BY <2>1, <2>2 DEF Runs
  <2>4. Follows(f, "key", "aad") /\ Follows(f, "aad", "plain")
        /\ Follows(f, "plain", "random") /\ Follows(f, "random", "seal")
    BY <2>1, <2>2 DEF Follows, Texts
  <2>5. {"key", "aad", "plain", "random", "seal"} \subseteq StepNames
    BY DEF StepNames
  <2>6. Path(f, f.steps) /\ Head(f.steps) = "key" /\ f.steps # <<>>
    BY <2>1, <2>3, <2>4, <2>5, Path5
  <2>7. Sane(f)
    BY <2>1, <2>2 DEF Sane
  <2> QED
    BY <2>1, <2>6, <2>7 DEF Program, f
<1>12. Program(sm4_decrypt_gcm_auto_iv, "decrypt")
  <2> DEFINE f == sm4_decrypt_gcm_auto_iv
  <2>1. /\ f.dir = "decrypt" /\ f.mode = "auto" /\ f.coding = "bytea"
        /\ f.steps = <<"key", "aad", "cipher", "split", "open">>
    BY DEF sm4_decrypt_gcm_auto_iv, Function
  <2>2. TakesIv(f) = FALSE /\ TakesAad(f) = TRUE
    BY <2>1 DEF TakesIv, TakesAad
  <2> HIDE DEF f
  <2>3. Runs(f, "key") /\ Runs(f, "aad") /\ Runs(f, "cipher") /\ Runs(f, "split") /\ Runs(f, "open")
    BY <2>1, <2>2 DEF Runs
  <2>4. Follows(f, "key", "aad") /\ Follows(f, "aad", "cipher")
        /\ Follows(f, "cipher", "split") /\ Follows(f, "split", "open")
    BY <2>1, <2>2 DEF Follows, Texts
  <2>5. {"key", "aad", "cipher", "split", "open"} \subseteq StepNames
    BY DEF StepNames
  <2>6. Path(f, f.steps) /\ Head(f.steps) = "key" /\ f.steps # <<>>
    BY <2>1, <2>3, <2>4, <2>5, Path5
  <2>7. Sane(f)
    BY <2>1, <2>2 DEF Sane
  <2> QED
    BY <2>1, <2>6, <2>7 DEF Program, f
<1>13. Program(sm4_encrypt_gcm_auto_iv_base64, "encrypt")
  <2> DEFINE f == sm4_encrypt_gcm_auto_iv_base64
  <2>1. /\ f.dir = "encrypt" /\ f.mode = "auto" /\ f.coding = "base64"
        /\ f.steps = <<"key", "aad", "plain", "random", "seal">>
    BY DEF sm4_encrypt_gcm_auto_iv_base64, Function
  <2>2. TakesIv(f) = FALSE /\ TakesAad(f) = TRUE
    BY <2>1 DEF TakesIv, TakesAad
  <2> HIDE DEF f
  <2>3. Runs(f, "key") /\ Runs(f, "aad") /\ Runs(f, "plain") /\ Runs(f, "random") /\ Runs(f, "seal")
    BY <2>1, <2>2 DEF Runs
  <2>4. Follows(f, "key", "aad") /\ Follows(f, "aad", "plain")
        /\ Follows(f, "plain", "random") /\ Follows(f, "random", "seal")
    BY <2>1, <2>2 DEF Follows, Texts
  <2>5. {"key", "aad", "plain", "random", "seal"} \subseteq StepNames
    BY DEF StepNames
  <2>6. Path(f, f.steps) /\ Head(f.steps) = "key" /\ f.steps # <<>>
    BY <2>1, <2>3, <2>4, <2>5, Path5
  <2>7. Sane(f)
    BY <2>1, <2>2 DEF Sane
  <2> QED
    BY <2>1, <2>6, <2>7 DEF Program, f
<1>14. Program(sm4_decrypt_gcm_auto_iv_base64, "decrypt")
  <2> DEFINE f == sm4_decrypt_gcm_auto_iv_base64
  <2>1. /\ f.dir = "decrypt" /\ f.mode = "auto" /\ f.coding = "base64"
        /\ f.steps = <<"key", "aad", "base64", "split", "open">>
    BY DEF sm4_decrypt_gcm_auto_iv_base64, Function
  <2>2. TakesIv(f) = FALSE /\ TakesAad(f) = TRUE
    BY <2>1 DEF TakesIv, TakesAad
  <2> HIDE DEF f
  <2>3. Runs(f, "key") /\ Runs(f, "aad") /\ Runs(f, "base64") /\ Runs(f, "split") /\ Runs(f, "open")
    BY <2>1, <2>2 DEF Runs
  <2>4. Follows(f, "key", "aad") /\ Follows(f, "aad", "base64")
        /\ Follows(f, "base64", "split") /\ Follows(f, "split", "open")
    BY <2>1, <2>2 DEF Follows, Texts
  <2>5. {"key", "aad", "base64", "split", "open"} \subseteq StepNames
    BY DEF StepNames
  <2>6. Path(f, f.steps) /\ Head(f.steps) = "key" /\ f.steps # <<>>
    BY <2>1, <2>3, <2>4, <2>5, Path5
  <2>7. Sane(f)
    BY <2>1, <2>2 DEF Sane
  <2> QED
    BY <2>1, <2>6, <2>7 DEF Program, f
<1> QED
  BY <1>1, <1>2, <1>3, <1>4, <1>5, <1>6, <1>7, <1>8, <1>9, <1>10, <1>11, <1>12, <1>13, <1>14
  DEF Encryptions, Decryptions

\* What a step leaves of a path is one.
LEMMA PathTail ==
  ASSUME NEW f, NEW s, Path(f, s), s # <<>>
  PROVE  /\ Path(f, Tail(s)) /\ Runs(f, Head(s)) /\ Head(s) \in StepNames
         /\ Tail(s) # <<>> => Follows(f, Head(s), Head(Tail(s))) /\ Runs(f, Head(Tail(s)))
<1> DEFINE n == Len(s)
           t == Tail(s)
<1>1. /\ s \in Seq(StepNames) /\ n \in Nat \ {0}
      /\ \A k \in 1 .. n : Runs(f, s[k])
      /\ \A k \in 1 .. n - 1 : Follows(f, s[k], s[k + 1])
  BY EmptySeq DEF Path
<1>2. /\ Head(s) = s[1] /\ s[1] \in StepNames
      /\ t \in Seq(StepNames) /\ Len(t) = n - 1
      /\ \A k \in 1 .. n - 1 : t[k] = s[k + 1]
  BY <1>1, HeadTailProperties
<1>3. t # <<>> => Len(t) \in Nat \ {0}
  BY <1>2, EmptySeq
<1> HIDE DEF n, t
<1>4. \A k \in 1 .. Len(t) : Runs(f, t[k])
  <2> TAKE k \in 1 .. Len(t)
  <2>1. k \in 1 .. n - 1 /\ k + 1 \in 1 .. n
    BY <1>1, <1>2
  <2> QED
    BY <1>1, <1>2, <2>1
<1>5. \A k \in 1 .. Len(t) - 1 : Follows(f, t[k], t[k + 1])
  <2> TAKE k \in 1 .. Len(t) - 1
  <2>1. k \in 1 .. n - 1 /\ k + 1 \in 1 .. n - 1
    BY <1>1, <1>2
  <2> QED
    BY <1>1, <1>2, <2>1
<1>6. t # <<>> => Follows(f, s[1], Head(t)) /\ Runs(f, Head(t))
  <2> SUFFICES ASSUME t # <<>> PROVE Follows(f, s[1], Head(t)) /\ Runs(f, Head(t))
    OBVIOUS
  <2>1. 1 \in 1 .. n - 1 /\ 1 \in 1 .. Len(t)
    BY <1>1, <1>2, <1>3
  <2>2. Follows(f, s[1], s[1 + 1]) /\ t[1] = s[1 + 1] /\ Runs(f, t[1])
    BY <1>1, <1>2, <1>4, <2>1
  <2>3. Head(t) = t[1]
    BY <1>2, HeadTailProperties
  <2> QED
    BY <2>2, <2>3
<1>7. Runs(f, s[1])
  BY <1>1
<1>8. Path(f, t)
  BY <1>2, <1>4, <1>5 DEF Path
<1> QED
  BY <1>2, <1>6, <1>7, <1>8 DEF t

-----------------------------------------------------------------------------
(* Bytes *)

LEMMA JoinBytes ==
  ASSUME NEW s, NEW t, IsBytes(s), IsBytes(t)
  PROVE  /\ \E S : s \in Seq(S) /\ t \in Seq(S)
         /\ IsBytes(s \o t) /\ Len(s \o t) = Len(s) + Len(t)
         /\ Len(s) \in Nat /\ Len(t) \in Nat
<1> DEFINE S == Range(s) \cup Range(t)
<1>1. s \in Seq(Range(s)) /\ t \in Seq(Range(t))
  BY DEF IsBytes
<1>2. Range(s) \subseteq S /\ Range(t) \subseteq S
  OBVIOUS
<1> HIDE DEF S
<1>3. s \in Seq(S) /\ t \in Seq(S)
  BY <1>1, <1>2, SeqMonotonic
<1>4. s \o t \in Seq(S) /\ Len(s \o t) = Len(s) + Len(t)
  BY <1>3, ConcatProperties
<1>5. IsBytes(s \o t)
  BY <1>4, SeqOfRange DEF IsBytes
<1>6. Len(s) \in Nat /\ Len(t) \in Nat
  BY <1>3, LenProperties
<1> QED
  BY <1>3, <1>4, <1>5, <1>6

\* The bytes of an IV can be told from what follows them.
LEMMA SplitJoined ==
  ASSUME NEW iv, NEW b, IsBytes(iv), IsBytes(b), Len(iv) = IvSize, Len(b) > 0
  PROVE  /\ SubSeq(iv \o b, 1, IvSize) = iv
         /\ SubSeq(iv \o b, IvSize + 1, Len(iv \o b)) = b
<1>1. PICK S : iv \in Seq(S) /\ b \in Seq(S)
  BY JoinBytes
<1>2. Len(iv \o b) = IvSize + Len(b) /\ Len(b) \in Nat
  BY JoinBytes
<1>3. IvSize \in Nat \ {0}
  BY SizeAssumption
<1>4. SubSeq(iv \o b, 1, IvSize) = iv
  <2>1. 1 \in 1 .. Len(iv) /\ IvSize \in 1 .. Len(iv)
    BY <1>3
  <2>2. SubSeq(iv \o b, 1, IvSize) = SubSeq(iv, 1, IvSize)
    BY <1>1, <2>1, SubSeqOfConcat1
  <2> QED
    BY <1>1, <2>2, SubSeqFull
<1>5. SubSeq(iv \o b, IvSize + 1, Len(iv \o b)) = b
  <2> DEFINE m == IvSize + 1
             n == IvSize + Len(b)
  <2>1. /\ m \in Len(iv) + 1 .. Len(iv) + Len(b) /\ n \in Len(iv) + 1 .. Len(iv) + Len(b)
        /\ m - Len(iv) = 1 /\ n - Len(iv) = Len(b)
    BY <1>2, <1>3
  <2> HIDE DEF m, n
  <2>2. SubSeq(iv \o b, m, n) = SubSeq(b, m - Len(iv), n - Len(iv))
    BY <1>1, <2>1, SubSeqOfConcat2
  <2>3. SubSeq(iv \o b, m, n) = b
    BY <1>1, <2>1, <2>2, SubSeqFull
  <2> QED
    BY <1>2, <2>3 DEF m, n
<1> QED
  BY <1>4, <1>5

LEMMA JoinSplit ==
  ASSUME NEW c, IsBytes(c), Len(c) >= IvSize
  PROVE  /\ SubSeq(c, 1, IvSize) \o SubSeq(c, IvSize + 1, Len(c)) = c
         /\ IsBytes(SubSeq(c, 1, IvSize)) /\ Len(SubSeq(c, 1, IvSize)) = IvSize
         /\ IsBytes(SubSeq(c, IvSize + 1, Len(c)))
         /\ Len(SubSeq(c, IvSize + 1, Len(c))) = Len(c) - IvSize
<1> DEFINE S == Range(c)
           n == Len(c)
<1>1. c \in Seq(S) /\ n \in Nat /\ \A i \in 1 .. n : c[i] \in S
  BY LenProperties, ElementOfSeq DEF IsBytes
<1>2. IvSize \in Nat \ {0} /\ n >= IvSize
  BY SizeAssumption
<1>3. /\ 1 \in Int /\ IvSize \in Int /\ IvSize + 1 \in Int /\ n \in Int
      /\ 1 \in 1 .. n + 1 /\ IvSize \in 1 - 1 .. n /\ n \in IvSize .. n
  BY <1>1, <1>2
<1> HIDE DEF S, n
<1>4. SubSeq(c, 1, IvSize) \o SubSeq(c, IvSize + 1, n) = c
  <2>1. n = Len(c)
    BY DEF n
  <2>2. SubSeq(c, 1, IvSize) \o SubSeq(c, IvSize + 1, n) = SubSeq(c, 1, n)
    BY <1>1, <1>3, <2>1, ConcatAdjacentSubSeq
  <2> QED
    BY <1>1, <2>1, <2>2, SubSeqFull
<1>5. SubSeq(c, 1, IvSize) \in Seq(S) /\ Len(SubSeq(c, 1, IvSize)) = IvSize
  <2>1. \A i \in 1 .. IvSize : c[i] \in S
    BY <1>1, <1>2
  <2>2. /\ SubSeq(c, 1, IvSize) \in Seq(S)
        /\ Len(SubSeq(c, 1, IvSize)) = IF 1 <= IvSize THEN IvSize - 1 + 1 ELSE 0
    BY <1>3, <2>1, SubSeqProperties
  <2> QED
    BY <1>2, <2>2
<1>6. SubSeq(c, IvSize + 1, n) \in Seq(S) /\ Len(SubSeq(c, IvSize + 1, n)) = n - IvSize
  <2> DEFINE m == IvSize + 1
  <2>1. m \in Int /\ \A i \in m .. n : c[i] \in S
    BY <1>1, <1>2
  <2>2. n - m + 1 = n - IvSize /\ (m <= n \/ n - IvSize = 0)
    BY <1>1, <1>2
  <2> HIDE DEF m
  <2>3. /\ SubSeq(c, m, n) \in Seq(S)
        /\ Len(SubSeq(c, m, n)) = IF m <= n THEN n - m + 1 ELSE 0
    BY <1>3, <2>1, SubSeqProperties
  <2>4. Len(SubSeq(c, m, n)) = n - IvSize
    BY <1>1, <1>2, <2>1, <2>2, <2>3
  <2> QED
    BY <2>3, <2>4 DEF m
<1>7. IsBytes(SubSeq(c, 1, IvSize)) /\ IsBytes(SubSeq(c, IvSize + 1, n))
  BY <1>5, <1>6, SeqOfRange DEF IsBytes
<1> QED
  BY <1>4, <1>5, <1>6, <1>7 DEF n

LEMMA FrontBytes ==
  ASSUME NEW s, IsBytes(s)
  PROVE  IsBytes(Front(s))
<1> DEFINE S == Range(s)
           n == Len(s) - 1
<1>1. s \in Seq(S) /\ Len(s) \in Nat /\ n \in Int /\ 1 \in Int /\ \A i \in 1 .. n : s[i] \in S
  BY LenProperties, ElementOfSeq DEF IsBytes
<1> HIDE DEF S, n
<1>2. SubSeq(s, 1, n) \in Seq(S)
  BY <1>1, SubSeqProperties
<1> QED
  BY <1>2, SeqOfRange DEF IsBytes, Front, n

\* How many bytes a text takes when it is sealed.
Size(mode, pt) ==
  IF mode \in {"ecb", "cbc"} THEN Len(pt) + BlockSize - (Len(pt) % BlockSize)
                             ELSE Len(pt) + TagSize

LEMMA SizePositive ==
  ASSUME NEW mode, NEW pt, IsBytes(pt)
  PROVE  Size(mode, pt) \in Nat \ {0} /\ Len(pt) \in Nat
<1>1. Len(pt) \in Nat /\ BlockSize \in Nat \ {0} /\ TagSize \in Nat \ {0}
  BY LenProperties, SizeAssumption DEF IsBytes
<1>2. Len(pt) % BlockSize \in 0 .. BlockSize - 1
  BY <1>1
<1> QED
  BY <1>1, <1>2 DEF Size

LEMMA BytesForm ==
  ASSUME NEW mode, NEW p, NEW pt, NEW n \in Nat \ {0}
  PROVE  /\ IsBytes(Bytes(mode, p, pt, n)) /\ Len(Bytes(mode, p, pt, n)) = n
         /\ Bytes(mode, p, pt, n)[n] = <<mode, p, pt>>
<1> DEFINE f == Bytes(mode, p, pt, n)
           S == {f[j] : j \in 1 .. n}
<1>1. f \in [1 .. n -> S] /\ DOMAIN f = 1 .. n
  BY DEF Bytes
<1>2. f[n] = <<mode, p, pt>>
  BY DEF Bytes
<1> HIDE DEF f
<1>3. f \in Seq(S)
  BY <1>1, SeqDef
<1>4. Len(f) \in Nat /\ DOMAIN f = 1 .. Len(f)
  BY <1>3, LenProperties
<1>5. Len(f) = n
  BY <1>1, <1>4
<1>6. IsBytes(f)
  BY <1>3, SeqOfRange DEF IsBytes
<1> QED
  BY <1>2, <1>5, <1>6 DEF f

LEMMA SealedForm ==
  ASSUME NEW mode, NEW p, NEW pt, IsBytes(pt)
  PROVE  /\ IsBytes(SealedBytes(mode, p, pt))
         /\ Len(SealedBytes(mode, p, pt)) = Size(mode, pt) /\ Size(mode, pt) \in Nat \ {0}
         /\ mode \in {"gcm", "auto"} => Size(mode, pt) >= TagSize
<1>1. Size(mode, pt) \in Nat \ {0} /\ Len(pt) \in Nat
  BY SizePositive
<1>2. SealedBytes(mode, p, pt) =
        Bytes(IF mode \in {"ecb", "cbc"} THEN mode ELSE "gcm", p, pt, Size(mode, pt))
  BY DEF SealedBytes, Size
<1>3. mode \in {"gcm", "auto"} => Size(mode, pt) >= TagSize
  BY <1>1, SizeAssumption DEF Size
<1> QED
  BY <1>1, <1>2, <1>3, BytesForm

\* Bytes that are sealed hold one text.
LEMMA SealedInjective ==
  ASSUME NEW mode, NEW p, NEW pt, NEW qt, IsBytes(pt), IsBytes(qt),
         SealedBytes(mode, p, pt) = SealedBytes(mode, p, qt)
  PROVE  pt = qt
<1> DEFINE m == IF mode \in {"ecb", "cbc"} THEN mode ELSE "gcm"
           n == Size(mode, pt)
<1>1. /\ SealedBytes(mode, p, pt) = Bytes(m, p, pt, Size(mode, pt))
      /\ SealedBytes(mode, p, qt) = Bytes(m, p, qt, Size(mode, qt))
  BY DEF SealedBytes, Size
<1>2. n \in Nat \ {0} /\ Size(mode, qt) = n
  BY SealedForm
<1> HIDE DEF m, n
<1>3. Bytes(m, p, pt, n) = Bytes(m, p, qt, n)
  BY <1>1, <1>2 DEF n
<1>4. <<m, p, pt>> = <<m, p, qt>>
  BY <1>2, <1>3, BytesForm
<1> QED
  BY <1>4

\* The library opens what it sealed, and gives nothing else for it.
LEMMA AnswersOwn ==
  ASSUME NEW mode, NEW p, NEW pt \in Texted, NEW a \in Answers(mode, p, SealedBytes(mode, p, pt))
  PROVE  a = pt
<1> DEFINE of == {q \in Plaintexts : SealedBytes(mode, p, q) = SealedBytes(mode, p, pt)}
<1>1. pt \in of
  BY DEF Texted, Plaintexts
<1>2. a \in of
  BY <1>1 DEF Answers
<1>3. a \in Plaintexts /\ SealedBytes(mode, p, a) = SealedBytes(mode, p, pt)
  BY <1>2
<1>4. IsBytes(a) /\ IsBytes(pt)
  BY <1>3, ArgumentAssumption DEF Plaintexts, Texted, IsBytes
<1> QED
  BY <1>3, <1>4, SealedInjective

LEMMA GcmAnswers ==
  ASSUME NEW mode \in {"gcm", "auto"}, NEW p, NEW bytes, NEW a \in Answers(mode, p, bytes),
         a # Failure
  PROVE  a \in Plaintexts /\ bytes = SealedBytes("gcm", p, a)
<1>1. a \in {q \in Plaintexts : SealedBytes(mode, p, q) = bytes}
  BY DEF Answers
<1>2. SealedBytes(mode, p, a) = SealedBytes("gcm", p, a)
  BY DEF SealedBytes
<1> QED
  BY <1>1, <1>2

LEMMA CStringText ==
  ASSUME NEW t \in Texted
  PROVE  CString(t) = t
BY ArgumentAssumption DEF CString, Texted

-----------------------------------------------------------------------------
(* Going on and leaving *)

LEMMA KeyValue ==
  ASSUME NEW t \in KeyArgs \ {Null}, GetKeyBytes(t) # Failure
  PROVE  GetKeyBytes(t) \in Keys
<1>1. t.len \in {16, 32} /\ GetKeyBytes(t) = t.val /\ t.val # NotHex
  BY ArgumentAssumption DEF GetKeyBytes, HexText
<1> QED
  BY <1>1 DEF Keys, Accepted

LEMMA IvValue ==
  ASSUME NEW t \in IvArgs \ {Null}, NEW v \in {GetKeyBytes(t), GetGcmIv(t)}, v # Failure
  PROVE  v = t.val /\ v \in Ivs
<1>1. t.len \in {12, 16, 24, 32} /\ v = t.val /\ t.val # NotHex
  <2>1. CASE v = GetKeyBytes(t)
    BY <2>1, ArgumentAssumption DEF GetKeyBytes, HexText
  <2>2. CASE v = GetGcmIv(t)
    BY <2>2, ArgumentAssumption DEF GetGcmIv, HexText
  <2> QED
    BY <2>1, <2>2
<1> QED
  BY <1>1 DEF Ivs, Accepted

\* What functions may be given, and the IVs in it, only become more.
LEMMA GivenGrows ==
  ASSUME sealed \subseteq sealed'
  PROVE  Given \subseteq Given' /\ Ivs \subseteq Ivs'
BY DEF Given, Ivs, Heads

LEMMA GivenBytes ==
  ASSUME SealedInv, NEW c \in Given
  PROVE  IsBytes(c) /\ Len(c) \in Nat
<1>1. IsBytes(c)
  <2>1. CASE c \in StrayArgs
    BY <2>1, ArgumentAssumption DEF IsBytes
  <2>2. ASSUME NEW e \in sealed, c \in {e.bytes, Front(e.bytes)} PROVE IsBytes(c)
    BY <2>2, FrontBytes DEF SealedInv
  <2> QED
    BY <2>1, <2>2 DEF Given
<1> QED
  BY <1>1, LenProperties DEF IsBytes

LEMMA SameHistory ==
  ASSUME HistoryInv, sealed' = sealed, opened' = opened
  PROVE  HistoryInv'
<1>1. SealedInv' /\ OpenedInv'
  BY DEF HistoryInv, SealedInv, OpenedInv
<1>2. Authentic'
  BY DEF HistoryInv, Authentic
<1> QED
  BY <1>1, <1>2 DEF HistoryInv

\* The arguments do not change while a function works on them.
SameArguments ==
  /\ call'.fn = call.fn /\ call'.key = call.key /\ call'.iv = call.iv
  /\ call'.aad = call.aad /\ call'.data = call.data

LEMMA GoFacts ==
  ASSUME IInv, todo # <<>>, NEW a, NEW x, Go(a, x)
  PROVE  /\ todo' = Tail(todo) /\ SameArguments /\ call'.aad_str = a /\ call'.input = x
         /\ Sane(call.fn) /\ Runs(call.fn, Head(todo)) /\ Head(todo) \in StepNames
         /\ todo' # <<>> =>
              Follows(call.fn, Head(todo), Head(todo')) /\ Runs(call.fn, Head(todo'))
         /\ sealed' = sealed /\ opened' = opened
         /\ Given' = Given /\ Ivs' = Ivs
         /\ outcome'.kind = "running"
         /\ FrameInv' /\ HistoryInv' /\ SecretsWiped' /\ EmptyGivesNull'
<1>1. /\ Sane(call.fn) /\ Path(call.fn, todo) /\ outcome.kind = "running"
      /\ call = [fn |-> call.fn, key |-> call.key, iv |-> call.iv, aad |-> call.aad,
                 data |-> call.data, aad_str |-> call.aad_str, input |-> call.input]
  BY DEF IInv, FrameInv
<1>2. /\ todo' = Tail(todo) /\ outcome' = outcome
      /\ call' = [call EXCEPT !.aad_str = a, !.input = x]
      /\ sealed' = sealed /\ opened' = opened
  BY DEF Go, Logs
<1>3. /\ SameArguments /\ call'.aad_str = a /\ call'.input = x
      /\ call' = [fn |-> call'.fn, key |-> call'.key, iv |-> call'.iv, aad |-> call'.aad,
                  data |-> call'.data, aad_str |-> call'.aad_str, input |-> call'.input]
  BY <1>1, <1>2 DEF SameArguments
<1>4. /\ Path(call.fn, Tail(todo)) /\ Runs(call.fn, Head(todo)) /\ Head(todo) \in StepNames
      /\ Tail(todo) # <<>> =>
           Follows(call.fn, Head(todo), Head(Tail(todo))) /\ Runs(call.fn, Head(Tail(todo)))
  BY <1>1, PathTail
<1>5. Given' = Given /\ Ivs' = Ivs
  BY <1>2 DEF Given, Ivs, Heads
<1>6. FrameInv'
  BY <1>1, <1>2, <1>3, <1>4, <1>5 DEF IInv, FrameInv, SameArguments
<1>7. HistoryInv'
  BY <1>2, SameHistory DEF IInv
<1>8. SecretsWiped' /\ EmptyGivesNull'
  BY <1>1, <1>2 DEF SecretsWiped, EmptyGivesNull, Done
<1> QED
  BY <1>1, <1>2, <1>3, <1>4, <1>5, <1>6, <1>7, <1>8

\* Freeing what is held is no double free.
LEMMA FreeFacts ==
  ASSUME IInv, NEW new, NEW S, Free(new, S), S \subseteq heap \cup new
  PROVE  heap' = (heap \cup new) \ S /\ doubleFree' = FALSE
<1>1. doubleFree = FALSE
  BY DEF IInv, BlocksInv
<1> QED
  BY <1>1 DEF Free

LEMMA KeepFacts ==
  ASSUME IInv, Keep
  PROVE  heap' = heap /\ doubleFree' = FALSE
BY DEF IInv, BlocksInv, Keep

\* What is left to show of a step that goes on.
LEMMA GoInv ==
  ASSUME IInv, todo # <<>>, NEW a, NEW x, Go(a, x), ReadInv', InputInv',
         todo' # <<>> => heap' = HeldAt(call.fn, call.aad, Head(todo')),
         key_bytes' \in Keys \cup {Junk, Partial, Zeroed},
         iv_bytes' \in Ivs \cup {Junk, Partial, Zeroed},
         heap' \subseteq heap \cup {"plain_str", "aad_str", "hex_str", "cipher", "data"},
         doubleFree' = FALSE
  PROVE  IInv'
<1>1. /\ SameArguments /\ Ivs' = Ivs /\ outcome'.kind = "running"
      /\ FrameInv' /\ HistoryInv' /\ SecretsWiped' /\ EmptyGivesNull'
      /\ todo' = Tail(todo)
      /\ todo' # <<>> => Follows(call.fn, Head(todo), Head(todo'))
  BY GoFacts
<1>2. BlocksInv'
  BY <1>1 DEF BlocksInv, SameArguments
<1>3. HeapBalanced'
  BY <1>1 DEF HeapBalanced, Done
<1>4. TypeOK'
  <2>1. todo' # <<>> => Head(todo') # "key"
    BY <1>1 DEF Follows, Texts
  <2>2. todo' # <<>> => Head(todo') = "key" \/ key_bytes' \in Keys
    BY <2>1 DEF ReadInv, At
  <2>3. heap' \subseteq {"plain_str", "aad_str", "hex_str", "cipher", "data", "plain",
                         "cipher_with_tag", "base64_result", "key_str", "iv_str",
                         "cipher_base64_str"}
    BY DEF IInv, TypeOK
  <2> QED
    BY <1>1, <2>2, <2>3 DEF TypeOK
<1> QED
  BY <1>1, <1>2, <1>3, <1>4 DEF IInv

\* What is left to show of a way out: it frees what is held, it has wiped what
\* was read, and it gives NULL to an empty text and to no other.
LEMMA LeaveInv ==
  ASSUME IInv, todo # <<>>, NEW kind \in {"null", "value", "error"}, NEW value, NEW new, NEW S,
         Leave(kind, value, new, S), S = heap \cup new,
         key_bytes' \in Keys \cup {Junk, Partial, Zeroed},
         iv_bytes' \in Ivs \cup {Junk, Partial, Zeroed},
         At("key") \/ At("iv") \/ (key_bytes' = Zeroed /\ iv_bytes' \in {Zeroed, Junk}),
         At("key") \/ At("iv") \/ (kind = "null" <=> Empty),
         sealed \subseteq sealed', HistoryInv'
  PROVE  IInv'
<1>1. /\ todo' = <<>> /\ heap' = {} /\ doubleFree' = FALSE
      /\ outcome' = [kind |-> kind, value |-> value, at |-> Head(todo), empty |-> Empty]
  <2>1. doubleFree = FALSE
    BY DEF IInv, BlocksInv
  <2>2. /\ todo' = <<>> /\ heap' = (heap \cup new) \ S
        /\ doubleFree' = (doubleFree \/ ~ S \subseteq heap \cup new)
        /\ outcome' = [kind |-> kind, value |-> value, at |-> Head(todo), empty |-> Empty]
    BY DEF Leave, Free
  <2>3. (heap \cup new) \ S = {} /\ S \subseteq heap \cup new
    OBVIOUS
  <2> QED
    BY <2>1, <2>2, <2>3
<1>2. FrameInv' /\ ReadInv' /\ BlocksInv' /\ HeapBalanced'
  BY <1>1 DEF FrameInv, ReadInv, BlocksInv, HeapBalanced
<1>3. \A h : ~At(h)'
  BY <1>1 DEF At
<1>4. InputInv'
  BY <1>3 DEF InputInv
<1>5. TypeOK'
  <2>1. iv_bytes' \in Ivs' \cup {Junk, Partial, Zeroed}
    BY GivenGrows
  <2> QED
    BY <1>1, <2>1 DEF TypeOK
<1>6. SecretsWiped'
  BY <1>1 DEF SecretsWiped, At
<1>7. EmptyGivesNull'
  <2>1. Head(todo) # "arguments"
    BY PathTail DEF IInv, FrameInv, StepNames
  <2>2. outcome'.kind = kind /\ outcome'.at = Head(todo) /\ outcome'.empty = Empty
    BY <1>1
  <2>3. outcome'.at \notin {"key", "iv"} => (kind = "null" <=> Empty)
    BY <2>2 DEF At
  <2> QED
    BY <2>1, <2>2, <2>3 DEF EmptyGivesNull
<1> QED
  BY <1>1, <1>2, <1>4, <1>5, <1>6, <1>7 DEF IInv

-----------------------------------------------------------------------------
(* The steps *)

LEMMA AtFacts ==
  ASSUME IInv, NEW h, At(h)
  PROVE  /\ todo # <<>> /\ Head(todo) = h /\ \A g : At(g) <=> g = h
         /\ \A g : At(g)' <=> todo' # <<>> /\ Head(todo') = g
         /\ heap = HeldAt(call.fn, call.aad, h) /\ doubleFree = FALSE
         /\ Sane(call.fn) /\ Runs(call.fn, h)
         /\ key_bytes \in Keys \cup {Junk, Partial, Zeroed}
         /\ iv_bytes \in Ivs \cup {Junk, Partial, Zeroed}
         /\ h # "key" => key_bytes \in Keys /\ key_bytes = GetKeyBytes(call.key)
<1>1. todo # <<>> /\ Head(todo) = h
  BY DEF At
<1>2. Runs(call.fn, h)
  BY <1>1, PathTail DEF IInv, FrameInv
<1> QED
  BY <1>1, <1>2 DEF At, IInv, BlocksInv, FrameInv, TypeOK, ReadInv

LEMMA KeyRead ==
  ASSUME IInv, NEW h, At(h), h # "key"
  PROVE  key_bytes \in Keys /\ key_bytes = GetKeyBytes(call.key)
BY AtFacts

LEMMA FetchKeyStep ==
  ASSUME IInv, FetchKey
  PROVE  IInv'
<1> DEFINE k == GetKeyBytes(call.key)
<1>1. At("key")
  BY DEF FetchKey
<1>2. /\ todo # <<>> /\ Head(todo) = "key" /\ heap = {} /\ Sane(call.fn)
      /\ \A g : At(g) <=> g = "key"
      /\ \A g : At(g)' <=> todo' # <<>> /\ Head(todo') = g
      /\ key_bytes \in Keys \cup {Junk, Partial, Zeroed}
      /\ iv_bytes \in Ivs \cup {Junk, Partial, Zeroed}
  <2>1. /\ todo # <<>> /\ Head(todo) = "key" /\ Sane(call.fn)
        /\ heap = HeldAt(call.fn, call.aad, "key")
        /\ \A g : At(g) <=> g = "key"
        /\ \A g : At(g)' <=> todo' # <<>> /\ Head(todo') = g
        /\ key_bytes \in Keys \cup {Junk, Partial, Zeroed}
        /\ iv_bytes \in Ivs \cup {Junk, Partial, Zeroed}
    BY <1>1, AtFacts
  <2>2. HeldAt(call.fn, call.aad, "key") = {}
    BY DEF HeldAt
  <2> QED
    BY <2>1, <2>2
<1>3. CASE k = Failure
  <2>1. /\ key_bytes' = AfterFailure(call.key, key_bytes) /\ iv_bytes' = iv_bytes
        /\ Leave("error", Null, {"key_str"}, {"key_str"})
        /\ sealed' = sealed /\ opened' = opened
    BY <1>3 DEF FetchKey, Logs
  <2>2. key_bytes' \in Keys \cup {Junk, Partial, Zeroed}
    BY <1>2, <2>1 DEF AfterFailure
  <2>3. HistoryInv'
    BY <2>1, SameHistory DEF IInv
  <2>4. {"key_str"} = heap \cup {"key_str"}
    BY <1>2
  <2> QED
    BY <1>1, <1>2, <2>1, <2>2, <2>3, <2>4, LeaveInv
<1>4. CASE k # Failure
  <2>1. /\ key_bytes' = k /\ iv_bytes' = iv_bytes /\ Go(<<>>, <<>>)
        /\ heap' = {} /\ doubleFree' = FALSE
    <3>1. /\ key_bytes' = k /\ iv_bytes' = iv_bytes /\ Go(<<>>, <<>>)
          /\ Free({"key_str"}, {"key_str"})
      BY <1>4 DEF FetchKey
    <3>2. {"key_str"} \subseteq heap \cup {"key_str"}
      OBVIOUS
    <3>3. heap' = (heap \cup {"key_str"}) \ {"key_str"} /\ doubleFree' = FALSE
      BY <3>1, <3>2, FreeFacts
    <3> QED
      BY <1>2, <3>1, <3>3
  <2>2. k \in Keys
    BY <1>2, <1>4, KeyValue DEF IInv, FrameInv
  <2>3. /\ SameArguments
        /\ todo' # <<>> => Follows(call.fn, "key", Head(todo')) /\ Runs(call.fn, Head(todo'))
    BY <1>2, <2>1, GoFacts
  <2>4. todo' # <<>> => /\ Head(todo') \in {"iv", "aad"} \cup Texts
                        /\ TakesIv(call.fn) => Head(todo') = "iv"
                        /\ TakesAad(call.fn) => Head(todo') \in {"iv", "aad"}
    BY <2>3 DEF Follows, Texts
  <2>5. InputInv'
    BY <1>2, <2>4 DEF InputInv, Texts
  <2>6. ~TakesIv(call.fn) => iv_bytes = Junk
    BY <1>2 DEF IInv, ReadInv
  <2>7. ReadInv'
    BY <1>2, <2>1, <2>2, <2>3, <2>4, <2>6 DEF ReadInv, SameArguments
  <2>8. todo' # <<>> => heap' = HeldAt(call.fn, call.aad, Head(todo'))
    BY <1>2, <2>1, <2>4 DEF HeldAt, Texts
  <2> QED
    BY <1>2, <2>1, <2>2, <2>5, <2>7, <2>8, GoInv
<1> QED
  BY <1>3, <1>4

LEMMA FetchIvStep ==
  ASSUME IInv, FetchIv
  PROVE  IInv'
<1> DEFINE v == GetIv(call.iv)
<1>1. At("iv")
  BY DEF FetchIv
<1>2. /\ todo # <<>> /\ Head(todo) = "iv" /\ heap = {} /\ Sane(call.fn) /\ TakesIv(call.fn)
      /\ \A g : At(g) <=> g = "iv"
      /\ \A g : At(g)' <=> todo' # <<>> /\ Head(todo') = g
      /\ key_bytes \in Keys /\ key_bytes = GetKeyBytes(call.key)
      /\ iv_bytes \in Ivs \cup {Junk, Partial, Zeroed}
  <2>1. /\ todo # <<>> /\ Head(todo) = "iv" /\ Sane(call.fn)
        /\ heap = HeldAt(call.fn, call.aad, "iv") /\ Runs(call.fn, "iv")
        /\ \A g : At(g) <=> g = "iv"
        /\ \A g : At(g)' <=> todo' # <<>> /\ Head(todo') = g
        /\ iv_bytes \in Ivs \cup {Junk, Partial, Zeroed}
    BY <1>1, AtFacts
  <2>2. HeldAt(call.fn, call.aad, "iv") = {}
    BY DEF HeldAt
  <2>3. key_bytes \in Keys /\ key_bytes = GetKeyBytes(call.key)
    BY <1>1, KeyRead
  <2> QED
    BY <2>1, <2>2, <2>3 DEF Runs
<1>3. CASE v = Failure
  <2>1. /\ iv_bytes' = AfterFailure(call.iv, iv_bytes) /\ key_bytes' = key_bytes
        /\ Leave("error", Null, {"iv_str"}, {"iv_str"})
        /\ sealed' = sealed /\ opened' = opened
    BY <1>3 DEF FetchIv, Logs
  <2>2. iv_bytes' \in Ivs \cup {Junk, Partial, Zeroed}
    BY <1>2, <2>1 DEF AfterFailure
  <2>3. HistoryInv'
    BY <2>1, SameHistory DEF IInv
  <2>4. {"iv_str"} = heap \cup {"iv_str"}
    BY <1>2
  <2> QED
    BY <1>1, <1>2, <2>1, <2>2, <2>3, <2>4, LeaveInv
<1>4. CASE v # Failure
  <2>1. /\ iv_bytes' = v /\ key_bytes' = key_bytes /\ Go(<<>>, <<>>)
        /\ heap' = {} /\ doubleFree' = FALSE
    <3>1. /\ iv_bytes' = v /\ key_bytes' = key_bytes /\ Go(<<>>, <<>>)
          /\ Free({"iv_str"}, {"iv_str"})
      BY <1>4 DEF FetchIv
    <3>2. {"iv_str"} \subseteq heap \cup {"iv_str"}
      OBVIOUS
    <3>3. heap' = (heap \cup {"iv_str"}) \ {"iv_str"} /\ doubleFree' = FALSE
      BY <3>1, <3>2, FreeFacts
    <3> QED
      BY <1>2, <3>1, <3>3
  <2>2. v = call.iv.val /\ v \in Ivs
    <3>1. call.iv \in IvArgs \ {Null} /\ v \in {GetKeyBytes(call.iv), GetGcmIv(call.iv)}
      BY <1>2 DEF IInv, FrameInv, GetIv
    <3> QED
      BY <1>4, <3>1, IvValue
  <2>3. /\ SameArguments
        /\ todo' # <<>> => Follows(call.fn, "iv", Head(todo')) /\ Runs(call.fn, Head(todo'))
    BY <1>2, <2>1, GoFacts
  <2>4. todo' # <<>> => /\ Head(todo') \in {"aad"} \cup Texts
                        /\ TakesAad(call.fn) => Head(todo') = "aad"
    BY <2>3 DEF Follows, Texts
  <2>5. InputInv'
    BY <1>2, <2>4 DEF InputInv, Texts
  <2>6. ReadInv'
    BY <1>2, <2>1, <2>2, <2>3, <2>4 DEF ReadInv, SameArguments, Texts
  <2>7. todo' # <<>> => heap' = HeldAt(call.fn, call.aad, Head(todo'))
    BY <1>2, <2>1, <2>4 DEF HeldAt, Texts
  <2> QED
    BY <1>2, <2>1, <2>2, <2>5, <2>6, <2>7, GoInv
<1> QED
  BY <1>3, <1>4

LEMMA FetchAadStep ==
  ASSUME IInv, FetchAad
  PROVE  IInv'
<1>1. At("aad") /\ Go(AadBytes(call.aad), <<>>) /\ key_bytes' = key_bytes /\ iv_bytes' = iv_bytes
      /\ heap' = heap \cup (IF call.aad = Null THEN {} ELSE {"aad_str"})
      /\ doubleFree' = FALSE
  <2> DEFINE new == IF call.aad = Null THEN {} ELSE {"aad_str"}
  <2>1. /\ At("aad") /\ Go(AadBytes(call.aad), <<>>)
        /\ key_bytes' = key_bytes /\ iv_bytes' = iv_bytes /\ Free(new, {})
    BY DEF FetchAad
  <2> HIDE DEF new
  <2>2. heap' = heap \cup new /\ doubleFree' = FALSE
    <3>1. {} \subseteq heap \cup new
      OBVIOUS
    <3>2. heap' = (heap \cup new) \ {} /\ doubleFree' = FALSE
      BY <2>1, <3>1, FreeFacts
    <3> QED
      BY <3>2
  <2> QED
    BY <2>1, <2>2 DEF new
<1>2. /\ todo # <<>> /\ Head(todo) = "aad" /\ heap = {} /\ Sane(call.fn) /\ TakesAad(call.fn)
      /\ \A g : At(g) <=> g = "aad"
      /\ \A g : At(g)' <=> todo' # <<>> /\ Head(todo') = g
      /\ key_bytes \in Keys /\ key_bytes = GetKeyBytes(call.key)
      /\ iv_bytes \in Ivs \cup {Junk, Partial, Zeroed}
  <2>1. /\ todo # <<>> /\ Head(todo) = "aad" /\ Sane(call.fn)
        /\ heap = HeldAt(call.fn, call.aad, "aad") /\ Runs(call.fn, "aad")
        /\ \A g : At(g) <=> g = "aad"
        /\ \A g : At(g)' <=> todo' # <<>> /\ Head(todo') = g
        /\ iv_bytes \in Ivs \cup {Junk, Partial, Zeroed}
    BY <1>1, AtFacts
  <2>2. HeldAt(call.fn, call.aad, "aad") = {}
    BY DEF HeldAt
  <2>3. key_bytes \in Keys /\ key_bytes = GetKeyBytes(call.key)
    BY <1>1, KeyRead
  <2> QED
    BY <2>1, <2>2, <2>3 DEF Runs
<1>3. /\ SameArguments /\ call'.aad_str = AadBytes(call.aad)
      /\ todo' # <<>> => Follows(call.fn, "aad", Head(todo'))
  BY <1>1, <1>2, GoFacts
<1>4. todo' # <<>> => Head(todo') \in Texts
  BY <1>3 DEF Follows
<1>5. InputInv'
  BY <1>2, <1>4 DEF InputInv, Texts
<1>6. /\ ~TakesIv(call.fn) => iv_bytes = Junk
      /\ TakesIv(call.fn) => iv_bytes = call.iv.val
  BY <1>2 DEF IInv, ReadInv
<1>7. ReadInv'
  BY <1>1, <1>2, <1>3, <1>4, <1>6 DEF ReadInv, SameArguments, Texts
<1>8. todo' # <<>> => heap' = HeldAt(call.fn, call.aad, Head(todo'))
  BY <1>1, <1>2, <1>4 DEF HeldAt, Texts
<1> QED
  BY <1>1, <1>2, <1>5, <1>7, <1>8, GoInv

\* Where a text is fetched, key and IV are read and the AAD is the only block.
LEMMA AtText ==
  ASSUME IInv, NEW h \in Texts, At(h)
  PROVE  /\ heap = IF TakesAad(call.fn) /\ call.aad # Null THEN {"aad_str"} ELSE {}
         /\ heap = AadBlock
         /\ ~TakesIv(call.fn) => iv_bytes = Junk
         /\ TakesIv(call.fn) => iv_bytes = call.iv.val
         /\ TakesAad(call.fn) => call.aad_str = AadBytes(call.aad)
<1>1. /\ todo # <<>> /\ \A g : At(g) <=> g = h
      /\ heap = HeldAt(call.fn, call.aad, h)
  BY AtFacts
<1>2. heap = IF TakesAad(call.fn) /\ call.aad # Null THEN {"aad_str"} ELSE {}
  BY <1>1 DEF HeldAt, Texts
<1> QED
  BY <1>1, <1>2 DEF IInv, ReadInv, Texts, AadBlock

\* WipeArgs leaves nothing behind, in a function that has not drawn or split off
\* an IV.
LEMMA Wiped ==
  ASSUME IInv, NEW h, At(h), h \notin {"key", "iv"},
         \/ WipeBoth
         \/ WipeKey /\ ~TakesIv(call.fn) /\ h \notin {"seal", "open"}
         \/ WipeArgs /\ h \notin {"seal", "open"}
  PROVE  key_bytes' = Zeroed /\ iv_bytes' \in {Zeroed, Junk}
<1>1. /\ todo # <<>> /\ \A g : At(g) <=> g = h
      /\ Sane(call.fn)
  BY AtFacts
<1>2. call.fn.mode = "ecb" => iv_bytes = Junk
  BY <1>1 DEF IInv, ReadInv, TakesIv
<1>3. ~TakesIv(call.fn) /\ h \notin {"seal", "open"} => iv_bytes = Junk
  BY <1>1 DEF IInv, ReadInv
<1>4. WipeBoth => key_bytes' = Zeroed /\ iv_bytes' \in {Zeroed, Junk}
  BY <1>2 DEF WipeBoth, Fn
<1>5. WipeKey => key_bytes' = Zeroed /\ iv_bytes' = iv_bytes
  BY DEF WipeKey
<1>6. WipeArgs => WipeBoth \/ (WipeKey /\ ~TakesIv(call.fn))
  BY DEF WipeArgs, Fn, TakesIv
<1> QED
  BY <1>3, <1>4, <1>5, <1>6

\* A step after the arguments leaves them as they were read.
LEMMA ReadKept ==
  ASSUME IInv, NEW h, At(h), h \notin {"key", "iv", "aad"}, NEW a, NEW x, Go(a, x),
         TakesAad(call.fn) => a = call.aad_str, key_bytes' = key_bytes,
         iv_bytes' = iv_bytes \/ h \in {"random", "split"}
  PROVE  ReadInv'
<1>1. /\ todo # <<>> /\ Head(todo) = h /\ Sane(call.fn) /\ Runs(call.fn, h)
      /\ \A g : At(g) <=> g = h
      /\ \A g : At(g)' <=> todo' # <<>> /\ Head(todo') = g
  BY AtFacts
<1>2. key_bytes \in Keys /\ key_bytes = GetKeyBytes(call.key)
  BY KeyRead
<1>3. /\ SameArguments /\ call'.aad_str = a
      /\ todo' # <<>> => Follows(call.fn, h, Head(todo'))
  BY <1>1, GoFacts
<1>4. todo' # <<>> =>
        /\ h \notin {"seal", "open"} /\ Head(todo') \notin {"key", "iv", "aad"}
        /\ h \in {"random", "split"} => Head(todo') \in {"seal", "open"}
  BY <1>3 DEF Follows, Texts
<1>5. TakesAad(call.fn) => a = AadBytes(call.aad)
  BY <1>1 DEF IInv, ReadInv
<1>6. TakesIv(call.fn) => iv_bytes = call.iv.val
  BY <1>1 DEF IInv, ReadInv
<1>7. h \notin {"seal", "open"} /\ ~TakesIv(call.fn) => iv_bytes = Junk
  BY <1>1 DEF IInv, ReadInv
<1>8. h \in {"random", "split"} => call.fn.mode = "auto" /\ ~TakesIv(call.fn)
  BY <1>1 DEF Runs, TakesIv
<1> QED
  BY <1>1, <1>2, <1>3, <1>4, <1>5, <1>6, <1>7, <1>8 DEF ReadInv, SameArguments

LEMMA SameEmpty ==
  ASSUME SameArguments
  PROVE  Empty' <=> Empty
BY DEF SameArguments, Empty, Fn

LEMMA FetchPlainStep ==
  ASSUME IInv, FetchPlain
  PROVE  IInv'
<1>1. At("plain")
  BY DEF FetchPlain
<1>2. /\ todo # <<>> /\ Head(todo) = "plain" /\ Sane(call.fn) /\ Runs(call.fn, "plain")
      /\ \A g : At(g)' <=> todo' # <<>> /\ Head(todo') = g
      /\ key_bytes \in Keys \cup {Junk, Partial, Zeroed}
      /\ iv_bytes \in Ivs \cup {Junk, Partial, Zeroed}
  BY <1>1, AtFacts
<1>3. /\ heap = IF TakesAad(call.fn) /\ call.aad # Null THEN {"aad_str"} ELSE {}
      /\ heap = AadBlock
  BY <1>1, AtText DEF Texts
<1>4. CASE Empty
  <2>1. /\ WipeArgs /\ Leave("null", Null, {"plain_str"}, {"plain_str"} \cup AadBlock)
        /\ sealed' = sealed /\ opened' = opened
    BY <1>4 DEF FetchPlain, Logs
  <2>2. key_bytes' = Zeroed /\ iv_bytes' \in {Zeroed, Junk}
    BY <1>1, <2>1, Wiped
  <2>3. HistoryInv'
    BY <2>1, SameHistory DEF IInv
  <2>4. {"plain_str"} \cup AadBlock = heap \cup {"plain_str"}
    BY <1>3
  <2> QED
    BY <1>2, <1>4, <2>1, <2>2, <2>3, <2>4, LeaveInv
<1>5. CASE ~Empty
  <2>1. /\ key_bytes' = key_bytes /\ iv_bytes' = iv_bytes /\ Go(call.aad_str, call.data)
        /\ heap' = heap \cup {"plain_str"} /\ doubleFree' = FALSE
    <3>1. /\ key_bytes' = key_bytes /\ iv_bytes' = iv_bytes /\ Go(call.aad_str, call.data)
          /\ Free({"plain_str"}, {})
      BY <1>5 DEF FetchPlain
    <3>2. {} \subseteq heap \cup {"plain_str"}
      OBVIOUS
    <3>3. heap' = (heap \cup {"plain_str"}) \ {} /\ doubleFree' = FALSE
      BY <3>1, <3>2, FreeFacts
    <3> QED
      BY <3>1, <3>3
  <2>2. /\ SameArguments /\ call'.input = call.data
        /\ todo' # <<>> => Follows(call.fn, "plain", Head(todo'))
    BY <1>2, <2>1, GoFacts
  <2>3. todo' # <<>> => Head(todo') = IF call.fn.mode = "auto" THEN "random" ELSE "seal"
    BY <2>2 DEF Follows, Texts
  <2>4. ReadInv'
    BY <1>1, <2>1, ReadKept
  <2>5. InputInv'
    <3>1. ~Empty'
      BY <1>5, <2>2, SameEmpty
    <3> QED
      BY <1>2, <2>2, <2>3, <3>1 DEF InputInv, SameArguments
  <2>6. todo' # <<>> => heap' = HeldAt(call.fn, call.aad, Head(todo'))
    BY <1>3, <2>1, <2>3 DEF HeldAt
  <2> QED
    BY <1>2, <2>1, <2>4, <2>5, <2>6, GoInv
<1> QED
  BY <1>4, <1>5

\* A record is no empty text.
LEMMA GivenEmpty ==
  ASSUME IInv, todo # <<>>, call.fn.dir = "decrypt"
  PROVE  /\ Empty <=> call.data.bytes = <<>>
         /\ call.data.bytes \in Given \/ (call.data.bytes = Malformed /\ call.fn.coding # "bytea")
<1>1. /\ call.data = [coding |-> call.data.coding, bytes |-> call.data.bytes]
      /\ call.data.bytes \in Given \/ (call.data.bytes = Malformed /\ call.fn.coding # "bytea")
  BY DEF IInv, FrameInv
<1>2. ASSUME NEW c, NEW b PROVE [coding |-> c, bytes |-> b] # <<>>
  <2>1. "bytes" \in DOMAIN [coding |-> c, bytes |-> b]
    OBVIOUS
  <2>2. DOMAIN <<>> = {}
    OBVIOUS
  <2> QED
    BY <2>1, <2>2
<1>3. call.data # <<>>
  BY <1>1, <1>2
<1> QED
  BY <1>1, <1>3 DEF Empty, Fn

\* A decrypting function that has its bytes goes on, with the blocks it holds
\* for them.
LEMMA Fetched ==
  ASSUME IInv, NEW h \in {"cipher", "hex", "base64"}, At(h), ~Empty, call.data.bytes \in Given,
         NEW a, Go(a, call.data.bytes), TakesAad(call.fn) => a = call.aad_str,
         key_bytes' = key_bytes, iv_bytes' = iv_bytes,
         heap' = heap \cup IF h = "hex" THEN HexBlocks ELSE IF h = "base64" THEN {"data"} ELSE {},
         doubleFree' = FALSE
  PROVE  IInv'
<1>1. /\ todo # <<>> /\ Head(todo) = h /\ Sane(call.fn) /\ Runs(call.fn, h)
      /\ \A g : At(g)' <=> todo' # <<>> /\ Head(todo') = g
      /\ key_bytes \in Keys \cup {Junk, Partial, Zeroed}
      /\ iv_bytes \in Ivs \cup {Junk, Partial, Zeroed}
  BY AtFacts
<1>2. h \in Texts /\ h \notin {"key", "iv", "aad"}
  BY DEF Texts
<1>3. heap = IF TakesAad(call.fn) /\ call.aad # Null THEN {"aad_str"} ELSE {}
  BY <1>2, AtText
<1>4. /\ SameArguments /\ call'.input = call.data.bytes /\ Given' = Given
      /\ todo' # <<>> => Follows(call.fn, h, Head(todo'))
  BY <1>1, GoFacts
<1>5. todo' # <<>> =>
        Head(todo') = IF call.fn.mode = "auto" THEN "split"
                      ELSE IF call.fn.mode = "gcm" THEN "length" ELSE "open"
  BY <1>4 DEF Follows
<1>6. ReadInv'
  BY <1>2, ReadKept
<1>7. InputInv'
  <2>1. ~Empty'
    BY <1>4, SameEmpty
  <2> QED
    BY <1>1, <1>4, <1>5, <2>1 DEF InputInv, SameArguments
<1>8. todo' # <<>> => heap' = HeldAt(call.fn, call.aad, Head(todo'))
  <2>1. call.fn.coding = IF h = "cipher" THEN "bytea" ELSE h
    BY <1>1 DEF Runs
  <2> QED
    BY <1>3, <1>5, <2>1 DEF HeldAt
<1>9. heap' \subseteq heap \cup {"plain_str", "aad_str", "hex_str", "cipher", "data"}
  BY DEF HexBlocks
<1> QED
  BY <1>1, <1>6, <1>7, <1>8, <1>9, GoInv

LEMMA FetchCipherStep ==
  ASSUME IInv, FetchCipher
  PROVE  IInv'
<1>1. At("cipher")
  BY DEF FetchCipher
<1>2. /\ todo # <<>> /\ Sane(call.fn) /\ Runs(call.fn, "cipher")
  BY <1>1, AtFacts
<1>3. heap = AadBlock
  BY <1>1, AtText DEF Texts
<1>4. CASE Empty
  <2>1. /\ WipeArgs /\ Leave("null", Null, {}, AadBlock)
        /\ sealed' = sealed /\ opened' = opened
    BY <1>4 DEF FetchCipher, Logs
  <2>2. key_bytes' = Zeroed /\ iv_bytes' \in {Zeroed, Junk}
    BY <1>1, <2>1, Wiped
  <2>3. HistoryInv'
    BY <2>1, SameHistory DEF IInv
  <2>4. AadBlock = heap \cup {}
    BY <1>3
  <2> QED
    BY <1>2, <1>4, <2>1, <2>2, <2>3, <2>4, LeaveInv
<1>5. CASE ~Empty
  <2>1. /\ key_bytes' = key_bytes /\ iv_bytes' = iv_bytes /\ heap' = heap
        /\ Go(call.aad_str, call.data.bytes) /\ doubleFree' = FALSE
    BY <1>5, KeepFacts DEF FetchCipher
  <2>2. call.data.bytes \in Given
    BY <1>2, GivenEmpty DEF Runs
  <2>3. heap' = heap \cup {}
    BY <2>1
  <2> QED
    BY <1>1, <1>5, <2>1, <2>2, <2>3, Fetched
<1> QED
  BY <1>4, <1>5

LEMMA FetchHexStep ==
  ASSUME IInv, FetchHex
  PROVE  IInv'
<1>1. At("hex")
  BY DEF FetchHex
<1>2. /\ todo # <<>> /\ Sane(call.fn) /\ Runs(call.fn, "hex") /\ ~TakesAad(call.fn)
      /\ ~TakesIv(call.fn)
  <2>1. todo # <<>> /\ Sane(call.fn) /\ Runs(call.fn, "hex")
    BY <1>1, AtFacts
  <2> QED
    BY <2>1 DEF Runs, Sane, TakesAad, TakesIv
<1>3. heap = {}
  BY <1>1, <1>2, AtText DEF Texts
<1>4. /\ Empty <=> call.data.bytes = <<>>
      /\ call.data.bytes \in Given \/ call.data.bytes = Malformed
  BY <1>2, GivenEmpty DEF Runs
<1>5. CASE Empty /\ WipeKey /\ Leave("null", Null, {"hex_str"}, {"hex_str"}) /\ UNCHANGED Logs
  <2>1. sealed' = sealed /\ opened' = opened
    BY <1>5 DEF Logs
  <2>2. key_bytes' = Zeroed /\ iv_bytes' \in {Zeroed, Junk}
    BY <1>1, <1>2, <1>5, Wiped
  <2>3. HistoryInv'
    BY <2>1, SameHistory DEF IInv
  <2>4. {"hex_str"} = heap \cup {"hex_str"}
    BY <1>3
  <2> QED
    BY <1>2, <1>5, <2>1, <2>2, <2>3, <2>4, LeaveInv
<1>6. CASE /\ call.data.bytes = Malformed
           /\ WipeKey /\ Leave("error", Null, HexBlocks, HexBlocks) /\ UNCHANGED Logs
  <2>1. sealed' = sealed /\ opened' = opened
    BY <1>6 DEF Logs
  <2>2. key_bytes' = Zeroed /\ iv_bytes' \in {Zeroed, Junk}
    BY <1>1, <1>2, <1>6, Wiped
  <2>3. HistoryInv'
    BY <2>1, SameHistory DEF IInv
  <2>4. HexBlocks = heap \cup HexBlocks
    BY <1>3
  <2>5. ~Empty
    BY <1>4, <1>6, ArgumentAssumption
  <2> QED
    BY <1>2, <1>6, <2>1, <2>2, <2>3, <2>4, <2>5, LeaveInv
<1>7. CASE /\ call.data.bytes \notin {<<>>, Malformed}
           /\ Free(HexBlocks, {})
           /\ Go(<<>>, call.data.bytes) /\ UNCHANGED <<key_bytes, iv_bytes>>
  <2>1. ~Empty /\ call.data.bytes \in Given
    BY <1>4, <1>7
  <2>2. heap' = heap \cup HexBlocks /\ doubleFree' = FALSE
    <3>1. {} \subseteq heap \cup HexBlocks
      OBVIOUS
    <3>2. heap' = (heap \cup HexBlocks) \ {} /\ doubleFree' = FALSE
      BY <1>7, <3>1, FreeFacts
    <3> QED
      BY <3>2
  <2> QED
    BY <1>1, <1>2, <1>7, <2>1, <2>2, Fetched
<1> QED
  BY <1>5, <1>6, <1>7 DEF FetchHex

LEMMA FetchBase64Step ==
  ASSUME IInv, FetchBase64
  PROVE  IInv'
<1>1. At("base64")
  BY DEF FetchBase64
<1>2. /\ todo # <<>> /\ Sane(call.fn) /\ Runs(call.fn, "base64")
  BY <1>1, AtFacts
<1>3. heap = AadBlock
  BY <1>1, AtText DEF Texts
<1>4. /\ Empty <=> call.data.bytes = <<>>
      /\ call.data.bytes \in Given \/ call.data.bytes = Malformed
  BY <1>2, GivenEmpty DEF Runs
<1>5. ASSUME NEW kind \in {"null", "error"}, kind = "null" <=> Empty,
             NEW new, WipeArgs, Leave(kind, Null, new, new \cup AadBlock), UNCHANGED Logs
      PROVE  IInv'
  <2>1. sealed' = sealed /\ opened' = opened
    BY <1>5 DEF Logs
  <2>2. key_bytes' = Zeroed /\ iv_bytes' \in {Zeroed, Junk}
    BY <1>1, <1>5, Wiped
  <2>3. HistoryInv'
    BY <2>1, SameHistory DEF IInv
  <2>4. new \cup AadBlock = heap \cup new
    BY <1>3
  <2> QED
    BY <1>2, <1>5, <2>1, <2>2, <2>3, <2>4, LeaveInv
<1>6. CASE Empty /\ WipeArgs /\ Leave("null", Null, {}, AadBlock) /\ UNCHANGED Logs
  <2>1. {} \cup AadBlock = AadBlock
    OBVIOUS
  <2>2. Leave("null", Null, {}, {} \cup AadBlock)
    BY <1>6, <2>1
  <2> QED
    BY <1>5, <1>6, <2>2
<1>7. CASE /\ call.data.bytes = Malformed
           /\ WipeArgs /\ Leave("error", Null, Base64Blocks, Base64Blocks \cup AadBlock)
           /\ UNCHANGED Logs
  <2>1. ~Empty
    BY <1>4, <1>7, ArgumentAssumption
  <2> QED
    BY <1>5, <1>7, <2>1
<1>8. CASE /\ call.data.bytes \notin {<<>>, Malformed}
           /\ Free(Base64Blocks, {"cipher_base64_str"})
           /\ Go(call.aad_str, call.data.bytes) /\ UNCHANGED <<key_bytes, iv_bytes>>
  <2>1. ~Empty /\ call.data.bytes \in Given
    BY <1>4, <1>8
  <2>2. heap' = (heap \cup Base64Blocks) \ {"cipher_base64_str"} /\ doubleFree' = FALSE
    BY <1>8, FreeFacts DEF Base64Blocks
  <2>3. heap' = heap \cup {"data"}
    BY <1>3, <2>2 DEF Base64Blocks, AadBlock
  <2> QED
    BY <1>1, <1>2, <1>8, <2>1, <2>2, <2>3, Fetched
<1> QED
  BY <1>6, <1>7, <1>8 DEF FetchBase64

\* What a decrypting function holds while it works.
LEMMA HeldOpening ==
  ASSUME IInv, NEW h \in {"length", "split", "open"}, At(h)
  PROVE  heap = AadBlock \cup DataBlock \cup IF Fn.coding = "hex" THEN HexBlocks ELSE {}
<1>1. heap = HeldAt(call.fn, call.aad, h) /\ Sane(call.fn)
  BY AtFacts
<1>2. heap = (IF TakesAad(call.fn) /\ call.aad # Null THEN {"aad_str"} ELSE {})
             \cup IF call.fn.coding = "hex" THEN HexBlocks
                  ELSE IF call.fn.coding = "base64" THEN {"data"} ELSE {}
  BY <1>1 DEF HeldAt
<1>3. AadBlock = IF TakesAad(call.fn) /\ call.aad # Null THEN {"aad_str"} ELSE {}
  BY <1>2 DEF AadBlock, HexBlocks
<1> QED
  BY <1>2, <1>3 DEF DataBlock, Fn

\* A finished decryption is recorded: if no text would have been sealed as its
\* bytes, its result is right whatever it is.
LEMMA RecordOpened ==
  ASSUME IInv, NEW result, Opened(result),
         \A text \in Texted :
           Holds(call.fn.mode, Meaning, call.data.bytes, text) => result = text,
         call.fn.mode \in {"gcm", "auto"} /\ result # Failure =>
           \E pt \in Plaintexts :
             /\ result = CString(pt)
             /\ \/ call.fn.mode = "gcm" /\ call.data.bytes = SealedBytes("gcm", Meaning, pt)
                \/ /\ call.fn.mode = "auto"
                   /\ LET iv == SubSeq(call.data.bytes, 1, IvSize)
                      IN  call.data.bytes =
                            iv \o SealedBytes("gcm", [Meaning EXCEPT !.iv = iv], pt)
  PROVE  HistoryInv' /\ sealed' = sealed
<1> DEFINE d == [mode |-> call.fn.mode, coding |-> call.fn.coding, param |-> Meaning,
                 bytes |-> call.data.bytes, text |-> result]
<1>1. opened' = opened \cup {d} /\ sealed' = sealed
  BY DEF Opened, Fn
<1>2. /\ d.mode = call.fn.mode /\ d.param = Meaning /\ d.bytes = call.data.bytes
      /\ d.text = result
  OBVIOUS
<1> HIDE DEF d
<1>3. SealedInv'
  BY <1>1 DEF IInv, HistoryInv, SealedInv
<1>4. OpenedInv'
  BY <1>1, <1>2 DEF IInv, HistoryInv, OpenedInv
<1>5. Authentic'
  <2> SUFFICES ASSUME NEW e \in opened', e.mode \in {"gcm", "auto"}, e.text # Failure
               PROVE  \E pt \in Plaintexts :
                        /\ e.text = CString(pt)
                        /\ \/ e.mode = "gcm" /\ e.bytes = SealedBytes("gcm", e.param, pt)
                           \/ /\ e.mode = "auto"
                              /\ LET iv == SubSeq(e.bytes, 1, IvSize)
                                 IN  e.bytes =
                                       iv \o SealedBytes("gcm", [e.param EXCEPT !.iv = iv], pt)
    BY DEF Authentic
  <2>1. CASE e \in opened
    BY <2>1 DEF IInv, HistoryInv, Authentic
  <2>2. CASE e = d
    BY <1>2, <2>2
  <2> QED
    BY <1>1, <2>1, <2>2
<1> QED
  BY <1>1, <1>3, <1>4, <1>5 DEF HistoryInv

LEMMA CheckLengthStep ==
  ASSUME IInv, CheckLength
  PROVE  IInv'
<1>1. At("length")
  BY DEF CheckLength
<1>2. /\ todo # <<>> /\ Head(todo) = "length" /\ Sane(call.fn) /\ Runs(call.fn, "length")
      /\ heap = HeldAt(call.fn, call.aad, "length")
      /\ \A g : At(g)' <=> todo' # <<>> /\ Head(todo') = g
      /\ key_bytes \in Keys \cup {Junk, Partial, Zeroed}
      /\ iv_bytes \in Ivs \cup {Junk, Partial, Zeroed}
  BY <1>1, AtFacts
<1>3. call.fn.mode = "gcm" /\ call.fn.coding # "hex"
  BY <1>2 DEF Runs, Sane
<1>4. heap = AadBlock \cup DataBlock
  <2>1. heap = AadBlock \cup DataBlock \cup IF Fn.coding = "hex" THEN HexBlocks ELSE {}
    BY <1>1, HeldOpening
  <2> QED
    BY <1>3, <2>1 DEF Fn
<1>5. /\ ~Empty /\ call.data.bytes \in Given /\ call.input = call.data.bytes
  BY <1>1 DEF IInv, InputInv
<1>6. Len(call.input) \in Nat /\ TagSize \in Nat
  BY <1>5, GivenBytes, SizeAssumption DEF IInv, HistoryInv
<1>7. CASE Len(call.input) < TagSize
  <2>1. WipeBoth /\ Leave("error", Null, {}, AadBlock \cup DataBlock) /\ Opened(Failure)
    BY <1>7 DEF CheckLength
  <2>2. key_bytes' = Zeroed /\ iv_bytes' \in {Zeroed, Junk}
    BY <1>1, <2>1, Wiped
  <2>3. ASSUME NEW text \in Texted, Holds(call.fn.mode, Meaning, call.data.bytes, text)
        PROVE  FALSE
    <3>1. call.data.bytes = SealedBytes("gcm", Meaning, text)
      BY <1>3, <2>3 DEF Holds
    <3>2. IsBytes(text)
      BY ArgumentAssumption DEF Texted, IsBytes
    <3>3. Len(call.data.bytes) >= TagSize
      BY <3>1, <3>2, SealedForm
    <3> QED
      BY <1>5, <1>6, <1>7, <3>3
  <2>4. HistoryInv' /\ sealed' = sealed
    BY <2>1, <2>3, RecordOpened
  <2>5. AadBlock \cup DataBlock = heap \cup {}
    BY <1>4
  <2> QED
    BY <1>2, <1>5, <2>1, <2>2, <2>4, <2>5, LeaveInv
<1>8. CASE ~(Len(call.input) < TagSize)
  <2>1. /\ key_bytes' = key_bytes /\ iv_bytes' = iv_bytes /\ heap' = heap
        /\ Go(call.aad_str, call.input) /\ doubleFree' = FALSE
    BY <1>8, KeepFacts DEF CheckLength
  <2>2. /\ SameArguments /\ call'.input = call.input /\ Given' = Given
        /\ todo' # <<>> => Follows(call.fn, "length", Head(todo'))
    BY <1>2, <2>1, GoFacts
  <2>3. todo' # <<>> => Head(todo') = "open"
    BY <2>2 DEF Follows, Texts
  <2>4. ReadInv'
    BY <1>1, <2>1, ReadKept
  <2>5. InputInv'
    <3>1. ~Empty'
      BY <1>5, <2>2, SameEmpty
    <3>2. Len(call.input) >= TagSize
      BY <1>6, <1>8
    <3> QED
      BY <1>2, <1>3, <1>5, <2>2, <2>3, <3>1, <3>2 DEF InputInv, SameArguments
  <2>6. todo' # <<>> => heap' = HeldAt(call.fn, call.aad, Head(todo'))
    BY <1>2, <2>1, <2>3 DEF HeldAt
  <2> QED
    BY <1>2, <2>1, <2>4, <2>5, <2>6, GoInv
<1> QED
  BY <1>7, <1>8

LEMMA SplitIvStep ==
  ASSUME IInv, SplitIv
  PROVE  IInv'
<1>1. At("split")
  BY DEF SplitIv
<1>2. /\ todo # <<>> /\ Head(todo) = "split" /\ Sane(call.fn) /\ Runs(call.fn, "split")
      /\ heap = HeldAt(call.fn, call.aad, "split")
      /\ \A g : At(g)' <=> todo' # <<>> /\ Head(todo') = g
      /\ key_bytes \in Keys \cup {Junk, Partial, Zeroed}
      /\ iv_bytes \in Ivs \cup {Junk, Partial, Zeroed}
  BY <1>1, AtFacts
<1>3. call.fn.mode = "auto" /\ call.fn.coding # "hex" /\ ~TakesIv(call.fn)
  BY <1>2 DEF Runs, Sane, TakesIv
<1>4. heap = AadBlock \cup DataBlock
  <2>1. heap = AadBlock \cup DataBlock \cup IF Fn.coding = "hex" THEN HexBlocks ELSE {}
    BY <1>1, HeldOpening
  <2> QED
    BY <1>3, <2>1 DEF Fn
<1>5. /\ ~Empty /\ call.data.bytes \in Given /\ call.input = call.data.bytes
  BY <1>1 DEF IInv, InputInv
<1>6. Len(call.input) \in Nat /\ TagSize \in Nat /\ IvSize \in Nat
  BY <1>5, GivenBytes, SizeAssumption DEF IInv, HistoryInv
<1>7. CASE TooShort
  <2>1. WipeKey /\ Leave("error", Null, {}, AadBlock \cup DataBlock) /\ Opened(Failure)
    BY <1>7 DEF SplitIv
  <2>2. key_bytes' = Zeroed /\ iv_bytes' \in {Zeroed, Junk}
    BY <1>1, <1>3, <2>1, Wiped
  <2>3. ASSUME NEW text \in Texted, Holds(call.fn.mode, Meaning, call.data.bytes, text)
        PROVE  FALSE
    <3>1. PICK iv : /\ IsBytes(iv) /\ Len(iv) = IvSize
                    /\ call.data.bytes = iv \o SealedBytes("auto", [Meaning EXCEPT !.iv = iv], text)
      BY <1>3, <2>3 DEF Holds
    <3> DEFINE b == SealedBytes("auto", [Meaning EXCEPT !.iv = iv], text)
    <3>2. IsBytes(text)
      BY ArgumentAssumption DEF Texted, IsBytes
    <3>3. IsBytes(b) /\ Len(b) \in Nat /\ Len(b) >= TagSize
      BY <3>2, SealedForm
    <3> HIDE DEF b
    <3>4. call.data.bytes = iv \o b
      BY <3>1 DEF b
    <3>5. Len(call.data.bytes) = IvSize + Len(b)
      BY <3>1, <3>3, <3>4, JoinBytes
    <3> QED
      BY <1>5, <1>6, <1>7, <3>3, <3>5 DEF TooShort
  <2>4. HistoryInv' /\ sealed' = sealed
    BY <2>1, <2>3, RecordOpened
  <2>5. AadBlock \cup DataBlock = heap \cup {}
    BY <1>4
  <2> QED
    BY <1>2, <1>5, <2>1, <2>2, <2>4, <2>5, LeaveInv
<1>8. CASE ~TooShort
  <2>1. /\ key_bytes' = key_bytes /\ heap' = heap
        /\ iv_bytes' = SubSeq(call.input, 1, IvSize)
        /\ Go(call.aad_str, SubSeq(call.input, IvSize + 1, Len(call.input)))
        /\ doubleFree' = FALSE
    BY <1>8, KeepFacts DEF SplitIv
  <2>2. /\ SameArguments /\ Given' = Given
        /\ call'.input = SubSeq(call.input, IvSize + 1, Len(call.input))
        /\ todo' # <<>> => Follows(call.fn, "split", Head(todo'))
    BY <1>2, <2>1, GoFacts
  <2>3. todo' # <<>> => Head(todo') = "open"
    BY <2>2 DEF Follows, Texts
  <2>4. ReadInv'
    BY <1>1, <2>1, ReadKept
  <2>5. Len(call.input) >= IvSize + TagSize /\ Len(call.input) >= IvSize
    BY <1>6, <1>8 DEF TooShort
  <2>6. InputInv'
    <3>1. ~Empty'
      BY <1>5, <2>2, SameEmpty
    <3> QED
      BY <1>2, <1>3, <1>5, <2>1, <2>2, <2>3, <2>5, <3>1 DEF InputInv, SameArguments
  <2>7. todo' # <<>> => heap' = HeldAt(call.fn, call.aad, Head(todo'))
    BY <1>2, <2>1, <2>3 DEF HeldAt
  <2>8. iv_bytes' \in Ivs
    BY <1>5, <2>1, <2>5 DEF Ivs, Heads, Given
  <2> QED
    BY <1>2, <2>1, <2>4, <2>6, <2>7, <2>8, GoInv
<1> QED
  BY <1>7, <1>8

\* What an encrypting function holds while it works.
LEMMA HeldSealing ==
  ASSUME IInv, NEW h \in {"random", "seal"}, At(h)
  PROVE  heap = {"plain_str"} \cup AadBlock
<1>1. heap = HeldAt(call.fn, call.aad, h)
  BY AtFacts
<1>2. heap = (IF TakesAad(call.fn) /\ call.aad # Null THEN {"aad_str"} ELSE {}) \cup {"plain_str"}
  BY <1>1 DEF HeldAt
<1> QED
  BY <1>2 DEF AadBlock

LEMMA RandomIvStep ==
  ASSUME IInv, RandomIv
  PROVE  IInv'
<1>1. At("random")
  BY DEF RandomIv
<1>2. /\ todo # <<>> /\ Head(todo) = "random" /\ Sane(call.fn) /\ Runs(call.fn, "random")
      /\ heap = HeldAt(call.fn, call.aad, "random")
      /\ \A g : At(g)' <=> todo' # <<>> /\ Head(todo') = g
      /\ key_bytes \in Keys \cup {Junk, Partial, Zeroed}
      /\ iv_bytes \in Ivs \cup {Junk, Partial, Zeroed}
  BY <1>1, AtFacts
<1>3. call.fn.mode = "auto" /\ ~TakesIv(call.fn)
  BY <1>2 DEF Runs, TakesIv
<1>4. ~Empty /\ call.input = call.data
  BY <1>1 DEF IInv, InputInv
<1>5. heap = {"plain_str"} \cup AadBlock
  BY <1>1, HeldSealing
<1>6. ASSUME NEW iv \in RandomIVs, iv_bytes' = iv, Go(call.aad_str, call.input),
             Keep, UNCHANGED key_bytes
      PROVE  IInv'
  <2>1. /\ key_bytes' = key_bytes /\ heap' = heap /\ doubleFree' = FALSE
        /\ iv_bytes' \in Ivs /\ iv_bytes' \in RandomIVs
    BY <1>6, KeepFacts DEF Ivs
  <2>2. /\ SameArguments /\ call'.input = call.input
        /\ todo' # <<>> => Follows(call.fn, "random", Head(todo'))
    BY <1>2, <1>6, GoFacts
  <2>3. todo' # <<>> => Head(todo') = "seal"
    BY <2>2 DEF Follows, Texts
  <2>4. ReadInv'
    BY <1>1, <1>6, <2>1, ReadKept
  <2>5. InputInv'
    <3>1. ~Empty'
      BY <1>4, <2>2, SameEmpty
    <3> QED
      BY <1>2, <1>4, <2>1, <2>2, <2>3, <3>1 DEF InputInv, SameArguments
  <2>6. todo' # <<>> => heap' = HeldAt(call.fn, call.aad, Head(todo'))
    BY <1>2, <2>1, <2>3 DEF HeldAt
  <2> QED
    BY <1>2, <1>6, <2>1, <2>4, <2>5, <2>6, GoInv
<1>7. CASE WipeKey /\ Leave("error", Null, {}, {"plain_str"} \cup AadBlock) /\ UNCHANGED Logs
  <2>1. sealed' = sealed /\ opened' = opened
    BY <1>7 DEF Logs
  <2>2. key_bytes' = Zeroed /\ iv_bytes' \in {Zeroed, Junk}
    BY <1>1, <1>3, <1>7, Wiped
  <2>3. HistoryInv'
    BY <2>1, SameHistory DEF IInv
  <2>4. {"plain_str"} \cup AadBlock = heap \cup {}
    BY <1>5
  <2> QED
    BY <1>2, <1>4, <1>7, <2>1, <2>2, <2>3, <2>4, LeaveInv
<1> QED
  BY <1>6, <1>7 DEF RandomIv

\* What reaches the library is what the arguments mean, with the random IV where
\* there is one.
LEMMA ParamMeaning ==
  ASSUME IInv, NEW h \in {"seal", "open"}, At(h)
  PROVE  /\ call.fn.mode = "auto" => Param = [Meaning EXCEPT !.iv = iv_bytes]
         /\ call.fn.mode # "auto" => Param = Meaning
<1>1. todo # <<>> /\ Sane(call.fn) /\ \A g : At(g) <=> g = h
  BY AtFacts
<1>2. key_bytes = GetKeyBytes(call.key)
  BY KeyRead
<1>3. /\ TakesIv(call.fn) => iv_bytes = call.iv.val
      /\ TakesAad(call.fn) => call.aad_str = AadBytes(call.aad)
  BY <1>1 DEF IInv, ReadInv
<1>4. call.fn.mode \in {"ecb", "cbc", "gcm", "auto"}
  BY <1>1 DEF Sane
<1>5. /\ TakesIv(call.fn) <=> call.fn.mode \in {"cbc", "gcm"}
      /\ TakesAad(call.fn) <=> call.fn.mode \in {"gcm", "auto"}
  BY DEF TakesIv, TakesAad
<1>6. CASE call.fn.mode = "auto"
  BY <1>2, <1>3, <1>5, <1>6 DEF Param, Meaning, Fn
<1>7. CASE call.fn.mode # "auto"
  BY <1>2, <1>3, <1>4, <1>5, <1>7 DEF Param, Meaning, Fn
<1> QED
  BY <1>6, <1>7

LEMMA SealStep ==
  ASSUME IInv, Seal
  PROVE  IInv'
<1> DEFINE body  == SealedBytes(Fn.mode, Param, call.input)
           bytes == Built(body)
           held  == {"plain_str", "cipher"} \cup AadBlock
<1>1. At("seal") /\ WipeBoth
  BY DEF Seal
<1>2. /\ todo # <<>> /\ Sane(call.fn) /\ Runs(call.fn, "seal")
  BY <1>1, AtFacts
<1>3. ~Empty /\ call.input = call.data /\ (call.fn.mode = "auto" => iv_bytes \in RandomIVs)
  BY <1>1 DEF IInv, InputInv
<1>4. call.data \in Texted
  BY <1>2 DEF IInv, FrameInv, Runs
<1>5. heap = {"plain_str"} \cup AadBlock
  BY <1>1, HeldSealing
<1>6. key_bytes' = Zeroed /\ iv_bytes' \in {Zeroed, Junk}
  BY <1>1, Wiped
<1>7. CASE /\ Leave("value", [coding |-> Fn.coding, bytes |-> bytes],
                    {"cipher"} \cup ResultBlocks, held \cup ResultBlocks)
           /\ sealed' = sealed \cup
                {[mode |-> Fn.mode, coding |-> Fn.coding, param |-> Meaning,
                  bytes |-> bytes, text |-> call.data]}
           /\ UNCHANGED opened
  <2> DEFINE e == [mode |-> Fn.mode, coding |-> Fn.coding, param |-> Meaning,
                   bytes |-> bytes, text |-> call.data]
  <2>1. sealed' = sealed \cup {e} /\ opened' = opened
    BY <1>7
  <2>2. e.mode = call.fn.mode /\ e.param = Meaning /\ e.bytes = bytes /\ e.text = call.data
    BY DEF Fn
  <2> HIDE DEF e
  <2>3. IsBytes(body) /\ Len(body) \in Nat \ {0}
    <3>1. IsBytes(call.data)
      BY <1>4, ArgumentAssumption DEF Texted, IsBytes
    <3> QED
      BY <1>3, <3>1, SealedForm
  <2>4. body = SealedBytes(call.fn.mode, Param, call.data)
    BY <1>3 DEF Fn
  <2> HIDE DEF body
  <2>5. IsBytes(bytes) /\ Len(bytes) > 0 /\ Holds(call.fn.mode, Meaning, bytes, call.data)
    <3>1. CASE call.fn.mode = "auto"
      <4>1. IsBytes(iv_bytes) /\ Len(iv_bytes) = IvSize /\ IvSize \in Nat
        BY <1>3, <3>1, ArgumentAssumption, SizeAssumption DEF IsBytes
      <4>2. bytes = iv_bytes \o body
        BY <3>1 DEF Built, Fn
      <4>3. IsBytes(bytes) /\ Len(bytes) = Len(iv_bytes) + Len(body)
        BY <2>3, <4>1, <4>2, JoinBytes
      <4>4. body = SealedBytes("auto", [Meaning EXCEPT !.iv = iv_bytes], call.data)
        BY <1>1, <2>4, <3>1, ParamMeaning
      <4>5. Holds(call.fn.mode, Meaning, bytes, call.data)
        BY <3>1, <4>1, <4>2, <4>4 DEF Holds
      <4> QED
        BY <2>3, <4>1, <4>3, <4>5
    <3>2. CASE call.fn.mode # "auto"
      <4>1. bytes = body
        BY <3>2 DEF Built, Fn
      <4>2. body = SealedBytes(call.fn.mode, Meaning, call.data)
        BY <1>1, <2>4, <3>2, ParamMeaning
      <4> QED
        BY <2>3, <3>2, <4>1, <4>2 DEF Holds
    <3> QED
      BY <3>1, <3>2
  <2>6. SealedInv'
    BY <1>4, <2>1, <2>2, <2>5 DEF IInv, HistoryInv, SealedInv
  <2>7. OpenedInv' /\ Authentic'
    BY <2>1 DEF IInv, HistoryInv, OpenedInv, Authentic
  <2>8. HistoryInv'
    BY <2>6, <2>7 DEF HistoryInv
  <2>9. held \cup ResultBlocks = heap \cup ({"cipher"} \cup ResultBlocks)
    BY <1>5
  <2> QED
    BY <1>2, <1>3, <1>6, <1>7, <2>1, <2>8, <2>9, LeaveInv
<1>8. CASE Leave("error", Null, {"cipher"}, held) /\ UNCHANGED Logs
  <2>1. sealed' = sealed /\ opened' = opened
    BY <1>8 DEF Logs
  <2>2. HistoryInv'
    BY <2>1, SameHistory DEF IInv
  <2>3. held = heap \cup {"cipher"}
    BY <1>5
  <2> QED
    BY <1>2, <1>3, <1>6, <1>8, <2>1, <2>2, <2>3, LeaveInv
<1> QED
  BY <1>7, <1>8 DEF Seal

\* Whatever the library answers, the text is the one that was sealed as these
\* bytes, if any was, and from GCM it comes out only if one was.
LEMMA OpenAnswer ==
  ASSUME IInv, At("open"), NEW pt \in Answers(Fn.mode, Param, call.input),
         Opened(IF pt = Failure THEN Failure ELSE CString(pt))
  PROVE  HistoryInv' /\ sealed' = sealed
<1> DEFINE text == IF pt = Failure THEN Failure ELSE CString(pt)
           b == call.data.bytes
<1>1. Sane(call.fn)
  BY AtFacts
<1>2. /\ b \in Given
      /\ call.fn.mode # "auto" => call.input = b
      /\ call.fn.mode = "auto" => /\ iv_bytes = SubSeq(b, 1, IvSize)
                                  /\ call.input = SubSeq(b, IvSize + 1, Len(b))
                                  /\ Len(b) >= IvSize + TagSize
  BY DEF IInv, InputInv
<1>3. /\ call.fn.mode = "auto" => Param = [Meaning EXCEPT !.iv = iv_bytes]
      /\ call.fn.mode # "auto" => Param = Meaning
  BY ParamMeaning
<1>4. IsBytes(b) /\ Len(b) \in Nat
  BY <1>2, GivenBytes DEF IInv, HistoryInv
<1>5. pt \in Answers(call.fn.mode, Param, call.input)
  BY DEF Fn
<1> HIDE DEF b
<1>6. ASSUME NEW t \in Texted, Holds(call.fn.mode, Meaning, b, t)
      PROVE  text = t
  <2>1. call.input = SealedBytes(call.fn.mode, Param, t)
    <3>1. CASE call.fn.mode = "auto"
      <4>1. PICK iv : /\ IsBytes(iv) /\ Len(iv) = IvSize
                      /\ b = iv \o SealedBytes("auto", [Meaning EXCEPT !.iv = iv], t)
        BY <1>6, <3>1 DEF Holds
      <4> DEFINE c == SealedBytes("auto", [Meaning EXCEPT !.iv = iv], t)
      <4>2. IsBytes(c) /\ Len(c) > 0
        <5>1. IsBytes(t)
          BY ArgumentAssumption DEF Texted, IsBytes
        <5>2. Len(c) \in Nat \ {0} /\ IsBytes(c)
          BY <5>1, SealedForm
        <5> QED
          BY <5>2
      <4> HIDE DEF c
      <4>3. b = iv \o c
        BY <4>1 DEF c
      <4>4. SubSeq(b, 1, IvSize) = iv /\ SubSeq(b, IvSize + 1, Len(b)) = c
        BY <4>1, <4>2, <4>3, SplitJoined
      <4>5. iv_bytes = iv /\ call.input = c
        BY <1>2, <3>1, <4>4
      <4>6. Param = [Meaning EXCEPT !.iv = iv]
        BY <1>3, <3>1, <4>5
      <4> QED
        BY <3>1, <4>5, <4>6 DEF c
    <3>2. CASE call.fn.mode # "auto"
      BY <1>2, <1>3, <1>6, <3>2 DEF Holds
    <3> QED
      BY <3>1, <3>2
  <2>2. pt = t
    BY <1>5, <2>1, AnswersOwn
  <2> QED
    BY <2>2, CStringText
<1>7. ASSUME call.fn.mode \in {"gcm", "auto"}, text # Failure
      PROVE  \E q \in Plaintexts :
               /\ text = CString(q)
               /\ \/ call.fn.mode = "gcm" /\ b = SealedBytes("gcm", Meaning, q)
                  \/ /\ call.fn.mode = "auto"
                     /\ LET iv == SubSeq(b, 1, IvSize)
                        IN  b = iv \o SealedBytes("gcm", [Meaning EXCEPT !.iv = iv], q)
  <2>1. pt # Failure /\ text = CString(pt)
    BY <1>7
  <2>2. pt \in Plaintexts /\ call.input = SealedBytes("gcm", Param, pt)
    BY <1>5, <1>7, <2>1, GcmAnswers
  <2>3. CASE call.fn.mode = "gcm"
    BY <1>2, <1>3, <2>1, <2>2, <2>3
  <2>4. CASE call.fn.mode = "auto"
    <3>1. Len(b) >= IvSize
      BY <1>2, <1>4, <2>4, SizeAssumption
    <3>2. b = SubSeq(b, 1, IvSize) \o SubSeq(b, IvSize + 1, Len(b))
      BY <1>4, <3>1, JoinSplit
    <3>3. b = iv_bytes \o SealedBytes("gcm", [Meaning EXCEPT !.iv = iv_bytes], pt)
      BY <1>2, <1>3, <2>2, <2>4, <3>2
    <3> QED
      BY <1>2, <2>1, <2>2, <2>4, <3>3
  <2> QED
    BY <1>7, <2>3, <2>4
<1> HIDE DEF text
<1>8. Opened(text)
  BY DEF text
<1> QED
  BY <1>6, <1>7, <1>8, RecordOpened DEF b

LEMMA OpenStep ==
  ASSUME IInv, Open
  PROVE  IInv'
<1> DEFINE held == {"plain"} \cup AadBlock \cup DataBlock
                   \cup IF Fn.coding = "hex" THEN HexBlocks ELSE {}
<1>1. At("open") /\ WipeBoth
  BY DEF Open
<1>2. todo # <<>>
  BY <1>1, AtFacts
<1>3. ~Empty
  BY <1>1 DEF IInv, InputInv
<1>4. held = heap \cup {"plain"}
  BY <1>1, HeldOpening
<1>5. key_bytes' = Zeroed /\ iv_bytes' \in {Zeroed, Junk}
  BY <1>1, Wiped
<1> HIDE DEF held
<1>6. ASSUME NEW pt \in Answers(Fn.mode, Param, call.input),
             IF pt = Failure THEN Leave("error", Null, {"plain"}, held)
                             ELSE Leave("value", CString(pt), {"plain"}, held),
             Opened(IF pt = Failure THEN Failure ELSE CString(pt))
      PROVE  IInv'
  <2>1. HistoryInv' /\ sealed' = sealed
    BY <1>1, <1>6, OpenAnswer
  <2>2. CASE pt = Failure
    <3>1. Leave("error", Null, {"plain"}, held)
      BY <1>6, <2>2
    <3> QED
      BY <1>2, <1>3, <1>4, <1>5, <2>1, <3>1, LeaveInv
  <2>3. CASE pt # Failure
    <3>1. Leave("value", CString(pt), {"plain"}, held)
      BY <1>6, <2>3
    <3> QED
      BY <1>2, <1>3, <1>4, <1>5, <2>1, <3>1, LeaveInv
  <2> QED
    BY <2>2, <2>3
<1>7. CASE Leave("error", Null, {"plain"}, held) /\ UNCHANGED Logs
  <2>1. sealed' = sealed /\ opened' = opened
    BY <1>7 DEF Logs
  <2>2. HistoryInv'
    BY <2>1, SameHistory DEF IInv
  <2> QED
    BY <1>2, <1>3, <1>4, <1>5, <1>7, <2>1, <2>2, LeaveInv
<1> QED
  <2>1. \/ \E pt \in Answers(Fn.mode, Param, call.input) :
             /\ IF pt = Failure THEN Leave("error", Null, {"plain"}, held)
                                ELSE Leave("value", CString(pt), {"plain"}, held)
             /\ Opened(IF pt = Failure THEN Failure ELSE CString(pt))
        \/ Leave("error", Null, {"plain"}, held) /\ UNCHANGED Logs
    <3>1. \A pt : pt # Failure => (IF pt = Failure THEN Failure ELSE CString(pt)) = CString(pt)
      OBVIOUS
    <3> QED
      BY <3>1 DEF Open, held
  <2> QED
    BY <1>6, <1>7, <2>1

LEMMA InvokeStep ==
  ASSUME IInv, NEW f, NEW dir \in {"encrypt", "decrypt"}, Program(f, dir),
         NEW key \in KeyArgs, NEW iv \in IvsOf(f), NEW aad, NEW data,
         dir = "encrypt" => data \in PlainArgs,
         dir = "decrypt" => data \in Coded(f) \cup {Null},
         Invoke(f, key, iv, aad, data)
  PROVE  IInv'
<1>1. /\ key_bytes' = Junk /\ iv_bytes' = Junk /\ heap' = {}
      /\ sealed' = sealed /\ opened' = opened /\ doubleFree' = doubleFree
  BY DEF Invoke, Logs
<1>2. doubleFree' = FALSE
  BY <1>1 DEF IInv, BlocksInv
<1>3. HistoryInv' /\ Given' = Given
  BY <1>1, SameHistory DEF IInv, Given
<1>4. CASE key = Null \/ data = Null \/ (TakesIv(f) /\ iv = Null)
  <2>1. /\ todo' = <<>>
        /\ outcome' = [kind |-> "null", value |-> Null, at |-> "arguments", empty |-> FALSE]
    BY <1>4 DEF Invoke
  <2>2. \A h : ~At(h)'
    BY <2>1 DEF At
  <2>3. FrameInv' /\ ReadInv' /\ InputInv' /\ BlocksInv'
    BY <1>2, <2>1, <2>2 DEF FrameInv, ReadInv, InputInv, BlocksInv
  <2>4. TypeOK' /\ HeapBalanced' /\ SecretsWiped' /\ EmptyGivesNull'
    BY <1>1, <1>2, <2>1 DEF TypeOK, HeapBalanced, SecretsWiped, EmptyGivesNull
  <2> QED
    BY <1>3, <2>3, <2>4 DEF IInv
<1>5. CASE ~(key = Null \/ data = Null \/ (TakesIv(f) /\ iv = Null))
  <2>1. /\ todo' = f.steps /\ outcome' = [kind |-> "running"]
        /\ call' = [fn |-> f, key |-> key, iv |-> iv, aad |-> aad, data |-> data,
                    aad_str |-> <<>>, input |-> <<>>]
    BY <1>5 DEF Invoke
  <2>2. Sane(f) /\ f.dir = dir /\ Path(f, f.steps) /\ Head(f.steps) = "key" /\ f.steps # <<>>
    BY DEF Program
  <2>3. \A h : At(h)' <=> h = "key"
    BY <2>1, <2>2 DEF At
  <2>4. FrameInv'
    <3>1. key \in KeyArgs \ {Null} /\ (TakesIv(f) => iv \in IvArgs \ {Null})
      BY <1>5 DEF IvsOf
    <3>2. dir = "encrypt" => data \in Texted
      BY <1>5 DEF Texted
    <3>3. dir = "decrypt" =>
            /\ data = [coding |-> data.coding, bytes |-> data.bytes]
            /\ data.bytes \in Given \/ (data.bytes = Malformed /\ f.coding # "bytea")
      BY <1>5 DEF Coded, Given
    <3> QED
      BY <1>3, <2>1, <2>2, <3>1, <3>2, <3>3 DEF FrameInv
  <2>5. ReadInv' /\ InputInv'
    BY <1>1, <2>3 DEF ReadInv, InputInv
  <2>6. BlocksInv'
    <3>1. HeldAt(f, aad, "key") = {}
      BY DEF HeldAt
    <3> QED
      BY <1>1, <1>2, <2>1, <2>2, <3>1 DEF BlocksInv
  <2>7. TypeOK' /\ HeapBalanced' /\ SecretsWiped' /\ EmptyGivesNull'
    BY <1>1, <1>2, <2>1, <2>2 DEF TypeOK, HeapBalanced, SecretsWiped, EmptyGivesNull, Done
  <2> QED
    BY <1>3, <2>4, <2>5, <2>6, <2>7 DEF IInv
<1> QED
  BY <1>4, <1>5

LEMMA InitInv ==
  ASSUME Init
  PROVE  IInv
<1>1. \A h : ~At(h)
  BY DEF Init, At
<1>2. FrameInv /\ ReadInv /\ InputInv /\ BlocksInv
  BY <1>1 DEF Init, FrameInv, ReadInv, InputInv, BlocksInv
<1>3. HistoryInv
  BY DEF Init, HistoryInv, SealedInv, OpenedInv, Authentic
<1>4. TypeOK /\ HeapBalanced /\ SecretsWiped /\ EmptyGivesNull
  BY DEF Init, TypeOK, HeapBalanced, SecretsWiped, EmptyGivesNull, Done
<1> QED
  BY <1>2, <1>3, <1>4 DEF IInv

LEMMA StutterInv ==
  ASSUME IInv, UNCHANGED vars
  PROVE  IInv'
<1>1. /\ UNCHANGED <<todo, call, key_bytes, iv_bytes, heap, doubleFree, outcome, sealed, opened>>
      /\ Given' = Given /\ Ivs' = Ivs /\ Empty' = Empty
      /\ \A h : At(h)' <=> At(h)
  BY DEF vars, Given, Ivs, Heads, Empty, Fn, At
<1>2. HistoryInv'
  BY <1>1, SameHistory DEF IInv
<1>3. FrameInv' /\ BlocksInv' /\ TypeOK'
  BY <1>1 DEF IInv, FrameInv, BlocksInv, TypeOK
<1>4. ReadInv' /\ InputInv'
  BY <1>1 DEF IInv, ReadInv, InputInv
<1>5. HeapBalanced' /\ SecretsWiped' /\ EmptyGivesNull'
  BY <1>1 DEF IInv, HeapBalanced, SecretsWiped, EmptyGivesNull, Done
<1> QED
  BY <1>2, <1>3, <1>4, <1>5 DEF IInv

LEMMA StepInv ==
  ASSUME IInv, [Next]_vars
  PROVE  IInv'
<1>1. ASSUME NEW f \in Encryptions, NEW key \in KeyArgs, NEW data \in PlainArgs,
             NEW iv \in IvsOf(f), NEW aad \in AadsOf(f), Invoke(f, key, iv, aad, data)
      PROVE  IInv'
  <2>1. Program(f, "encrypt")
    BY Programs
  <2> QED
    BY <1>1, <2>1, InvokeStep
<1>2. ASSUME NEW f \in Decryptions, NEW key \in KeyArgs, NEW data \in Coded(f) \cup {Null},
             NEW iv \in IvsOf(f), NEW aad \in AadsOf(f), Invoke(f, key, iv, aad, data)
      PROVE  IInv'
  <2>1. Program(f, "decrypt")
    BY Programs
  <2> QED
    BY <1>2, <2>1, InvokeStep
<1>3. CASE FetchKey \/ FetchIv \/ FetchAad
  BY <1>3, FetchKeyStep, FetchIvStep, FetchAadStep
<1>4. CASE FetchPlain \/ FetchCipher \/ FetchHex \/ FetchBase64
  BY <1>4, FetchPlainStep, FetchCipherStep, FetchHexStep, FetchBase64Step
<1>5. CASE CheckLength \/ SplitIv \/ RandomIv
  BY <1>5, CheckLengthStep, SplitIvStep, RandomIvStep
<1>6. CASE Seal \/ Open
  BY <1>6, SealStep, OpenStep
<1>7. CASE UNCHANGED vars
  BY <1>7, StutterInv
<1> QED
  BY <1>1, <1>2, <1>3, <1>4, <1>5, <1>6, <1>7 DEF Next

LEMMA AlwaysIInv == Spec => []IInv
<1>1. Init => IInv
  BY InitInv
<1>2. IInv /\ [Next]_vars => IInv'
  BY StepInv
<1> QED
  BY <1>1, <1>2, PTL DEF Spec

-----------------------------------------------------------------------------
(* What it means for the functions *)

\* Once its argument was read a key is one that an argument stands for, in each of
\* the fourteen functions, and never characters that were not decoded; the stack
\* arrays and the blocks held have their types.
THEOREM ExtTypeCorrect == Spec => []TypeOK
<1>1. IInv => TypeOK
  BY DEF IInv
<1> QED
  BY <1>1, AlwaysIInv, PTL

\* On every way out of the fourteen functions each palloc'd block has been freed,
\* the copies of the arguments included, and freed once.
THEOREM ExtHeapBalanced == Spec => []HeapBalanced
<1>1. IInv => HeapBalanced
  BY DEF IInv
<1> QED
  BY <1>1, AlwaysIInv, PTL

\* Every way out after the arguments were read leaves key_bytes and iv_bytes wiped.
THEOREM ExtSecretsWiped == Spec => []SecretsWiped
<1>1. IInv => SecretsWiped
  BY DEF IInv
<1> QED
  BY <1>1, AlwaysIInv, PTL

\* Where a GCM function calls the library, cipher_len has not wrapped and the IV
\* that was split off has its length.
THEOREM ExtLengthsFit == Spec => []LengthsFit
<1>1. ASSUME IInv PROVE LengthsFit
  <2> SUFFICES ASSUME At("open"), TakesAad(Fn)
               PROVE  /\ Len(call.input) >= TagSize
                      /\ Fn.mode = "auto" => Len(iv_bytes) = IvSize
    BY DEF LengthsFit, At
  <2> DEFINE b == call.data.bytes
  <2>1. /\ b \in Given
        /\ Fn.mode = "auto" => /\ iv_bytes = SubSeq(b, 1, IvSize)
                               /\ call.input = SubSeq(b, IvSize + 1, Len(b))
                               /\ Len(b) >= IvSize + TagSize
        /\ Fn.mode = "gcm" => Len(call.input) >= TagSize
    BY <1>1 DEF IInv, InputInv, Fn
  <2>2. IsBytes(b) /\ Len(b) \in Nat
    BY <1>1, <2>1, GivenBytes DEF IInv, HistoryInv
  <2> HIDE DEF b
  <2>3. CASE Fn.mode = "auto"
    <3>1. Len(b) >= IvSize
      BY <2>1, <2>2, <2>3, SizeAssumption
    <3>2. Len(iv_bytes) = IvSize /\ Len(call.input) = Len(b) - IvSize
      BY <2>1, <2>2, <2>3, <3>1, JoinSplit
    <3> QED
      BY <2>1, <2>2, <2>3, <3>2, SizeAssumption
  <2>4. CASE Fn.mode = "gcm"
    BY <2>1, <2>4
  <2> QED
    BY <2>3, <2>4 DEF TakesAad
<1>2. IInv => LengthsFit
  BY <1>1
<1> QED
  BY <1>2, AlwaysIInv, PTL

\* What one function encrypted, the function of the same mode decrypts to the same
\* text in whichever coding, for arguments that mean the same: the two families of
\* seven agree on keys, IVs, AAD and layout.
THEOREM ExtRoundTrip == Spec => []RoundTrip
<1>1. ASSUME IInv, NEW e \in sealed, NEW d \in opened,
             e.mode = d.mode, e.param = d.param, e.bytes = d.bytes
      PROVE  d.text = e.text
  <2>1. e.text \in Texted /\ Holds(e.mode, e.param, e.bytes, e.text)
    BY <1>1 DEF IInv, HistoryInv, SealedInv
  <2> QED
    BY <1>1, <2>1 DEF IInv, HistoryInv, OpenedInv
<1>2. IInv => RoundTrip
  BY <1>1 DEF RoundTrip
<1> QED
  BY <1>2, AlwaysIInv, PTL

\* A GCM function gives back only what was sealed under the key, the IV and the AAD
\* that its arguments mean.
THEOREM ExtAuthentic == Spec => []Authentic
<1>1. IInv => Authentic
  BY DEF IInv, HistoryInv
<1> QED
  BY <1>1, AlwaysIInv, PTL

\* Every function whose key and IV are right returns NULL for an empty text, hex
\* string or ciphertext, and NULL for nothing else but an argument that is NULL.
THEOREM ExtEmptyGivesNull == Spec => []EmptyGivesNull
<1>1. IInv => EmptyGivesNull
  BY DEF IInv
<1> QED
  BY <1>1, AlwaysIInv, PTL

=============================================================================

# vastbase_sm4 in TLA+

Models, model-checking runs and proofs for the cryptographic extensions in this
repository: the SM4 and SM2 extensions of the VastBase/PostgreSQL server
(`sm4_c`, `sm2_c`, in C) and the Hive UDFs beside them (`sm4_java`,
`adq-sm-decrypt`, `adq-sm-algorithm`, in Java).

Everything here is sequential library code that a server calls once per row.
What is hard about it is not concurrency but (1) long sequences of calls of many
near-identical functions that must agree with each other, (2) the way out of a
function at each of its many failure points, (3) arithmetic on lengths and
counters at their limits, and (4) two pieces of code, encryption and
decryption, that are consistent with each other even when both are wrong.  The
properties are chosen for these.

## 1. Inventory

| Component | Source | State it keeps | Operations | Status |
|---|---|---|---|---|
| Block functions | `sm4_c/sm4.c` 40-196 | `sm4_context.rk`, stack arrays `k[36]`, `x[36]` | `sm4_setkey`, `sm4_encrypt_block`, `sm4_decrypt_block`, `sm4_context_clean` | modelled, proved |
| ECB/CBC with PKCS7 | `sm4.c` 199-407 | per call: `ctx`, `block`, `prev`, `*padded`; the caller's buffers | four mode functions, `pkcs7_pad`, `pkcs7_unpad` | modelled, proved |
| GCM | `sm4.c` 410-752 | per call: `ctx`, `h`, `j0`, `icb`, `s`, `computed_tag`, `ghash_input`, the locals of `gctr` | `sm4_gcm_encrypt`, `sm4_gcm_decrypt`, `gf128_mul`, `ghash`, `gcm_inc32`, `gctr` | modelled, proved |
| Key derivation | `sm4.c` 758-942 | none | dead code: two static functions nothing calls | not modelled |
| SM4 SQL functions | `sm4_c/sm4_ext.c`, `sm4--1.0.sql` | per call: `key_bytes`, `iv_bytes`, palloc'd blocks | 14 functions | modelled, proved |
| Hex and Base64 codecs | `sm4_ext.c` 34-77, 828-912 | an output buffer | encode, decode | modelled, proved |
| SQL declarations | `sm4--1.0.sql`, `sm2--1.0.sql` | none (a cached plan, in the server) | `STRICT`; `IMMUTABLE` on functions that draw a random IV | `STRICT` modelled |
| SM2 wrapper | `sm2_c/sm2_openssl.c` | `sm2_context`: `pkey`, `has_private_key`, `has_public_key` | init, free, generate, set, derive, get, encrypt, decrypt, sign, verify | modelled, proved |
| SM2 SQL functions | `sm2_c/sm2_ext_openssl.c` | per call: key arrays, `signature[128]`, palloc'd blocks, an `sm2_context` | 12 functions | modelled, proved |
| Hive UDFs | three Maven projects | object inspectors | `evaluate` of each UDF with what it calls in `SM4Utils`, `SM2Utils` | modelled, proved |
| Password authenticator | `CustomPasswdAuthenticator.java` (two copies) | the configured user and password | `Authenticate` | not modelled |
| Tests, demos, scripts, docs | | none | | not modelled |

How they interact: a SQL function reads its arguments into stack arrays and
palloc'd blocks, calls one mode function of `sm4.c`, which keys a fresh context
and calls the block functions, and builds a result.  Nothing is shared between
calls, and nothing is kept, except what is left behind in memory; values
travel from one function to another through tables, and from the database to
Hive.  `ereport(ERROR)` leaves a SQL function from where it is called.

What makes each component correct:

* block functions: a permutation of the blocks and its inverse for every key;
  nothing of key or block left behind;
* ECB/CBC: an injective encryption, a decryption that inverts it and accepts
  nothing else; no write outside a buffer; nothing half done on failure;
* GCM: the answers of the definition of GCM; no plaintext before
  authentication; no counter block used twice; AAD and text separated;
* SQL functions: what one function seals its counterpart opens, whatever the
  notation of the arguments; every way out releases and wipes; empty input
  gives NULL;
* SM2 wrapper: the flags agree with the key in `pkey`; every OpenSSL object has
  an owner and is freed once; a call that fails changes nothing;
* SM2 SQL functions: what is encrypted opens with the other half of the pair and
  nothing else does; a signature is bound to message and key; every way out
  releases blocks and OpenSSL objects once;
* UDFs: a column encrypted on one side comes back on the other, row by row,
  under the conventions of the documents, and a row that cannot be read is
  raised and never handed on.

`PROJECT.json` lists the hazards behind these, each at its line.

## 2. Modules

| Module | What it is |
|---|---|
| `CipherBox` | abstract: what a caller expects of any encryption mode |
| `SM4Block`, `MCSM4Block` | the block functions, one loop iteration a step |
| `SM4BlockProofs` | theorems about `SM4Block` |
| `SM4Modes`, `MCSM4Modes` | ECB and CBC, one block a step; implements `CipherBox` |
| `SM4ModesProofs` | theorems about `SM4Modes` |
| `SM4Gcm`, `MCSM4Gcm` | GCM, one block of `gctr` a step; implements `CipherBox` |
| `SM4GcmProofs` | theorems about `SM4Gcm` |
| `SM4Ext`, `MCSM4Ext` | the SQL functions, one step of a function a step |
| `SM4ExtProofs` | theorems about `SM4Ext` |
| `SM4Codec`, `MCSM4Codec` | hexadecimal and Base64, one group of characters a step |
| `SM4CodecProofs` | theorems about `SM4Codec` |
| `SM2Context`, `MCSM2Context` | the SM2 wrapper, one OpenSSL call a step |
| `SM2ContextProofs` | theorems about `SM2Context` |
| `SM2Ext`, `MCSM2Ext` | the SM2 SQL functions, one step of a function a step |
| `SM2ExtProofs` | theorems about `SM2Ext` |
| `Columns`, `MCColumns` | two queries over a column, with any function of the five parts, one row a step |
| `ColumnsProofs` | theorems about `Columns` |

They form layers, each written against what the layer below was shown to be:
`SM4Modes` and `SM4Gcm` take a block cipher as operators whose assumption is
`SM4Block`'s `Bijective`; `SM4Ext` takes modes that answer as `CipherBox`
allows; `SM2Ext` takes the functions of `SM2Context` to do all of their work or
none (`AllOrNothing`); `Columns` composes the SQL functions, by what `SM4Ext` and
`SM2Ext` show they answer, with the UDFs.

### SM4Block

`Word`, `Xor`, the round functions `T` and `TPrime`, `FK`, `CK` and the number
of rounds are constants, so the S-box and the rotations (`sm4.c` 20-104) are
*any* functions on words; what is shown holds whether or not they are right,
and says nothing of them (the unit test's standard vectors do).  `buf` is the
stack array of the function being executed, `Junk` marks a word nobody wrote
yet, `rk` is `ctx->rk`.  The history `runs` records, for each block computation
that has returned, key, round keys and the array `x` in encryption order.
Actions: `StartSetKey`, `SetKeyRound`, `ReturnSetKey`, the same for
`Encrypt` and `Decrypt`, `Clean`.  A context is not used before it is keyed,
as in the callers.

### SM4Modes

`call` holds the arguments, `local` the function's temporaries, `out` and
`outLen` the caller's output, sized as `sm4_ext.c` sizes it.  A text is its
whole blocks and a rest; `size_t` wraps at `SizeMax`.  Actions: the argument
checks (`CallEncrypt`, `CallDecrypt`), `MallocFails`, `PrepareEncrypt`, one
block of each loop (`EncryptBlockEcb`, ...), and the two tails.  A decryption
may be given what an encryption returned, the same with a block replaced or cut
off, or a ciphertext of unknown origin.  ECB decryption in place is included;
CBC decryption in place is not, because `sm4_cbc_decrypt` does not support it
(`MayAlias`).  The tests for NULL pointers are left out: no caller passes one.

### SM4Gcm

Sizes are parameters.  `local` has the stack variables of the two functions and
of the last `gctr`; the 16-byte temporaries of `ghash`, `gf128_mul` and of the
computation of J0 are left out.  `Mul`, `Ghash`, `Inc`, `PreCounter` and
`Layout` translate the code byte by byte; the size of the buffer is computed as
`size_t`, which wraps at `SizeMax` (`LengthAssumption` says which lengths do not reach it); the section "GCM as its definition
has it" says the same with polynomials as sets of exponents and data padded and joined
as NIST SP 800-38D writes it, and `MatchesDefinition` compares.  `streams` records
the counter blocks each call enciphered.

### SM4Ext

Each of the fourteen functions is a record with the sequence of the steps it is
written as, for example `sm4_decrypt_gcm_base64` is key, iv, aad, base64,
length, open.  A step is one action with its ways out: going on, returning
NULL, `ereport`, or returning a value.  `key_bytes` and `iv_bytes` keep their
content after the call, as stack memory does; `heap` is the set of palloc'd
blocks under the names of the variables that hold them, the copies of the arguments
(`key_str`, `iv_str`, `cipher_base64_str`) too, which are made and freed within one step
as each function reads an argument and is done with its text before the next (the
result itself is the caller's and is not in it).  The library is ideal: `SealedBytes` and
`Answers` are `CipherBox` with sealed texts as symbolic byte sequences of the
right length; a block mode may also accept, by accident, a ciphertext nobody
sealed.  Texts coming back go through `CString`, which cuts at a NUL byte.
A failing `palloc` is an `ereport` from inside the server and is left out.

### SM4Codec

The widths of a byte and of the two kinds of digit are parameters; a character
is the value of its digit, `Pad` or `Bad`.  `out` is the buffer as the caller
allocates it, `j` the index of the code, `i` the groups read; `Write` stores
bytes at `j` and records in `overrun` whether they fell outside.  Actions: one
for the call of each function, one for each kind of loop iteration
(`HexPair`, `ByteToHex`, `EncodeTriple`, `DecodeGroup`), one for each refusal
and each return.  The section "Hexadecimal and Base64 as they are defined" says
what the result should be bit by bit: a text and its bytes have the same bits in
groups of another width (`Regrouped`), data is filled up to whole groups of three
bytes and as many digits give way to '='.  `SM4Ext` does not use this
module: it takes a text for its bytes or for malformed, which is what
`MatchesDefinition` justifies for the texts it has.

### SM2Context

`heap` holds the OpenSSL objects by address, `local` the pointers in the frame
of the function, `ctx` the client's `sm2_context` and `own` the one that
`sm2_encrypt`, `sm2_decrypt`, `sm2_sign` and `sm2_verify` have in their frame.
A function is the sequence of its OpenSSL calls (`Steps`); each call is an
action that succeeds or jumps to `cleanup`, and `Cleanup` frees what `local`
still points to; `point_from_bytes` has the same form with its coordinates `x` and
`y`, which it frees itself.  A getter may fail even when the key is there.  The four
functions with a context of their own run a setter
first, its cleanup included.  What OpenSSL does is external: freeing an
`EVP_PKEY` frees its `EC_KEY` (`Reach`), a scalar that is NULL gives infinity
(`Mul`), `EC_KEY_set_public_key` lets go of the old point before it copies the
new one (`SetPublicKey`).  Reference counts that OpenSSL keeps for itself are
left out, and so is whether `EVP_PKEY_encrypt` refuses a buffer that is too
small.  `got` records what the getters returned since the key last changed.

### SM2Ext

Built like `SM4Ext`.  `priv_key` and `pub_key` are the stack arrays, `ctx` what the
`sm2_context` of `sm2_generate_key` and `sm2_get_pubkey` holds (among the blocks of
`heap` it is `"ctx"`).  A private key is a value, a public key `Pub` of it, with
`Infinity` for the key 0 that `strtol` makes of a text without digits.  The
library is ideal and each call of it may fail, those too whose result the code does not
look at (`Derive`, `ReadPrivate`, `ReadPublic`): an array then stays what it was,
`Junk` where nobody wrote it.  `Elements` are the two texts that `construct_array` copies
and nothing frees; they are the one thing `MemorySafe` lets a call leave; `sm2_decrypt` reads a DER sequence
and nothing after it (`Answers`), `sm2_verify` refuses what follows (`Verifies`),
as OpenSSL 3.0 does.  `Misread` is what `VARSIZE` and `VARDATA` make of a bytea
with a header of one byte: a length out of the air and bytes next to the
datum.  The four functions that are not `STRICT` dereference a null pointer when
a required argument is NULL: `outcome` "crash".  The user ID is fetched, copied and
never used; `SignatureBinds` says what holds whether or not it is, and the run
`sm2_id` that it binds nothing.  `log` records what was made and
what became of it.

### Columns

`original` is a column, `source` what the running query reads, `column` the rows
it has answered, `sealer` and `opener` the two queries: function, key and IV
argument.  `Row` is one call of the SQL function or of `evaluate`; a failure is
an `ereport` or an exception that nobody catches and ends the query (`Raise`).
A function is a record: its project, cipher, coding, where its IV comes from, the
notations of a key it reads; what it answers to NULL, '' and a missing key is one
of four rules (`AnswerSql`, `AnswerSm4Java`, `AnswerAlgorithm`, `AnswerOrNull`).
A cell is the record of all that its bytes depend on: CBC adds its IV to the first
block, so with the IV of zeros a text of one block (`Short`) gives the cell ECB gives
(`IvIdle`).  `Row` and `Carry` are external: the loop over the rows is the server's or
Hive's.  `Carry` is the way between the two sides: the ciphertexts
in another coding, NULL as NULL or, as `vastbase2mrs.md` has it, as the word
'NULL'.  The key of an SM2 ciphertext is the pair.  The SM2 of the server writes
DER and that of the UDFs C1||C3||C2, so they are two ciphers.  Texts too long for
a buffer, NUL bytes and short bytea headers are the subject of `SM2Ext` and
`SM4Ext` and left out here.

## 3. Runs

| Run | Instance | What it asks | Result |
|---|---|---|---|
| `sm4_block` | 2-bit words, 5 rounds, 2 keys, 4 blocks, 3 computations | are the block functions inverse permutations under rekeying, and clean | 21 922 states |
| `sm4_modes` | 2-byte blocks of 2-bit bytes, `SizeMax` 5, 5 texts, 2 IVs, 2 keys, any 2 calls | boxes, bounds, ways out | 95 347 states |
| `sm4_gcm` | GF(2^6), 2-byte blocks of 3-bit bytes, 1-byte counter, 3 IVs, 3 AADs, 4 texts, 2 keys, any 2 calls | GCM as defined, and safe to use | 117 248 states |
| `sm4_ext` | 6 key, 8 IV, 3 AAD and 3 text arguments, 14 functions, 1 sealed and 1 opened value | agreement of the functions, ways out | 229 393 states |
| `sm4_codec` | 4-bit bytes, 3-bit and 2-bit digits, all texts of up to 8 characters over a digit, '=' and an illegal one, data of up to 4 bytes | the codecs as defined, within their buffers | 21 964 states |
| `sm2_context` | 2 key pairs and the private key 0, a buffer too small and one large enough, any session | ownership, flags, all or nothing | 212 840 states |
| `sm2_ext` | 2 key pairs and the key 0 in every notation, texts of 0 to 3 bytes with room for 2, 1 result made and 1 used | what opens and verifies, ways out | 131 419 states |
| `columns` | 3 columns of two rows, 2 keys, 3 IVs among them zero, 15 encrypting and 17 decrypting functions | which columns come back and through what, and that failures are raised | 1 003 814 states |
| `sm2_derive` | as `sm2_context` | is a derived public key that of the private key | violated |
| `sm2_id` | as `sm2_ext` | does the user ID bind, as `test_sm2.sql` expects | violated |
| `codec_padding` | as `sm4_codec` | is what is not Base64 refused, as feature-11 asks | violated |
| `ext_residue` | as `sm4_ext` | is the key cleared on every way out, as feature-4 asks | violated |

Why the bounds are enough:

* `sm4_block`: three computations let TLC compare an encryption with a
  decryption of its result across a rekeying; the theorems of
  `SM4BlockProofs` remove the bounds altogether.  `T` in the instance is not
  injective, as nothing needs it to be.
* `sm4_modes`: texts of 0 to 4 bytes over 2-byte blocks are every padding
  length with zero, one and two whole blocks; 4 bytes trip the overflow check
  (`SizeMax - BlockSize` is 3) while 3 do not.  All sixteen one-block
  ciphertexts are presented, so every padding byte is seen, right and wrong.  A
  property of the box relates two calls, so two calls are what a
  counterexample needs.
* `sm4_gcm`: six bits are the smallest field in which a byte carries into the
  next and the reduction (x^6 + x + 1) touches more than one bit; IVs of one
  byte take the recommended path and the IV of two bytes the hashed one, with a
  J0 whose counter wraps within a message; texts of 0, 2, 3 and 5 bytes are no
  block, whole blocks and a part of one.  An observed collision of tags would
  be a false alarm of so small a block; with these inputs there is none.
  `SizeMax` is 15: the largest sum of two lengths and the length block just fits.
* `sm4_ext`: one sealed and one opened value are what `RoundTrip` and
  `Authentic` relate; arguments hold each notation and each way to be wrong, and
  ciphertexts of 0 to 5 bytes lie on both sides of both length checks.
* `sm4_codec`: four and three bits are in the proportion of eight and six; two
  groups of Base64 are what '=' in the middle needs, and up to four bytes are
  every remainder modulo three after a whole group.  A session encodes one
  thing and decodes that, or decodes texts of another origin.
* `sm2_context`: the state is one context, so the session is unbounded; two keys
  are what mixing the halves of two pairs needs, and 0 is the private key whose
  public key has no coordinates.

* `sm2_ext`: the sizes are scaled so that a plaintext fits, just fits and does not
  fit the room, and ciphertexts and signatures lie on both sides of each length
  check and of the limit for a short header; one value made and one used are
  what `RoundTrip` and `SignatureBinds` relate.
* `columns`: rows do not influence each other but by ending the query, so a row
  that fails before or after one that does not is all there is; the columns
  have a text beside NULL, beside '' and beside another text.

The runs of `SM4Codec` and `SM2Context` check for deadlock; the others say
`CHECK_DEADLOCK FALSE`, because callers stop when the bounds on calls or histories
are reached, or because the column has come back.

No fairness is stated: every function here is a loop over the length of its input and
ends, nothing waits for anything, and that a query goes on to its next row is the
server's doing and not this code's.  So there is no liveness property either.

Each property of a passing run has a mutant in `PROJECT.json`: a plausible bug
(a missing check, a wrong order, a forgotten cleanup) defined beside the code
it replaces, under which TLC finds the property violated.

### The four findings

* `sm2_derive`: after a private key and then a public key were set, the context
  holds no private key but `has_private_key` still says 1;
  `sm2_derive_public_key` believes it, stores the point at infinity over the
  public key and returns 0.  `FlagsAgree` has the direction that does hold, and
  `PairMatches` shows that the getters never hand out the result.
* `sm2_id`: `sm2_c/test_sm2.sql` (180-188) expects a verification under another user ID
  to be false and `sm2_c/README.md` (480) names the ID among the reasons of a failure;
  the ID reaches neither `sm2_sign` nor `sm2_verify`.
* `codec_padding`: `sm4_c/docs/requirements/feature-11.md` asks that strings
  that are not Base64 be refused; `base64_decode` takes '=' at the end of every
  group, and '=' before a last digit.
* `ext_residue`: `sm4_c/docs/requirements/feature-4.md` asks that the key be gone from `key_bytes`
  when a function has returned; when the IV argument is wrong the functions
  with an IV raise an error with the key still there.  `SecretsWiped` shows that
  these are the only ways out that do not wipe.

Three more disagreements have no run of their own, because the models show them plainly:

* `gctr` clears neither `counter` nor `encrypted_counter`, which feature-4 lists
  among the temporaries to clear in every mode; `local` keeps both after a call, and
  `CleanExit` leaves them out.  (The encryption does not clear `icb` either.)
* `sm2_get_pubkey` looks at the result neither of `sm2_derive_public_key` nor of
  `sm2_get_public_key`.  For the key 0, which a text without digits is taken for, the
  point has no coordinates and the function prints an array nobody wrote.  `TypeOK` of
  `SM2Ext` has what does hold: an array is the right half of the pair or was not written.
* `sm4_c/MRS_HIVE_SM4_GUIDE.md` (367, 370) says that Hive uses CBC or ECB and that modes
  cannot decrypt each other's ciphertexts.  The UDF it registers, `SM4Encrypt` of
  `adq-sm-algorithm`, is GCM with the key for IV, and `ColumnKept` has the GCM functions
  of the database, given that IV, return its columns.

## 4. Proofs

`SM4BlockProofs` proves for every word type, all round functions and constants,
every number of rounds, set of keys and blocks, and every bound:

* `TypeCorrect`: `Spec => []TypeOK`; in particular no word is read that was not
  written;
* `BlockBijective`: `Spec => []Bijective`;
* `BlockNoResidue`: `Spec => []NoResidue`.

Assumptions: the three `ASSUME`s of `SM4Block` on the types of the parameters,
on the values of the round functions being words, and on `Xor` (associative,
commutative, self-inverse), which is what `^` is.

`Bijective` relates finished computations and is not inductive.  The invariant
that is (`IInv`) adds what holds in the middle of each loop: the round keys are
those of the schedule of `keyed`, as far as they have been computed
(`Scheduled`, `ScheduleInv`); the words of `buf` that exist satisfy the recurrence of the
round, forwards or backwards (`EncryptInv`, `DecryptInv`); and every recorded
run satisfies the recurrence under the schedule of its key (`RunsInv`).
`Bijective` follows because the recurrence can be solved for the first word as
well as for the last (`RoundInverse`, from the laws of `Xor`): two arrays that satisfy it under
the same round keys and agree on four consecutive words agree everywhere
(`WindowBijective`), by induction over the rounds.  `T` needs no inverse.

`SM4CodecProofs` proves for bytes and digits of any width, and for texts and
data of any length:

* `CodecTypeCorrect`: `Spec => []TypeOK`; what is written below `j` has no gap
  and is of the right kind;
* `CodecInBounds`: `Spec => []InBounds`;
* `CodecMatchesDefinition`: `Spec => []MatchesDefinition`;
* `CodecRoundTrip`: `Spec => []RoundTrip`.

Assumptions: the widths; that a power of two doubles with its exponent
(`PowerAssumption`; the provers do not know what `^` is); that '=' and illegal
characters are no digits and a failure is no sequence of bytes (`CharAssumption`);
and that the inputs are sequences of bytes and characters.  The invariant `IInv` adds
`Progress`, how far the index of the argument and that of the buffer are from each
other in each loop.  For `base64_decode` that is `j <= 3 * i`, and `DecodedLenBound`
shows that `*out_len`, although computed from the last two characters alone, exceeds
`3 * i` while a group is left: so the first byte of each group, stored without
a check, has room.

What is written is in `AnswersInv`: how far each loop has produced its result
(`LoopInv`: the bytes below `2 * i`, the digits below `4 * i`, the bytes below `j`
and the groups that were accepted), what an encoder left (`CodedInv`), that the
argument of a decoder may be that text (`SourceInv`), and what each function
returned, character by character (`RetInv`).  None of `RoundTrip` and
`MatchesDefinition` is inductive: between the call and the return only `LoopInv` says
what the answer will be.  From there on it is arithmetic.  The code shifts and masks
numbers of a group, the definition speaks of bits; `Holds` says that a sequence has
the parts of given numbers, `GroupBits` what the bits of such parts are, and
`SameBits` that two sequences with the parts of the same numbers, in bytes and in
digits, have the same bits.  `EncodedHolds` and `DecodedRegrouped` use that for what the
code leaves.  `RoundTrip` needs in addition that a number is the sum of its four
digits and of its three bytes (`FourParts`, `PartsOfThree`), and that the '=' of an
encoded text are counted by the decoder as they were written (`PadCount`,
`DecodedLenIs`).

`ColumnsProofs` proves for columns of any length and any sets of texts, keys and
IVs:

* `ColumnsKept`: `Spec => []ColumnKept`; what one function encrypted comes back
  through its counterpart, and in no other way but that of the texts of one block which
  ECB and CBC with the zero IV share (`SameBlock`);
* `ColumnsFailureRaised`: `Spec => []FailureRaised`; a row that cannot be read ends the
  query and is never answered with the ciphertext or the word 'NULL'.

Assumptions: that texts, ciphertexts and the values that stand for something else
are different from each other (`ValueAssumption`; no text of a column looks like a
ciphertext, and the outcome of a wrong key is neither), and that missing arguments
are exactly those that are NULL or '' (`ArgumentAssumption`).  The argument is by
calls and then by rows: `Sealing` says what an encrypting call may make of a cell,
`Opening` and `NoOtherText` what a decrypting call makes of it and from what a text
can come at all, each by the four rules for NULL, '' and keys.  The invariant
`IInv` keeps what the two queries do not remember: that each row answered is an
answer to its cell (`Answered`), and, once the column is on its way, that all of
its rows are what `Sealed` allows in *one* coding (`OnTheWay`), without which one
row in the right coding would say nothing about the others.  A query that failed
leaves the row that failed it behind (`AtOpener`).

`SM4ModesProofs` proves for blocks of any size, any block cipher that is a
permutation under each key, any `size_t` in whose range a whole number of blocks
fits, and messages and ciphertexts of any length:

* `ModesTypeCorrect`: `Spec => []TypeOK`;
* `ModesInBounds`: `Spec => []InBounds`;
* `ModesCleanExit`: `Spec => []CleanExit`;
* `ModesFailureLeavesLength`: `Spec => []FailureLeavesLength`;
* `ModesBlockLocality`: `Spec => []BlockLocality`;
* `ModesRefinement`: the specification implements `CipherBox`.

Assumptions: the sizes, that the ciphertexts given fit in memory, that the cipher is
what `BlockBijective` says, and that XOR undoes itself.  The refinement needs that
two answers for one key, IV and mode agree in one text exactly when they agree in
the other, which is an induction over blocks.  It is carried by the loop: `IInv`
compares the unfinished output with *every* answer in `table` as far as the loop has
come (`EncryptInv`, `DecryptInv`), so that each step of the loop is one step of the
induction and the return finds the comparison done.  The padding is where the two
texts can differ in length only: equal padded texts have equal last bytes.

`SM4GcmProofs` proves for bytes, blocks and counters of any size, any block cipher, and
IVs of every length:

* `GcmTypeCorrect`, `GcmInBounds`, `GcmCleanExit`, `GcmNoKeystreamReuse`,
  `GcmHashInputInjective`: `Spec => []TypeOK` and so on;
* `GcmRefinement`: the specification implements `CipherBox`;
* `GcmTextOnlyAfterTag`: a decryption has written no byte unless the tag it was given
  is the one the code computes, and a call that fails has written nothing;
* `GcmMatchesDefinition`: ciphertext, tag, text and refusal are those of the definition
  of GCM on polynomials over GF(2);
* `GcmOnlyAuthenticPlaintext`: a decryption that has written a byte was given the tag
  of the definition, and a call that fails has written nothing;
* `GcmTextsMatch`: the same for every ciphertext and tag in the history of a session.

Assumptions: the sizes; that `Enc` gives blocks (`CipherAssumption`); that XOR adds the
bits of two bytes modulo two (`XorAssumption`); that a power of two, or of the number of
bytes, grows by its factor with its exponent, a law of `^` the provers do not have
(`PowerAssumption`); and
`LengthAssumption`: AAD and texts have fewer blocks than the counter has values besides
J0, and their lengths in bits differ in the length field when the lengths differ.  A
value of the server has less than 2^30 bytes, so it has less than 2^26 blocks where the
counter has 2^32 values, and 2^33 bits where the field has 2^64.  `sm4.c` itself checks
neither: beyond 2^32 - 2 blocks its counter would come round to J0.

The invariant `IInv` follows a call: the keys while they are needed (`KeyInv`), the text
written so far and the counter to come (`Progress`), what is hashed and the tag
(`CheckInv`, `CtrInv`), and what each recorded call has sealed or refused
(`GoodSealing`, `GoodRefusal`), as functions of the call alone (`CodeText`, `CodeTag`).
The box follows from these: masking twice gives the text back (`CodeTextFacts`), and a
tag cannot be both equal to `CodeTag` and different from it.  `NoKeystreamReuse` rests
on the arithmetic of big-endian counters: `gcm_inc32` adds one modulo the range of the
counter and leaves the rest of the block (`IncIsNext`), so that fewer than that many
steps from J0 are different (`CountersDiffer`); the freshness of each block is in
`Progress`, which bounds how far the blocks of the stream are from J0.  That values and
digits determine each other (`ValueOfNumber`, `DigitsOfValue`) and that the loops of
`ghash` and `gf128_mul` stay in the blocks (`GhashType`, `MulType`) are inductions.  They
are done over sets of numbers, from the well-foundedness of `<` (`NatSetInduction`,
`Recursion`).

That the code computes what the definition says is argued in four layers.

* *Sums.*  A polynomial is the set of its exponents, and a sum of polynomials keeps an
  exponent that an odd number of them has.  `OddSymDiff` is the law under it: the
  symmetric difference of two finite sets is odd when exactly one of them is.
* *Products.*  `Power`, the powers of x reduced by the field polynomial, is a recursive
  table; `PowerNext` says that its next entry is the one before, multiplied by x and
  reduced once (`TimesVar`).  `TimesAdd` takes a product one exponent of its first
  factor at a time: each adds the second factor, moved by so many places (`Moved`).
* *Blocks.*  A block is determined by its bits (`SamePolynomial`), XOR of blocks adds
  their polynomials (`XorExponents`), and one shift of `gf128_mul`, with the carry from
  byte to byte and the reduction, is a multiplication by x (`TimesXExponents`).
  `MulExponents` puts these into the loop of `gf128_mul`: after t bits `z` is the product
  with the bits of the first factor below t, and `v` the second factor times x^t.
* *Data.*  `ghash` is the hash of its input, padded (`GhashIsHash`, `GhashAndBlock`), and
  cutting the one buffer of `sm4_gcm_encrypt` into blocks gives the padded AAD, the
  padded ciphertext and the lengths (`LayoutIs`).  From these follow J0, tag and text
  (`FirstCounterIs`, `TagForIs`, `TextOfIs`).

`MatchesDefinition` and `OnlyAuthenticPlaintext` speak of the idle state after a call, of
which `IInv` keeps only the history; `AnswerInv` adds that the arguments of the call are
still those it was made with and that what the caller has is what the call put into the
history.

`SM4ExtProofs` proves for any arguments, sealed texts and foreign ciphertexts of any
length, and any number of calls:

* `ExtTypeCorrect`, `ExtHeapBalanced`, `ExtSecretsWiped`, `ExtLengthsFit`,
  `ExtRoundTrip`, `ExtAuthentic`, `ExtEmptyGivesNull`: each of the invariants of
  the run `sm4_ext`.

Assumptions: positive sizes; texts and bytes are sequences and a text has no NUL;
what `RAND_bytes` gives has the length of an IV; an argument of 12 or 16 characters
is taken for those and cannot be wrong hexadecimal.  `IInv` rests on where a function
stands: the steps left are a path of it (`FrameInv`: `Runs` says which functions come
to a step, `Follows` what comes next, `Programs` that each of the fourteen is such a
path).  From the next step alone follows what is held (`HeldAt`, `BlocksInv`), what
has been read (`ReadInv`) and what the input can be (`InputInv`), so each exit is
compared with its own list of `pfree`s.  The agreement of the functions is in
`SealedInv` and `OpenedInv`, which say by what parameters each recorded call was
answered, and in lemmas on the layout `IV || ciphertext || tag`: it can be cut in one
way only (`SplitJoined`, `JoinSplit`), and sealed bytes tell mode, parameters and
text apart (`SealedInjective`).

`SM2ContextProofs` proves for any set of keys and sizes of buffers and a session of
any length, with any OpenSSL call failing:

* `ContextTypeCorrect`, `ContextHeapOwned`, `ContextFlagsAgree`,
  `ContextPairMatches`, `ContextAllOrNothing`: `Spec => []TypeOK` and so on.

Assumptions: 0 is the one private key whose public key is infinity, and the values
for "no key" and "no buffer" are no keys and no sizes.  `HeapOwned` says that between
calls the heap is what `ctx` reaches; inside a call it is false, and what replaces it
says for each step of each function which pointers of `local` are set, that they point
to different objects, and that heap, `local`, `ctx` and `own` share nothing and leave
nothing over (`PointerInv`, `OwnedInv`).  `FlagsAgree` and `PairMatches` need what the
objects hold at each step besides (`KeyInv`, `KeyValueInv`, `GotInv`): that the
public point of an `EC_KEY` under construction is that of its private number from
"set_public" on.

`SM2ExtProofs` proves for any key pairs, texts and strays, signatures of any
length the code allows, and any number of calls, with any library call failing:

* `Sm2ExtTypeCorrect`, `Sm2ExtMemorySafe`, `Sm2ExtRoundTrip`,
  `Sm2ExtSignatureBinds`: each of the invariants of the run `sm2_ext`.

Assumptions: the sizes (a ciphertext is no longer than its text and the slack), that
the public key of 0 is infinity, and that the values that stand for something else
(what was never written, failure, malformed text, what nobody signed) are none of the
real ones (`ValueAssumption`).  Control and blocks are argued as for `SM4Ext`; `KeyInv`
adds which array or context holds the key the arguments stand for.  `RoundTrip` and
`SignatureBinds` come down to which byte sequences OpenSSL accepts: a symbolic
ciphertext or signature is recognised by its last byte, so it is no proper prefix of
another (`SealedPrefix`, `OwnAnswers`, `SignatureOnly`), and what is read through a
short header opens and verifies nothing (`MisreadAnswers`, `MisreadVerifies`).

The theorems about `SM4Ext` and `SM2Ext` stand on the ideal library of those modules:
`SM4Modes` and `SM4Gcm` are proved to be such a library (`ModesRefinement`,
`GcmRefinement`), and OpenSSL is taken to be one.

Nothing is only model-checked: every property of the passing runs is a theorem.  The
expected violations are TLC's alone.

## 5. Plan

The components with state are modelled, and what the runs check of them is proved.
What is left is to put `SM2Ext` on top of `SM2Context` by refinement instead of
by convention.

## 6. Not modelled, and why

The values of S-box and constants (data, covered by standard vectors in
`test_sm4_unit.c`); execution time (constant-time comparison, padding oracles
in timing); whether the compiler keeps a final `memset`; failure of `palloc`;
NULL pointers no caller passes; content of blocks after `pfree`; warnings and
messages; `derive_key_and_iv` and `derive_key_and_iv_dws`, which nothing calls.
What a planner does with a function that is declared `IMMUTABLE` and draws a random
IV: the repository has only the declaration.  What `VARSIZE` of a short header leads
to beyond a wrong length.  Which of the classes with one name in the three jars
(`com.audaque.hiveudf.SM4Utils`, `SM4Decrypt`) Hive loads when several are installed:
`Columns` has each function as its own project builds it.  The authenticator of
HiveServer2, which reads one line in its constructor and compares: nothing about it
changes afterwards.

## 7. Running

    tlasany M.tla
    tlc -config MCSM4Modes.cfg MCSM4Modes
    for m in *Proofs.tla; do tlapm $m; done

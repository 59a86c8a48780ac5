------------------------------- MODULE Columns -------------------------------
(***************************************************************************)
(* A column encrypted by a query with one of the functions of this           *)
(* repository, carried over, and decrypted by a query with another: the SQL  *)
(* functions of sm4_c and sm2_c and the Hive UDFs of sm4_java,               *)
(* adq-sm-algorithm and adq-sm-decrypt, which share no code and agree by     *)
(* convention.                                                               *)
(*                                                                           *)
(* A query calls its function once for each row, in order; a row that raises *)
(* (ereport, HiveException, NullPointerException) ends the query and its     *)
(* column is lost.  What the functions compute inside is SM4Ext, SM2Ext and, *)
(* in Java, BouncyCastle; here a function is its answer to a cell.  A        *)
(* ciphertext is the record of what it was made with, and two of them are    *)
(* equal where the block modes make them so (IvIdle).  That different keys,  *)
(* IVs or texts give different bytes, and that no tag is right by chance, is *)
(* idealised.  A key text is the bytes of a key in a notation.  Texts are    *)
(* short enough for all buffers.                                             *)
(***************************************************************************)
EXTENDS Integers, Sequences

CONSTANTS
  Texts,        (* plaintexts *)
  Short,        (* those shorter than a block of 16 bytes, one block when padded *)
  Plain,        (* columns: sequences of texts, Empty and Null *)
  SecretKeys,   (* key arguments: [notation, val] *)
  IvArgs,       (* IV arguments: the same *)
  ZeroIv,       (* the IV of 16 zero bytes *)
  NullWord,     (* the text 'NULL' *)
  Garbage,      (* what a wrong key may make of a ciphertext *)
  Null, Empty, Carried, Failure

Absent == {Null, Empty}

Ciphers == {"ecb", "cbc", "gcm", "sm2", "sm2 der"}
Codings == {"bytea", "hex", "base64"}

\* What a ciphertext was made with.
Ciphertexts ==
  LET vals == {k.val : k \in SecretKeys \cup IvArgs}
  IN  [alg : Ciphers, coding : Codings, key : vals, iv : vals \cup {Carried, Null},
       text : Texts \cup Absent]

\* A text is no ciphertext, and neither is one of the values that stand for
\* something else.
ASSUME ValueAssumption ==
  LET others == {Empty, NullWord, Garbage, Failure}
  IN  /\ Null \notin others /\ Empty \notin {NullWord, Garbage, Failure}
      /\ NullWord \notin {Garbage, Failure} /\ Garbage # Failure
      /\ Texts \cap (others \cup {Null}) = {}
      /\ Ciphertexts \cap (Texts \cup others \cup {Null}) = {}

\* A missing key is NULL or the empty text.
ASSUME ArgumentAssumption ==
  /\ Short \subseteq Texts
  /\ \A k \in SecretKeys : k.notation = "missing" <=> k.val \in Absent
  /\ \A k \in IvArgs : k.val = Null => k.notation = "missing"
  /\ \A col \in Plain : col \in Seq(Texts \cup Absent)

VARIABLES
  phase,        (* where the column is *)
  original,     (* the column as it was *)
  source,       (* the column the query reads *)
  column,       (* the rows it has answered *)
  sealer, opener   (* the two queries: [does, fn, key, iv], or Null *)

vars == <<phase, original, source, column, sealer, opener>>

-----------------------------------------------------------------------------
(* The functions.  reads: the notations of its key; iv: where the IV comes   *)
(* from ("none", an argument, drawn and carried in front of the ciphertext,  *)
(* or the bytes of the key).                                                 *)

Function(project, alg, coding, iv, reads) ==
  [project |-> project, alg |-> alg, coding |-> coding, iv |-> iv, reads |-> reads]

SM4Key == {"text", "hex"}            \* 16 bytes or 32 hexadecimal digits
Public == {"public bytes", "public hex"}
Private == {"private bytes", "private hex"}

\* What the encrypting and the decrypting SQL functions have in common.
SM4Sql == {Function("sm4_c", "ecb", coding, "none", SM4Key) : coding \in {"bytea", "hex"}}
          \cup {Function("sm4_c", "cbc", "bytea", "argument", SM4Key)}
          \cup {Function("sm4_c", "gcm", coding, iv, SM4Key) :
                  coding \in {"bytea", "base64"}, iv \in {"argument", "carried"}}

SM2Sql(key) == {Function("sm2_c", "sm2 der", coding, "none", key) :
                  coding \in Codings}

SM4EncryptECB == Function("sm4_java", "ecb", "base64", "none", SM4Key)
SM4DecryptECB == Function("sm4_java", "ecb", "base64", "none", SM4Key)
SM4EncryptCBC == Function("sm4_java", "cbc", "base64", "argument", SM4Key)
SM4DecryptCBC == Function("sm4_java", "cbc", "base64", "argument", SM4Key)

SM4Encrypt == Function("adq-sm-algorithm", "gcm", "base64", "key", {"base64"})
SM4Decrypt == Function("adq-sm-algorithm", "gcm", "base64", "key", {"base64"})
SM2Encrypt == Function("adq-sm-algorithm", "sm2", "base64", "none", {"public base64"})
SM2Decrypt == Function("adq-sm-algorithm", "sm2", "base64", "none", {"private base64"})
SM2HexEncrypt == Function("adq-sm-algorithm", "sm2", "hex", "none", {"public hex"})
SM2HexDecrypt == Function("adq-sm-algorithm", "sm2", "hex", "none", {"private hex"})

SM4DecryptOnly == Function("adq-sm-decrypt", "gcm", "base64", "key", {"base64"})
SM2DecryptOnly == Function("adq-sm-decrypt", "sm2", "base64", "none", {"private hex"})

Encrypting == SM4Sql \cup SM2Sql(Public)
              \cup {SM4EncryptECB, SM4EncryptCBC, SM4Encrypt, SM2Encrypt, SM2HexEncrypt}
Decrypting == SM4Sql \cup SM2Sql(Private)
              \cup {SM4DecryptECB, SM4DecryptCBC, SM4Decrypt, SM2Decrypt, SM2HexDecrypt,
                    SM4DecryptOnly, SM2DecryptOnly}

-----------------------------------------------------------------------------
(* One call *)

KeyMissing(q) == q.key.notation = "missing"

IvNull(q) == q.fn.iv = "argument" /\ q.iv.val = Null

\* get_key_bytes and the like, processKey, decodeFromString: a text in another
\* notation has another length for each of them.
Readable(q) ==
  /\ q.key.notation \in q.fn.reads
  /\ q.fn.iv = "argument" => q.iv.notation \in SM4Key

IvZero(q) ==                 \* mutant: the array of zeros that is commented out
  CASE q.fn.iv = "argument" -> q.iv.val
    [] q.fn.iv = "carried"  -> Carried
    [] OTHER                -> Null

Iv(q) ==
  CASE q.fn.iv = "argument" -> q.iv.val
    [] q.fn.iv = "carried"  -> Carried
    [] q.fn.iv = "key"      -> q.key.val
    [] OTHER                -> Null

\* CBC adds the IV to the first block: the zero IV, which every reader of an IV
\* takes for one, leaves the only block of a short text as ECB has it.
IvIdle(q, text) == q.fn.alg = "cbc" /\ Iv(q) = ZeroIv /\ text \in Short

Cell(q, coding, text) ==
  LET idle == IvIdle(q, text)
  IN  [alg |-> IF idle THEN "ecb" ELSE q.fn.alg, coding |-> coding, key |-> q.key.val,
       iv |-> IF idle THEN Null ELSE Iv(q), text |-> text]

\* A block mode may find the padding right by accident.
Opened(q, cell) ==
  IF \E text \in Texts : cell = Cell(q, q.fn.coding, text)
  THEN {cell.text}
  ELSE {Failure} \cup IF q.fn.alg \in {"ecb", "cbc"} THEN {Garbage} ELSE {}

Crypt(q, cell) ==
  IF q.does = "encrypt" THEN {Cell(q, q.fn.coding, cell)} ELSE Opened(q, cell)

\* The SQL functions: NULL for NULL, and in sm4_c for ''.
AnswerSql(q, cell) ==
  IF cell = Null \/ q.key.val = Null \/ IvNull(q) THEN {Null}
  ELSE IF ~Readable(q) THEN {Failure}
  ELSE IF cell = Empty THEN {IF q.fn.project = "sm4_c" THEN Null ELSE Failure}
  ELSE Crypt(q, cell)

\* evaluate of the four classes of sm4_java
AnswerSm4Java(q, cell) ==
  IF cell \in Absent THEN {Empty}
  ELSE IF ~Readable(q) THEN {Failure}
  ELSE Crypt(q, cell)

\* evaluate of SM4Encrypt and SM4Decrypt in adq-sm-algorithm: without a key the
\* cell comes back, and new Text(null) throws.
AnswerAlgorithm(q, cell) ==
  IF cell = Null THEN {Failure}
  ELSE IF cell = Empty \/ KeyMissing(q) THEN {cell}
  ELSE IF ~Readable(q) THEN {Failure}
  ELSE Crypt(q, cell)

AnswerCellOnFailure(q, cell) ==      \* mutant: catch (Exception e) { return encryptedData; }
  IF cell \in Absent \/ KeyMissing(q) THEN {Null}
  ELSE LET made == IF Readable(q) THEN Crypt(q, cell) ELSE {Failure}
       IN  {IF answer = Failure /\ q.does = "decrypt" THEN cell ELSE answer : answer \in made}

\* evaluate of the UDFs of adq-sm-decrypt and of SM2 in adq-sm-algorithm
AnswerOrNull(q, cell) ==
  IF cell \in Absent \/ KeyMissing(q) THEN {Null}
  ELSE IF ~Readable(q) THEN {Failure}
  ELSE Crypt(q, cell)

Answer(q, cell) ==
  IF q.fn.project \in {"sm4_c", "sm2_c"} THEN AnswerSql(q, cell)
  ELSE IF q.fn.project = "sm4_java" THEN AnswerSm4Java(q, cell)
  ELSE IF q.fn \in {SM4Encrypt, SM4Decrypt} THEN AnswerAlgorithm(q, cell)
  ELSE AnswerOrNull(q, cell)

-----------------------------------------------------------------------------
(* The two queries and the way between them *)

Query == IF phase = "encrypting" THEN sealer ELSE opener

Queries(does, fns) ==
  UNION {[does : {does}, fn : {f}, key : SecretKeys,
          iv : IF f.iv = "argument" THEN IvArgs ELSE {Null}] : f \in fns}

Init ==
  /\ original \in Plain
  /\ phase = "plain"
  /\ source = original /\ column = <<>>
  /\ sealer = Null /\ opener = Null

Encrypt ==
  /\ phase = "plain"
  /\ phase' = "encrypting"
  /\ sealer' \in Queries("encrypt", Encrypting)
  /\ UNCHANGED <<original, source, column, opener>>

Running == phase \in {"encrypting", "decrypting"}

Raise == phase' = "failed" /\ column' = <<>>

\* evaluate, or the SQL function, called for the next row
Row ==
  /\ Running /\ Len(column) < Len(source)
  /\ \E answer \in Answer(Query, source[Len(column) + 1]) :
       \/ answer = Failure /\ Raise
       \/ answer # Failure /\ column' = Append(column, answer) /\ UNCHANGED phase
  /\ UNCHANGED <<original, source, sealer, opener>>

End ==
  /\ Running /\ Len(column) = Len(source)
  /\ phase' = IF phase = "encrypting" THEN "sealed" ELSE "opened"
  /\ UNCHANGED <<original, source, column, sealer, opener>>

\* A cell on the other side: a ciphertext in another coding, NULL as the word.
Delivered(cell, text, coding, null) ==
  IF cell = Null THEN null
  ELSE IF cell = Cell(sealer, sealer.fn.coding, text) THEN Cell(sealer, coding, text)
  ELSE cell

Carry ==
  /\ phase = "sealed"
  /\ phase' = "carried"
  /\ \E coding \in Codings, null \in {Null, NullWord} :
       source' = [i \in 1 .. Len(original) |-> Delivered(column[i], original[i], coding, null)]
  /\ column' = <<>>
  /\ UNCHANGED <<original, sealer, opener>>

Decrypt ==
  /\ phase = "carried"
  /\ phase' = "decrypting"
  /\ opener' \in Queries("decrypt", Decrypting)
  /\ UNCHANGED <<original, source, column, sealer>>

Next ==
  \/ Encrypt
  \/ Row
  \/ End
  \/ Carry
  \/ Decrypt

Spec == Init /\ [][Next]_vars

-----------------------------------------------------------------------------
(* Properties *)

\* The IV as the documents have it: the UDFs of GCM use the value of the key
\* (vastbase2mrs.md:146).
Nonce(q) ==
  CASE q.fn.iv = "key"      -> q.key.val
    [] q.fn.iv = "argument" -> q.iv.val
    [] q.fn.iv = "carried"  -> Carried
    [] q.fn.iv = "none"     -> Null

\* The second function is the counterpart of the first: same cipher, key and IV,
\* each key text in a notation its function reads, the column in the coding the
\* second reads.
Counterparts ==
  /\ Readable(sealer) /\ Readable(opener)
  /\ sealer.fn.alg = opener.fn.alg
  /\ sealer.key.val = opener.key.val
  /\ Nonce(sealer) = Nonce(opener)
  /\ \A i \in DOMAIN original :
       original[i] \notin Absent => source[i].coding = opener.fn.coding

\* What the UDFs of adq-sm-algorithm for SM4 do with a column that has NULL in it,
\* and all functions with one that has the word.
Unreadable ==
  \E i \in DOMAIN source :
    \/ source[i] = NullWord
    \/ source[i] = Null /\ opener.fn = SM4Decrypt

PassedThrough(q) == q.fn \in {SM4Encrypt, SM4Decrypt} /\ KeyMissing(q)

\* No text of an encrypted column is still a plaintext, but where sm4_encrypt of
\* adq-sm-algorithm was given no key.
RowsSealed ==
  phase = "carried" =>
    \A i \in DOMAIN original :
      original[i] \notin Absent /\ source[i] = original[i] => PassedThrough(sealer)

\* A column comes back through the counterpart of the function that encrypted it,
\* in whichever of the five parts the two are, every text as it was and NULL or
\* '' where there was none; the word 'NULL', and NULL itself in one UDF, costs the
\* whole query.
RowsReturn ==
  phase \in {"opened", "failed"} /\ opener # Null /\ Counterparts /\ ~Unreadable =>
      /\ phase = "opened"
      /\ \A i \in DOMAIN original :
           IF original[i] \in Absent THEN column[i] \in Absent ELSE column[i] = original[i]

\* The one pair of different ciphers that agree: ECB, and CBC with the zero IV, over
\* a text of one block.
SameBlock(text) ==
  /\ text \in Short
  /\ {sealer.fn.alg, opener.fn.alg} = {"ecb", "cbc"}
  /\ sealer.key.val = opener.key.val
  /\ \A q \in {sealer, opener} : q.fn.alg = "cbc" => Iv(q) = ZeroIv

\* Through any other function, key or IV no text of it comes back, but for the short
\* ones that CBC with the zero IV shares with ECB.
NoOtherWay ==
  phase = "opened" /\ ~(PassedThrough(sealer) \/ Counterparts) =>
    \A i \in DOMAIN original :
      original[i] \notin Absent /\ column[i] = original[i] => SameBlock(original[i])

\* What the database encrypts Hive decrypts and the other way round, in the pairs
\* the documents speak of (README.md, vastbase2mrs.md; MRS_HIVE_SM4_GUIDE.md:367 has
\* CBC and ECB where SM4Encrypt of adq-sm-algorithm is GCM): the columns are sealed, come
\* back, and come back in no way but the one NoOtherWay leaves.
ColumnKept == RowsSealed /\ RowsReturn /\ NoOtherWay

\* A failure is raised, never put into the column: a decrypting query that ends has
\* in each row the text that was there, what a block mode made of a wrong key, or
\* nothing where there was nothing to read or nothing to read it with; no ciphertext
\* and no word 'NULL' stays in it as if it were the text.
FailureRaised ==
  phase = "opened" /\ ~PassedThrough(opener) =>
    \A i \in DOMAIN original :
      \/ column[i] \in Texts /\ column[i] = original[i]
      \/ column[i] = Garbage /\ opener.fn.alg \in {"ecb", "cbc"}
      \/ /\ column[i] \in Absent
         /\ source[i] \in Absent \/ KeyMissing(opener) \/ IvNull(opener)

=============================================================================

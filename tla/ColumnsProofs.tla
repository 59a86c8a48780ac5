---------------------------- MODULE ColumnsProofs ----------------------------
(***************************************************************************)
(* A theorem about Columns, for columns of any length and any texts, keys    *)
(* and IVs: what one function of the repository encrypted its counterpart    *)
(* makes readable again, and nothing else does but ECB for CBC with the zero *)
(* IV over a single block, or the other way round; no failure stays in a     *)
(* column.                                                                   *)
(***************************************************************************)
EXTENDS Columns, TLAPS

USE DEF Absent

-----------------------------------------------------------------------------
(* The functions and the queries *)

SM4Java == {SM4EncryptECB, SM4DecryptECB, SM4EncryptCBC, SM4DecryptCBC}
Adq == {SM4Encrypt, SM4Decrypt, SM2Encrypt, SM2Decrypt, SM2HexEncrypt, SM2HexDecrypt,
        SM4DecryptOnly, SM2DecryptOnly}

Functions == SM4Sql \cup SM2Sql(Public) \cup SM2Sql(Private) \cup SM4Java \cup Adq

\* What the cases of a call rest on: the names a function can have, that no key is
\* read from a missing argument, and that sm2_c alone writes its ciphertexts in DER.
Known(f) ==
  /\ f.project \in {"sm4_c", "sm2_c", "sm4_java", "adq-sm-algorithm", "adq-sm-decrypt"}
  /\ f.alg \in Ciphers /\ f.coding \in Codings
  /\ f.iv \in {"none", "argument", "carried", "key"}
  /\ "missing" \notin f.reads
  /\ f.alg = "sm2 der" <=> f.project = "sm2_c"

LEMMA FunctionKnown ==
  ASSUME NEW project \in {"sm4_c", "sm2_c", "sm4_java", "adq-sm-algorithm", "adq-sm-decrypt"},
         NEW alg \in Ciphers, NEW coding \in Codings,
         NEW iv \in {"none", "argument", "carried", "key"}, NEW reads,
         "missing" \notin reads, alg = "sm2 der" <=> project = "sm2_c"
  PROVE  Known(Function(project, alg, coding, iv, reads))
BY DEF Known, Function

LEMMA FunctionsKnown == \A f \in Functions : Known(f)
<1> USE DEF Ciphers, Codings
<1>1. ASSUME NEW f \in SM4Sql
      PROVE  Known(f)
  <2> "missing" \notin SM4Key
    BY DEF SM4Key
  <2>1. CASE \E coding \in {"bytea", "hex"} :
               f = Function("sm4_c", "ecb", coding, "none", SM4Key)
    BY <2>1, FunctionKnown
  <2>2. CASE f = Function("sm4_c", "cbc", "bytea", "argument", SM4Key)
    BY <2>2, FunctionKnown
  <2>3. CASE \E coding \in {"bytea", "base64"}, iv \in {"argument", "carried"} :
               f = Function("sm4_c", "gcm", coding, iv, SM4Key)
    <3>1. PICK coding \in {"bytea", "base64"}, iv \in {"argument", "carried"} :
            f = Function("sm4_c", "gcm", coding, iv, SM4Key)
      BY <2>3
    <3>2. coding \in Codings /\ iv \in {"none", "argument", "carried", "key"} /\ "gcm" \in Ciphers
      OBVIOUS
    <3>3. Known(Function("sm4_c", "gcm", coding, iv, SM4Key))
      BY <3>2, FunctionKnown
    <3> QED
      BY <3>1, <3>3
  <2> QED
    BY <2>1, <2>2, <2>3 DEF SM4Sql
<1>2. ASSUME NEW key \in {Public, Private}, NEW f \in SM2Sql(key)
      PROVE  Known(f)
  <2> "missing" \notin Public /\ "missing" \notin Private
    BY DEF Public, Private
  <2>1. "missing" \notin key
    OBVIOUS
  <2>2. PICK coding \in Codings : f = Function("sm2_c", "sm2 der", coding, "none", key)
    BY DEF SM2Sql
  <2> QED
    BY <2>1, <2>2, FunctionKnown
<1>3. ASSUME NEW f \in SM4Java
      PROVE  Known(f)
  <2> "missing" \notin SM4Key
    BY DEF SM4Key
  <2>1. CASE f = Function("sm4_java", "ecb", "base64", "none", SM4Key)
    BY <2>1, FunctionKnown
  <2>2. CASE f = Function("sm4_java", "cbc", "base64", "argument", SM4Key)
    BY <2>2, FunctionKnown
  <2> QED
    BY <2>1, <2>2
       DEF SM4Java, SM4EncryptECB, SM4DecryptECB, SM4EncryptCBC, SM4DecryptCBC
<1>4. ASSUME NEW f \in Adq
      PROVE  Known(f)
  <2>1. PICK project \in {"adq-sm-algorithm", "adq-sm-decrypt"} :
          \/ f = Function(project, "gcm", "base64", "key", {"base64"})
          \/ \E coding \in {"base64", "hex"},
                reads \in {{"public base64"}, {"private base64"},
                          {"public hex"}, {"private hex"}} :
               f = Function(project, "sm2", coding, "none", reads)
    BY DEF Adq, SM4Encrypt, SM4Decrypt, SM2Encrypt, SM2Decrypt, SM2HexEncrypt,
           SM2HexDecrypt, SM4DecryptOnly, SM2DecryptOnly
  <2>2. CASE f = Function(project, "gcm", "base64", "key", {"base64"})
    BY <2>2, FunctionKnown
  <2>3. ASSUME NEW coding \in {"base64", "hex"},
               NEW reads \in {{"public base64"}, {"private base64"},
                             {"public hex"}, {"private hex"}},
               f = Function(project, "sm2", coding, "none", reads)
        PROVE  Known(f)
    BY <2>3, FunctionKnown
  <2> QED
    BY <2>1, <2>2, <2>3
<1> QED
  BY <1>1, <1>2, <1>3, <1>4 DEF Functions

\* A query as the cases of a call see it.
IsQuery(q) ==
  /\ Known(q.fn)
  /\ q.key \in SecretKeys
  /\ q.fn.iv = "argument" => q.iv \in IvArgs

Sealers == Queries("encrypt", Encrypting)
Openers == Queries("decrypt", Decrypting)

LEMMA QueriesKnown ==
  /\ \A q \in Sealers : IsQuery(q) /\ q.does = "encrypt"
  /\ \A q \in Openers : IsQuery(q) /\ q.does = "decrypt"
<1>1. Encrypting \subseteq Functions /\ Decrypting \subseteq Functions
  BY DEF Encrypting, Decrypting, Functions, SM4Java, Adq
<1>2. ASSUME NEW does, NEW fns \in SUBSET Functions, NEW q \in Queries(does, fns)
      PROVE  IsQuery(q) /\ q.does = does
  <2>1. PICK f \in fns :
          q \in [does : {does}, fn : {f}, key : SecretKeys,
                 iv : IF f.iv = "argument" THEN IvArgs ELSE {Null}]
    BY <1>2 DEF Queries
  <2>2. q.fn = f /\ q.does = does /\ q.key \in SecretKeys
    BY <2>1
  <2>3. f.iv = "argument" => q.iv \in IvArgs
    BY <2>1
  <2> QED
    BY <2>2, <2>3, FunctionsKnown DEF IsQuery
<1> QED
  BY <1>1, <1>2 DEF Sealers, Openers

-----------------------------------------------------------------------------
(* One call *)

\* A ciphertext is none of the other values a cell can be.
LEMMA CellApart ==
  ASSUME NEW q, IsQuery(q), NEW coding \in Codings, NEW text \in Texts \cup Absent
  PROVE  Cell(q, coding, text) \notin Texts \cup {Null, Empty, NullWord, Garbage, Failure}
<1> DEFINE vals == {k.val : k \in SecretKeys \cup IvArgs}
<1>1. q.key.val \in vals /\ (q.fn.iv = "argument" => q.iv.val \in vals)
  BY DEF IsQuery
<1>2. Iv(q) \in vals \cup {Carried, Null}
  BY <1>1 DEF Iv
<1>3. Cell(q, coding, text) \in Ciphertexts
  <2>1. q.fn.alg \in Ciphers /\ "ecb" \in Ciphers
    BY DEF IsQuery, Known, Ciphers
  <2> QED
    BY <1>1, <1>2, <2>1 DEF Cell, Ciphertexts
<1> QED
  BY <1>3, ValueAssumption

\* A function reads no key and no IV out of a missing argument.
LEMMA ReadableArguments ==
  ASSUME NEW q, IsQuery(q), Readable(q)
  PROVE  ~KeyMissing(q) /\ q.key.val \notin Absent /\ ~IvNull(q)
<1>1. ~KeyMissing(q) /\ q.key.val \notin Absent
  BY ArgumentAssumption DEF IsQuery, Known, Readable, KeyMissing
<1>2. ~IvNull(q)
  BY ArgumentAssumption DEF IsQuery, Readable, IvNull, SM4Key
<1> QED
  BY <1>1, <1>2

\* What an encrypting query may make of a cell.
Sealed(q, cell, answer) ==
  /\ cell \in Absent => answer \in Absent /\ (q.fn.alg = "sm2 der" => answer = Null)
  /\ cell \in Texts =>
       \/ Readable(q) /\ answer = Cell(q, q.fn.coding, cell)
       \/ ~Readable(q) /\ answer = Null
       \/ PassedThrough(q) /\ answer = cell

LEMMA Sealing ==
  ASSUME NEW q, IsQuery(q), q.does = "encrypt",
         NEW cell \in Texts \cup Absent, NEW answer \in Answer(q, cell), answer # Failure
  PROVE  Sealed(q, cell, answer)
<1> (cell \in Texts => cell \notin {Null, Empty}) /\ Failure \notin {Null, Empty}
  BY ValueAssumption
<1>1. Readable(q) => ~KeyMissing(q) /\ q.key.val # Null /\ ~IvNull(q)
  BY ReadableArguments
<1>2. Crypt(q, cell) = {Cell(q, q.fn.coding, cell)}
  BY DEF Crypt
<1>3. CASE q.fn.project \in {"sm4_c", "sm2_c"}
  <2>1. answer \in AnswerSql(q, cell)
    BY <1>3 DEF Answer
  <2>2. q.fn.alg = "sm2 der" => q.fn.project # "sm4_c"
    BY DEF IsQuery, Known
  <2>3. CASE cell = Null \/ q.key.val = Null \/ IvNull(q)
    BY <2>1, <2>3, <1>1 DEF AnswerSql, Sealed
  <2>4. CASE ~(cell = Null \/ q.key.val = Null \/ IvNull(q))
    BY <2>1, <2>2, <2>4, <1>1, <1>2 DEF AnswerSql, Sealed
  <2> QED
    BY <2>3, <2>4
<1>4. CASE q.fn.project = "sm4_java"
  <2>1. answer \in AnswerSm4Java(q, cell)
    BY <1>4 DEF Answer
  <2>2. q.fn.alg # "sm2 der"
    BY <1>4 DEF IsQuery, Known
  <2> QED
    BY <2>1, <2>2, <1>1, <1>2 DEF AnswerSm4Java, Sealed
<1>5. CASE q.fn.project \in {"adq-sm-algorithm", "adq-sm-decrypt"}
  <2>1. q.fn.alg # "sm2 der"
    BY <1>5 DEF IsQuery, Known
  <2>2. CASE q.fn \in {SM4Encrypt, SM4Decrypt}
    <3>1. answer \in AnswerAlgorithm(q, cell)
      BY <1>5, <2>2 DEF Answer
    <3> QED
      BY <2>1, <2>2, <3>1, <1>1, <1>2 DEF AnswerAlgorithm, Sealed, PassedThrough
  <2>3. CASE q.fn \notin {SM4Encrypt, SM4Decrypt}
    <3>1. answer \in AnswerOrNull(q, cell)
      BY <1>5, <2>3 DEF Answer
    <3> QED
      BY <2>1, <3>1, <1>1, <1>2 DEF AnswerOrNull, Sealed
  <2> QED
    BY <2>2, <2>3
<1> QED
  BY <1>3, <1>4, <1>5 DEF IsQuery, Known

\* The counterpart's call gives the text back, or says that there was none; what it
\* makes of NULL and '' is an answer in all functions but two.
LEMMA Opening ==
  ASSUME NEW q, IsQuery(q), q.does = "decrypt", Readable(q)
  PROVE  /\ \A text \in Texts : Answer(q, Cell(q, q.fn.coding, text)) = {text}
         /\ \A cell \in Absent :
              \/ Answer(q, cell) \subseteq Absent
              \/ cell = Null /\ q.fn = SM4Decrypt
              \/ cell = Empty /\ q.fn.alg = "sm2 der"
<1>1. ~KeyMissing(q) /\ q.key.val # Null /\ ~IvNull(q) /\ Readable(q)
  BY ReadableArguments
<1>2. Null # Empty
  BY ValueAssumption
<1>3. ASSUME NEW text \in Texts
      PROVE  Answer(q, Cell(q, q.fn.coding, text)) = {text}
  <2> DEFINE cell == Cell(q, q.fn.coding, text)
  <2>1. cell.text = text
    BY DEF Cell
  <2>2. cell \notin {Null, Empty}
    BY CellApart DEF IsQuery, Known
  <2>3. Crypt(q, cell) = {text}
    BY <2>1 DEF Crypt, Opened
  <2> HIDE DEF cell
  <2>4. AnswerSql(q, cell) = {text} /\ AnswerSm4Java(q, cell) = {text}
    BY <1>1, <2>2, <2>3 DEF AnswerSql, AnswerSm4Java
  <2>5. AnswerAlgorithm(q, cell) = {text} /\ AnswerOrNull(q, cell) = {text}
    BY <1>1, <2>2, <2>3 DEF AnswerAlgorithm, AnswerOrNull
  <2>6. Answer(q, cell) = {text}
    BY <2>4, <2>5 DEF Answer
  <2> QED
    BY <2>6 DEF cell
<1>4. ASSUME NEW cell \in Absent,
             ~(cell = Null /\ q.fn = SM4Decrypt), ~(cell = Empty /\ q.fn.alg = "sm2 der")
      PROVE  Answer(q, cell) \subseteq Absent
  <2>1. CASE q.fn.project \in {"sm4_c", "sm2_c"}
    <3>1. Answer(q, cell) = AnswerSql(q, cell)
      BY <2>1 DEF Answer
    <3>2. cell = Empty => q.fn.project = "sm4_c"
      BY <1>4, <2>1 DEF IsQuery, Known
    <3> QED
      BY <1>1, <1>2, <3>1, <3>2 DEF AnswerSql
  <2>2. CASE q.fn.project = "sm4_java"
    <3>1. Answer(q, cell) = AnswerSm4Java(q, cell)
      BY <2>2 DEF Answer
    <3> QED
      BY <1>1, <3>1 DEF AnswerSm4Java
  <2>3. CASE q.fn.project \in {"adq-sm-algorithm", "adq-sm-decrypt"}
    <3>1. CASE q.fn \in {SM4Encrypt, SM4Decrypt}
      <4>1. Answer(q, cell) = AnswerAlgorithm(q, cell) /\ cell = Empty
        BY <1>1, <1>4, <2>3, <3>1 DEF Answer, SM4Encrypt, SM4Decrypt
      <4> QED
        BY <1>1, <1>2, <4>1 DEF AnswerAlgorithm
    <3>2. CASE q.fn \notin {SM4Encrypt, SM4Decrypt}
      <4>1. Answer(q, cell) = AnswerOrNull(q, cell)
        BY <2>3, <3>2 DEF Answer
      <4> QED
        BY <1>1, <1>2, <4>1 DEF AnswerOrNull
    <3> QED
      BY <3>1, <3>2
  <2> QED
    BY <2>1, <2>2, <2>3 DEF IsQuery, Known
<1> QED
  BY <1>3, <1>4

\* A text comes out of a call only if it was sealed for that call, or never was.
LEMMA NoOtherText ==
  ASSUME NEW q, IsQuery(q), q.does = "decrypt", NEW cell,
         NEW text \in Texts, text \in Answer(q, cell)
  PROVE  \/ PassedThrough(q) /\ cell = text
         \/ Readable(q) /\ cell = Cell(q, q.fn.coding, text)
<1> USE ValueAssumption
<1>1. ASSUME text \in Crypt(q, cell)
      PROVE  cell = Cell(q, q.fn.coding, text)
  <2>1. text \in Opened(q, cell) /\ text \notin {Failure, Garbage}
    BY <1>1 DEF Crypt
  <2>2. PICK t \in Texts : cell = Cell(q, q.fn.coding, t) /\ cell.text = text
    BY <2>1 DEF Opened
  <2>3. cell.text = t
    BY <2>2 DEF Cell
  <2> QED
    BY <2>2, <2>3
<1>2. text \notin {Null, Empty, Failure}
  OBVIOUS
<1>3. text \in AnswerSql(q, cell) \/ text \in AnswerSm4Java(q, cell) =>
        Readable(q) /\ cell = Cell(q, q.fn.coding, text)
  BY <1>1, <1>2 DEF AnswerSql, AnswerSm4Java
<1>4. text \in AnswerOrNull(q, cell) => Readable(q) /\ cell = Cell(q, q.fn.coding, text)
  BY <1>1, <1>2 DEF AnswerOrNull
<1>5. text \in AnswerAlgorithm(q, cell) =>
        \/ KeyMissing(q) /\ cell = text
        \/ Readable(q) /\ cell = Cell(q, q.fn.coding, text)
  BY <1>1, <1>2 DEF AnswerAlgorithm
<1> QED
  BY <1>3, <1>4, <1>5 DEF Answer, PassedThrough

-----------------------------------------------------------------------------
(* Rows *)

\* A query's answers so far, row by row, none of them a failure.
Answered(col, q, rows) ==
  /\ col \in Seq(UNION {Answer(q, rows[i]) : i \in 1 .. Len(rows)})
  /\ Len(col) <= Len(rows)
  /\ \A i \in 1 .. Len(col) : col[i] \in Answer(q, rows[i]) \ {Failure}

LEMMA NoRows ==
  ASSUME NEW q, NEW rows, Len(rows) \in Nat
  PROVE  Answered(<<>>, q, rows)
BY DEF Answered

LEMMA NextRow ==
  ASSUME NEW col, NEW q, NEW rows, Answered(col, q, rows),
         Len(rows) \in Nat, Len(col) < Len(rows),
         NEW answer \in Answer(q, rows[Len(col) + 1]), answer # Failure
  PROVE  Answered(Append(col, answer), q, rows)
<1> DEFINE answers == UNION {Answer(q, rows[i]) : i \in 1 .. Len(rows)}
           longer == Append(col, answer)
<1>1. col \in Seq(answers) /\ Len(col) \in Nat
  BY DEF Answered
<1>2. answer \in answers
  BY <1>1
<1> HIDE DEF answers
<1>3. longer \in Seq(answers) /\ Len(longer) = Len(col) + 1
  BY <1>1, <1>2
<1>4. \A i \in 1 .. Len(longer) : longer[i] \in Answer(q, rows[i]) \ {Failure}
  <2> TAKE i \in 1 .. Len(longer)
  <2>1. CASE i = Len(col) + 1
    BY <1>1, <2>1
  <2>2. CASE i \in 1 .. Len(col)
    BY <1>1, <2>2 DEF Answered
  <2> QED
    BY <1>1, <1>3, <2>1, <2>2
<1> QED
  BY <1>1, <1>3, <1>4 DEF Answered, answers

\* What the decrypting query may find in a row: what Sealed made of the text, in the
\* coding the column was carried in.
CarriedRow(q, coding, text, cell) ==
  /\ text \in Absent =>
       /\ cell \in Absent \cup {NullWord}
       /\ q.fn.alg = "sm2 der" => cell # Empty
  /\ text \in Texts =>
       \/ Readable(q) /\ cell = Cell(q, coding, text)
       \/ ~Readable(q) /\ cell \in {Null, NullWord}
       \/ PassedThrough(q) /\ cell = text

LEMMA Carrying ==
  ASSUME sealer \in Sealers, NEW text \in Texts \cup Absent, NEW cell,
         Sealed(sealer, text, cell),
         NEW coding \in Codings, NEW null \in {Null, NullWord}
  PROVE  CarriedRow(sealer, coding, text, Delivered(cell, text, coding, null))
<1>1. Cell(sealer, sealer.fn.coding, text) \notin Texts \cup {Null, Empty}
  BY QueriesKnown, CellApart DEF IsQuery, Known
<1>2. (text \in Texts => text \notin {Null, Empty}) /\ Null # Empty /\ NullWord # Empty
  BY ValueAssumption
<1>3. CASE text \in Absent
  BY <1>1, <1>2, <1>3 DEF Sealed, CarriedRow, Delivered
<1>4. CASE text \in Texts
  BY <1>1, <1>2, <1>4 DEF Sealed, CarriedRow, Delivered
<1> QED
  BY <1>3, <1>4

-----------------------------------------------------------------------------
(* The invariant *)

Phases == {"plain", "encrypting", "sealed", "carried", "decrypting", "opened", "failed"}

\* The column has left the side that encrypted it.
Away == phase \in {"carried", "decrypting", "opened"} \/ (phase = "failed" /\ opener # Null)

BeforeQuery == phase = "plain" => source = original /\ column = <<>> /\ opener = Null

AtSealer ==
  phase \in {"encrypting", "sealed"} =>
    /\ sealer \in Sealers /\ opener = Null /\ source = original
    /\ Answered(column, sealer, original)
    /\ phase = "sealed" => Len(column) = Len(original)

OnTheWay ==
  Away =>
    /\ sealer \in Sealers
    /\ DOMAIN source = 1 .. Len(original) /\ Len(source) = Len(original)
    /\ \E coding \in Codings : \A i \in 1 .. Len(original) :
         CarriedRow(sealer, coding, original[i], source[i])
    /\ phase = "carried" => column = <<>>

AtOpener ==
  /\ phase \in {"decrypting", "opened"} =>
       /\ opener \in Openers
       /\ Answered(column, opener, source)
       /\ phase = "opened" => Len(column) = Len(source)
  /\ phase = "failed" /\ opener # Null =>
       opener \in Openers /\ \E i \in 1 .. Len(original) : Failure \in Answer(opener, source[i])

IInv ==
  /\ phase \in Phases
  /\ original \in Seq(Texts \cup Absent)
  /\ BeforeQuery /\ AtSealer /\ OnTheWay /\ AtOpener

LEMMA InitEstablishes == Init => IInv
BY ArgumentAssumption
   DEF Init, IInv, Phases, BeforeQuery, AtSealer, OnTheWay, Away, AtOpener

LEMMA NextPreserves == IInv /\ [Next]_vars => IInv'
<1> SUFFICES ASSUME IInv, [Next]_vars
             PROVE  IInv'
  OBVIOUS
<1> USE DEF Phases
<1>0. Len(original) \in Nat /\ DOMAIN original = 1 .. Len(original)
  BY DEF IInv
<1>1. CASE Encrypt
  <2>1. Answered(<<>>, sealer', original)
    BY <1>0, NoRows
  <2>2. AtSealer'
    BY <1>1, <2>1 DEF Encrypt, Sealers, AtSealer, IInv, BeforeQuery
  <2> QED
    BY <1>1, <2>2 DEF Encrypt, IInv, BeforeQuery, OnTheWay, Away, AtOpener
<1>2. CASE Row
  <2>1. PICK answer \in Answer(Query, source[Len(column) + 1]) :
          \/ answer = Failure /\ Raise
          \/ answer # Failure /\ column' = Append(column, answer) /\ UNCHANGED phase
    BY <1>2 DEF Row
  <2>2. Running /\ Len(column) < Len(source)
        /\ UNCHANGED <<original, source, sealer, opener>>
    BY <1>2 DEF Row
  <2>3. CASE phase = "encrypting"
    <3>1. AtSealer /\ source = original /\ opener = Null /\ Query = sealer
      BY <2>3 DEF IInv, AtSealer, Query
    <3>2. CASE answer = Failure /\ Raise
      BY <2>2, <3>1, <3>2 DEF Raise, IInv, BeforeQuery, AtSealer, OnTheWay, Away, AtOpener
    <3>3. CASE answer # Failure /\ column' = Append(column, answer) /\ UNCHANGED phase
      <4>1. Answered(column', sealer, original)
        BY <1>0, <2>1, <2>2, <2>3, <3>1, <3>3, NextRow DEF AtSealer
      <4> QED
        BY <2>2, <2>3, <3>1, <3>3, <4>1
           DEF IInv, BeforeQuery, AtSealer, OnTheWay, Away, AtOpener
    <3> QED
      BY <2>1, <3>2, <3>3
  <2>4. CASE phase = "decrypting"
    <3>1. opener \in Openers /\ Answered(column, opener, source) /\ Query = opener
      BY <2>4 DEF IInv, AtOpener, Query
    <3>2. Len(source) = Len(original) /\ Len(column) \in Nat
      BY <2>4, <3>1 DEF IInv, OnTheWay, Away, Answered
    <3>3. CASE answer = Failure /\ Raise
      <4>1. Failure \in Answer(opener, source[Len(column) + 1])
            /\ Len(column) + 1 \in 1 .. Len(original)
        BY <1>0, <2>1, <2>2, <3>1, <3>2, <3>3
      <4>2. AtOpener'
        BY <2>2, <3>1, <3>3, <4>1 DEF Raise, AtOpener
      <4>3. OnTheWay'
        BY <2>2, <2>4, <3>3 DEF Raise, IInv, OnTheWay, Away
      <4> QED
        BY <2>2, <2>4, <3>3, <4>2, <4>3 DEF Raise, IInv, BeforeQuery, AtSealer
    <3>4. CASE answer # Failure /\ column' = Append(column, answer) /\ UNCHANGED phase
      <4>1. Answered(column', opener, source)
        BY <1>0, <2>1, <2>2, <3>1, <3>2, <3>4, NextRow
      <4>2. AtOpener'
        BY <2>2, <2>4, <3>1, <3>4, <4>1 DEF AtOpener
      <4>3. OnTheWay'
        BY <2>2, <2>4, <3>4 DEF IInv, OnTheWay, Away
      <4> QED
        BY <2>2, <2>4, <3>4, <4>2, <4>3 DEF IInv, BeforeQuery, AtSealer
    <3> QED
      BY <2>1, <3>3, <3>4
  <2> QED
    BY <2>2, <2>3, <2>4 DEF Running
<1>3. CASE End
  BY <1>3 DEF End, Running, IInv, BeforeQuery, AtSealer, OnTheWay, Away, AtOpener
<1>4. CASE Carry
  <2>1. PICK coding \in Codings, null \in {Null, NullWord} :
          source' = [i \in 1 .. Len(original) |->
                       Delivered(column[i], original[i], coding, null)]
    BY <1>4 DEF Carry
  <2>2. /\ sealer \in Sealers /\ Answered(column, sealer, original)
        /\ Len(column) = Len(original)
    BY <1>4 DEF Carry, IInv, AtSealer
  <2>3. ASSUME NEW i \in 1 .. Len(original)
        PROVE  CarriedRow(sealer, coding, original[i], source'[i])
    <3>1. original[i] \in Texts \cup Absent
      BY DEF IInv
    <3>2. column[i] \in Answer(sealer, original[i]) /\ column[i] # Failure
      BY <2>2 DEF Answered
    <3>3. Sealed(sealer, original[i], column[i])
      BY <2>2, <3>1, <3>2, QueriesKnown, Sealing
    <3> QED
      BY <2>1, <2>2, <3>1, <3>3, Carrying
  <2>4. DOMAIN source' = 1 .. Len(original) /\ Len(source') = Len(original)
    BY <1>0, <2>1
  <2>5. OnTheWay'
    BY <1>4, <2>2, <2>3, <2>4 DEF Carry, OnTheWay
  <2> QED
    BY <1>4, <2>5 DEF Carry, IInv, BeforeQuery, AtSealer, AtOpener
<1>5. CASE Decrypt
  <2>1. Len(source) = Len(original) /\ column = <<>>
    BY <1>5 DEF Decrypt, IInv, OnTheWay, Away
  <2>2. Answered(<<>>, opener', source)
    BY <1>0, <2>1, NoRows
  <2>3. AtOpener'
    BY <1>5, <2>1, <2>2 DEF Decrypt, Openers, AtOpener
  <2>4. OnTheWay'
    BY <1>5 DEF Decrypt, IInv, OnTheWay, Away
  <2> QED
    BY <1>5, <2>3, <2>4 DEF Decrypt, IInv, BeforeQuery, AtSealer
<1>6. CASE UNCHANGED vars
  BY <1>6 DEF vars, IInv, BeforeQuery, AtSealer, OnTheWay, Away, AtOpener
<1> QED
  BY <1>1, <1>2, <1>3, <1>4, <1>5, <1>6 DEF Next

-----------------------------------------------------------------------------
(* The theorem *)

LEMMA SealedRows == IInv => RowsSealed
<1> SUFFICES ASSUME IInv, phase = "carried",
                    NEW i \in DOMAIN original, original[i] \notin Absent,
                    source[i] = original[i]
             PROVE  PassedThrough(sealer)
  BY DEF RowsSealed
<1>1. i \in 1 .. Len(original) /\ original[i] \in Texts
  BY DEF IInv
<1>2. sealer \in Sealers
  BY DEF IInv, OnTheWay, Away
<1>3. PICK coding \in Codings : CarriedRow(sealer, coding, original[i], source[i])
  BY <1>1 DEF IInv, OnTheWay, Away
<1>4. Cell(sealer, coding, original[i]) \notin Texts
  BY <1>1, <1>2, QueriesKnown, CellApart
<1> QED
  BY <1>1, <1>3, <1>4, ValueAssumption DEF CarriedRow

\* Counterparts make the same ciphertext of a text.
LEMMA SameCell ==
  ASSUME sealer \in Sealers, opener \in Openers,
         sealer.fn.alg = opener.fn.alg, sealer.key.val = opener.key.val,
         Nonce(sealer) = Nonce(opener), NEW coding, NEW text
  PROVE  Cell(sealer, coding, text) = Cell(opener, coding, text)
<1>1. ASSUME NEW q, IsQuery(q)
      PROVE  Nonce(q) = Iv(q)
  BY <1>1 DEF Nonce, Iv, IsQuery, Known
<1>2. Iv(sealer) = Iv(opener)
  BY <1>1, QueriesKnown
<1>3. IvIdle(sealer, text) = IvIdle(opener, text)
  BY <1>2 DEF IvIdle
<1> QED
  BY <1>2, <1>3 DEF Cell

LEMMA ReturningRows == IInv => RowsReturn
<1> SUFFICES ASSUME IInv, phase \in {"opened", "failed"}, opener # Null,
                    Counterparts, ~Unreadable
             PROVE  /\ phase = "opened"
                    /\ \A i \in DOMAIN original :
                         IF original[i] \in Absent THEN column[i] \in Absent
                                                  ELSE column[i] = original[i]
  BY DEF RowsReturn
<1>1. DOMAIN original = 1 .. Len(original) /\ original \in Seq(Texts \cup Absent)
  BY DEF IInv
<1>2. /\ sealer \in Sealers /\ opener \in Openers
      /\ DOMAIN source = 1 .. Len(original) /\ Len(source) = Len(original)
  BY DEF IInv, OnTheWay, Away, AtOpener
<1>3. PICK coding \in Codings :
        \A i \in 1 .. Len(original) : CarriedRow(sealer, coding, original[i], source[i])
  BY DEF IInv, OnTheWay, Away
<1>4. ASSUME NEW i \in 1 .. Len(original)
      PROVE  IF original[i] \in Absent THEN Answer(opener, source[i]) \subseteq Absent
                                      ELSE Answer(opener, source[i]) = {original[i]}
  <2>1. CASE original[i] \in Absent
    <3>1. source[i] \in Absent /\ (opener.fn.alg = "sm2 der" => source[i] # Empty)
      BY <1>2, <1>3, <2>1 DEF CarriedRow, Unreadable, Counterparts
    <3>2. ~(source[i] = Null /\ opener.fn = SM4Decrypt)
      BY <1>2 DEF Unreadable
    <3> QED
      BY <1>2, <2>1, <3>1, <3>2, QueriesKnown, Opening DEF Counterparts
  <2>2. CASE original[i] \notin Absent
    <3>1. original[i] \in Texts
      BY <1>1, <2>2
    <3>2. source[i] = Cell(sealer, coding, original[i])
      <4>1. ~PassedThrough(sealer)
        BY <1>2, QueriesKnown, ReadableArguments DEF Counterparts, PassedThrough
      <4> QED
        BY <1>3, <3>1, <4>1 DEF CarriedRow, Counterparts
    <3>3. coding = opener.fn.coding
      BY <1>1, <2>2, <3>2 DEF Counterparts, Cell
    <3>4. source[i] = Cell(opener, opener.fn.coding, original[i])
      BY <1>2, <3>2, <3>3, SameCell DEF Counterparts
    <3> QED
      BY <1>2, <2>2, <3>1, <3>4, QueriesKnown, Opening DEF Counterparts
  <2> QED
    BY <2>1, <2>2
<1>5. phase = "opened"
  <2> SUFFICES ASSUME phase = "failed"
               PROVE  FALSE
    OBVIOUS
  <2>1. PICK i \in 1 .. Len(original) : Failure \in Answer(opener, source[i])
    BY DEF IInv, AtOpener
  <2>2. original[i] \in Texts \cup Absent
    BY <1>1
  <2> QED
    BY <1>4, <2>1, <2>2, ValueAssumption
<1>6. ASSUME NEW i \in 1 .. Len(original)
      PROVE  IF original[i] \in Absent THEN column[i] \in Absent
                                      ELSE column[i] = original[i]
  <2>1. column[i] \in Answer(opener, source[i])
    BY <1>2, <1>5 DEF IInv, AtOpener, Answered
  <2> QED
    BY <1>4, <2>1
<1> QED
  BY <1>1, <1>5, <1>6

\* Two queries make the same ciphertext of a text only with the same cipher, key and
\* IV, or as SameBlock says.
LEMMA SameCiphertext ==
  ASSUME sealer \in Sealers, opener \in Openers,
         NEW coding, NEW other, NEW text, ~SameBlock(text),
         Cell(sealer, coding, text) = Cell(opener, other, text)
  PROVE  /\ sealer.fn.alg = opener.fn.alg /\ coding = other
         /\ sealer.key.val = opener.key.val /\ Iv(sealer) = Iv(opener)
<1> DEFINE idle(q) == IvIdle(q, text)
           alg(q) == IF idle(q) THEN "ecb" ELSE q.fn.alg
           iv(q) == IF idle(q) THEN Null ELSE Iv(q)
<1>1. /\ coding = other /\ sealer.key.val = opener.key.val
      /\ alg(sealer) = alg(opener) /\ iv(sealer) = iv(opener)
  BY DEF Cell
<1>2. CASE idle(sealer) <=> idle(opener)
  BY <1>1, <1>2 DEF IvIdle
<1>3. CASE ~(idle(sealer) <=> idle(opener))
  <2>1. SameBlock(text)
    BY <1>1, <1>3 DEF IvIdle, SameBlock
  <2> QED
    BY <2>1
<1> QED
  BY <1>2, <1>3

LEMMA OtherWays == IInv => NoOtherWay
<1> SUFFICES ASSUME IInv, phase = "opened", ~PassedThrough(sealer),
                    NEW i \in DOMAIN original, original[i] \notin Absent,
                    column[i] = original[i], ~SameBlock(original[i])
             PROVE  Counterparts
  BY DEF NoOtherWay
<1>1. DOMAIN original = 1 .. Len(original) /\ original \in Seq(Texts \cup Absent)
  BY DEF IInv
<1>2. /\ sealer \in Sealers /\ opener \in Openers
      /\ Len(source) = Len(original)
  BY DEF IInv, OnTheWay, Away, AtOpener
<1>3. PICK coding \in Codings :
        \A k \in 1 .. Len(original) : CarriedRow(sealer, coding, original[k], source[k])
  BY DEF IInv, OnTheWay, Away
<1>4. original[i] \in Texts /\ original[i] \in Answer(opener, source[i])
  BY <1>1, <1>2 DEF IInv, AtOpener, Answered
<1>5. /\ Cell(sealer, coding, original[i]) \notin Texts \cup {Null, NullWord}
      /\ Cell(opener, opener.fn.coding, original[i]) \notin Texts \cup {Null, NullWord}
  <2>1. IsQuery(sealer) /\ IsQuery(opener) /\ opener.fn.coding \in Codings
    BY <1>2, QueriesKnown DEF IsQuery, Known
  <2> QED
    BY <1>4, <2>1, CellApart
<1>6. /\ Readable(opener) /\ source[i] = Cell(opener, opener.fn.coding, original[i])
      /\ Readable(sealer) /\ source[i] = Cell(sealer, coding, original[i])
  <2>1. \/ Readable(sealer) /\ source[i] = Cell(sealer, coding, original[i])
        \/ source[i] \in {Null, NullWord}
    BY <1>1, <1>3, <1>4 DEF CarriedRow
  <2>2. \/ source[i] = original[i]
        \/ Readable(opener) /\ source[i] = Cell(opener, opener.fn.coding, original[i])
    BY <1>2, <1>4, QueriesKnown, NoOtherText
  <2> QED
    BY <1>4, <1>5, <2>1, <2>2, ValueAssumption
<1>7. /\ sealer.fn.alg = opener.fn.alg /\ coding = opener.fn.coding
      /\ sealer.key.val = opener.key.val /\ Iv(sealer) = Iv(opener)
  BY <1>2, <1>6, SameCiphertext
<1>8. Nonce(sealer) = Nonce(opener)
  <2>1. Nonce(sealer) = Iv(sealer) /\ Nonce(opener) = Iv(opener)
    BY <1>2, QueriesKnown DEF Nonce, Iv, IsQuery, Known
  <2> QED
    BY <1>7, <2>1
<1>9. ASSUME NEW k \in DOMAIN original, original[k] \notin Absent
      PROVE  source[k].coding = opener.fn.coding
  <2>1. original[k] \in Texts
    BY <1>1, <1>9
  <2>2. source[k] = Cell(sealer, coding, original[k])
    BY <1>1, <1>3, <1>6, <2>1 DEF CarriedRow
  <2> QED
    BY <1>7, <2>2 DEF Cell
<1> QED
  BY <1>6, <1>7, <1>8, <1>9 DEF Counterparts

\* What a decrypting call can answer, but for one that passes its cell through.
LEMMA NoCiphertext ==
  ASSUME NEW q, IsQuery(q), q.does = "decrypt", ~PassedThrough(q),
         NEW cell, NEW answer \in Answer(q, cell), answer # Failure
  PROVE  \/ answer \in Texts /\ Readable(q) /\ cell = Cell(q, q.fn.coding, answer)
         \/ answer = Garbage /\ q.fn.alg \in {"ecb", "cbc"}
         \/ answer \in Absent /\ (cell \in Absent \/ KeyMissing(q) \/ IvNull(q))
<1> DEFINE Allowed == \/ answer \in Texts
                      \/ answer = Garbage /\ q.fn.alg \in {"ecb", "cbc"}
                      \/ answer \in Absent /\ (cell \in Absent \/ KeyMissing(q) \/ IvNull(q))
<1>1. answer \in Crypt(q, cell) =>
        answer \in Texts \/ (answer = Garbage /\ q.fn.alg \in {"ecb", "cbc"})
  <2> DEFINE sealed == \E text \in Texts : cell = Cell(q, q.fn.coding, text)
  <2>1. sealed => cell.text \in Texts
    BY DEF Cell
  <2>2. sealed => Opened(q, cell) = {cell.text}
    BY DEF Opened
  <2>3. ~sealed => Opened(q, cell) \subseteq {Failure, Garbage}
    BY DEF Opened
  <2>4. ~sealed /\ Garbage \in Opened(q, cell) => q.fn.alg \in {"ecb", "cbc"}
    BY ValueAssumption DEF Opened
  <2>5. Crypt(q, cell) = Opened(q, cell)
    BY DEF Crypt
  <2> QED
    BY <2>1, <2>2, <2>3, <2>4, <2>5
<1>2. q.key.val = Null => KeyMissing(q)
  BY ArgumentAssumption DEF IsQuery, KeyMissing
<1>3. ValueAssumption
  BY ValueAssumption
<1>4. Allowed
  <2>1. answer \in AnswerSql(q, cell) => Allowed
    BY <1>1, <1>2 DEF AnswerSql
  <2>2. answer \in AnswerSm4Java(q, cell) => Allowed
    BY <1>1 DEF AnswerSm4Java
  <2>3. answer \in AnswerOrNull(q, cell) => Allowed
    BY <1>1 DEF AnswerOrNull
  <2>4. q.fn \in {SM4Encrypt, SM4Decrypt} /\ answer \in AnswerAlgorithm(q, cell) => Allowed
    BY <1>1 DEF AnswerAlgorithm, PassedThrough
  <2> QED
    BY <2>1, <2>2, <2>3, <2>4 DEF Answer
<1> QED
  BY <1>4, NoOtherText

LEMMA RaisedFailures == IInv => FailureRaised
<1> SUFFICES ASSUME IInv, phase = "opened", ~PassedThrough(opener), NEW i \in DOMAIN original
             PROVE  \/ column[i] \in Texts /\ column[i] = original[i]
                    \/ column[i] = Garbage /\ opener.fn.alg \in {"ecb", "cbc"}
                    \/ /\ column[i] \in Absent
                       /\ source[i] \in Absent \/ KeyMissing(opener) \/ IvNull(opener)
  BY DEF FailureRaised
<1>1. i \in 1 .. Len(original) /\ original[i] \in Texts \cup Absent
  BY DEF IInv
<1>2. /\ sealer \in Sealers /\ opener \in Openers /\ Len(source) = Len(original)
      /\ column[i] \in Answer(opener, source[i]) /\ column[i] # Failure
  BY <1>1 DEF IInv, OnTheWay, Away, AtOpener, Answered
<1>3. PICK coding \in Codings : CarriedRow(sealer, coding, original[i], source[i])
  BY <1>1 DEF IInv, OnTheWay, Away
<1>4. IsQuery(sealer) /\ IsQuery(opener) /\ opener.does = "decrypt"
  BY <1>2, QueriesKnown
<1>5. CASE column[i] \in Texts /\ source[i] = Cell(opener, opener.fn.coding, column[i])
  <2>1. opener.fn.coding \in Codings
    BY <1>4 DEF IsQuery, Known
  <2>2. source[i] \notin Texts \cup {Null, Empty, NullWord}
    BY <1>4, <1>5, <2>1, CellApart
  <2>3. source[i] = Cell(sealer, coding, original[i])
    BY <1>1, <1>3, <2>2 DEF CarriedRow
  <2>4. source[i].text = original[i] /\ source[i].text = column[i]
    BY <1>5, <2>3 DEF Cell
  <2> QED
    BY <1>5, <2>4
<1> QED
  BY <1>2, <1>4, <1>5, NoCiphertext

\* What the functions of the five parts encrypt comes back through the counterpart
\* of the one that encrypted it, row by row, and through no other function, key or
\* IV but for the block that ECB and CBC with the zero IV share; none of the texts
\* is left readable on the way (README.md, vastbase2mrs.md).
THEOREM ColumnsKept == Spec => []ColumnKept
<1>1. IInv => ColumnKept
  BY SealedRows, ReturningRows, OtherWays DEF ColumnKept
<1> QED
  BY InitEstablishes, NextPreserves, <1>1, PTL DEF Spec

\* No decrypting query of the five parts ends with a failed row in its column: each
\* row is the text that was encrypted, what a block mode made of a wrong key, or NULL
\* or '' where the row, the key or the IV was missing.
THEOREM ColumnsFailureRaised == Spec => []FailureRaised
BY InitEstablishes, NextPreserves, RaisedFailures, PTL DEF Spec

=============================================================================

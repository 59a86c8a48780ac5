----------------------------- MODULE MCSM4Modes -----------------------------
(***************************************************************************)
(* Bytes of two bits, blocks of two bytes, a size_t that holds 0 to 5:       *)
(* messages of zero to four bytes, the longest of which trips the overflow   *)
(* check.                                                                    *)
(***************************************************************************)
EXTENDS SM4Modes

MCByte == 0 .. 3
MCXor(a, b) == (((a \div 2) + (b \div 2)) % 2) * 2 + ((a + b) % 2)

Number(b) == (4 * b[1]) + b[2]
Bytes(n) == <<n \div 4, n % 4>>

\* x |-> 5x + 3 + 7k modulo 16 is a bijection and no linear map of bits.
MCEnc(k, b) == Bytes(((5 * Number(b)) + 3 + (7 * k)) % 16)
MCDec(k, b) == Bytes((13 * ((Number(b) + 29) - (7 * k))) % 16)

Text(full, tail) == [full |-> full, tail |-> tail]
Cut(blocks, ragged) == [blocks |-> blocks, ragged |-> ragged]

MCMessages ==
  {Text(<<>>, <<>>), Text(<<>>, <<1>>), Text(<<<<2, 2>>>>, <<>>),
   Text(<<<<2, 2>>>>, <<3>>), Text(<<<<0, 1>>, <<2, 1>>>>, <<>>)}

MCStrays ==
  {Cut(<<>>, FALSE), Cut(<<>>, TRUE), Cut(<<<<1, 2>>>>, TRUE)} \cup
  {Cut(<<Bytes(n)>>, FALSE) : n \in 0 .. 15} \cup
  {Cut(<<Bytes(n), Bytes(n + 1)>>, FALSE) : n \in {0, 7}}

MCIVs == {<<0, 3>>, <<1, 2>>}

=============================================================================

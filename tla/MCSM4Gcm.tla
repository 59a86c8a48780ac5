----------------------------- MODULE MCSM4Gcm -----------------------------
(***************************************************************************)
(* Bytes of three bits, blocks of two bytes, a counter of one: GF(2^6) with  *)
(* x^6 + x + 1, IVs of one byte (the recommended length) and of two (hashed, *)
(* with counters that wrap among them), up to three blocks of text.          *)
(***************************************************************************)
EXTENDS SM4Gcm

MCXor(a, b) ==
  (((a \div 4) + (b \div 4)) % 2) * 4 + (((a \div 2) + (b \div 2)) % 2) * 2 + ((a + b) % 2)

Number(b) == (8 * b[1]) + b[2]

\* x |-> 13x + 22 + 9k modulo 64 is a bijection and no linear map of bits.
MCEnc(k, b) ==
  LET n == ((13 * Number(b)) + 22 + (9 * k)) % 64 IN <<n \div 8, n % 8>>

MCIVs == {<<1>>, <<6>>, <<7, 3>>}
MCAADs == {<<>>, <<1>>, <<1, 0>>}
MCMessages == {<<>>, <<3, 6>>, <<5, 0, 7>>, <<2, 2, 2, 2, 2>>}
MCStrays == {[ct |-> <<>>, tag |-> <<0, 0>>], [ct |-> <<4>>, tag |-> <<7, 1>>]}

=============================================================================

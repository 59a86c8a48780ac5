------------------------------ MODULE MCSM2Ext ------------------------------
(***************************************************************************)
(* Two key pairs and the zero key, in every notation, and one argument of    *)
(* each way to be wrong.  Sizes are scaled so that plaintexts of zero to     *)
(* three bytes fall below, at and beyond the room for a plaintext and        *)
(* ciphertexts and signatures on both sides of every length check and of     *)
(* the limit for a short header.                                             *)
(***************************************************************************)
EXTENDS SM2Ext

CONSTANTS d1, d2, x, alice

Infty == <<"infinity">>
MCPub(d) == IF d = Zero THEN Infty ELSE <<"point", d>>

PrivateText(len, val) == [len |-> len, val |-> val]
PublicText(len, head, val) == [len |-> len, head |-> head, val |-> val]

MCPrivateArgs ==
  {PrivateText(32, d1), PrivateText(64, d1), PrivateText(64, d2), PrivateText(64, NotHex),
   PrivateText(5, x), Null}
MCPublicArgs ==
  {PublicText(64, "xx", MCPub(d1)), PublicText(128, "xx", MCPub(d1)),
   PublicText(130, "04", MCPub(d2)), PublicText(130, "02", MCPub(d1)),
   PublicText(128, "xx", NotHex), Null}
MCPlainArgs == {Null, <<>>, <<x>>, <<x, x>>, <<x, x, x>>}
MCIdArgs == {Null, alice}
MCForeign == {<<x, Nul>>}
MCStrayArgs == {<<>>, <<x, x, x>>, <<x, x, x, x, x>>, SealedBytes(MCPub(d1), <<x, Nul>>)}
MCGenerated == {d1, d2}

=============================================================================

----------------------------- MODULE MCSM4Ext -----------------------------
(***************************************************************************)
(* Two keys in both notations, IVs of both lengths and notations, the AADs   *)
(* NULL, '' and 'x', and one argument of each way to be wrong.  An IV is one *)
(* byte and a tag two where byte counts matter, so that ciphertexts of zero  *)
(* to five bytes fall on both sides of every length check.                   *)
(***************************************************************************)
EXTENDS SM4Ext

CONSTANTS k1, k2, a, b, x

Text(len, val) == [len |-> len, val |-> val]

IvA == <<a>>   \* twelve bytes; <<b, b>> is sixteen

MCKeyArgs == {Text(16, k1), Text(32, k1), Text(16, k2), Text(32, NotHex), Text(5, x), Null}
MCIvArgs == {Text(12, IvA), Text(24, IvA), Text(16, <<b, b>>), Text(32, <<b, b>>),
             Text(24, NotHex), Text(32, NotHex), Text(5, x), Null}
MCAadArgs == {Null, <<>>, <<x>>}
MCPlainArgs == {Null, <<>>, <<x>>}
MCForeign == {<<x, Nul, x>>}
MCGarbage == {<<x, x>>}
MCRandomIVs == {IvA, <<b>>}

Standard == [key |-> k1, iv |-> IvA, aad |-> <<>>]
MCStrayArgs == {<<>>, <<x>>, <<x, x>>,
                SealedBytes("gcm", Standard, <<x, Nul, x>>),
                IvA \o SealedBytes("gcm", Standard, <<x, Nul, x>>)}

=============================================================================

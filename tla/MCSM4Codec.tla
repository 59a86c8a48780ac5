----------------------------- MODULE MCSM4Codec -----------------------------
(***************************************************************************)
(* Bytes of four bits, Base64 digits of three and hexadecimal digits of two. *)
(* Up to two groups of Base64 with '=' and illegal characters in every place,*)
(* data of every length modulo three.                                        *)
(***************************************************************************)
EXTENDS SM4Codec

UpTo(n, S) == UNION {[1 .. k -> S] : k \in 0 .. n}

MCData == UpTo(4, {0, 6, 9})
MCHexTexts == UpTo(4, {0, 1, 2, Bad})
MCBase64Texts == UpTo(8, {5, Pad, Bad}) \cup UpTo(4, {0, 2, 5, 7, Pad})

=============================================================================

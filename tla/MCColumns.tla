----------------------------- MODULE MCColumns -----------------------------
(***************************************************************************)
(* Columns of two rows in which a text of one block, a longer one, '' and    *)
(* NULL meet; two keys, of which one in every notation, and an IV that is    *)
(* the key as the documents advise, one that is not, the zero IV, and none.  *)
(***************************************************************************)
EXTENDS Columns

CONSTANTS t1, t2, k1, k2, v, zero

Arg(notation, val) == [notation |-> notation, val |-> val]

Missing == {Arg("missing", Empty), Arg("missing", Null)}

MCTexts == {t1, t2}
MCShort == {t1}
MCPlain == {<<t1, Null>>, <<Empty, t2>>, <<t1, t2>>}
MCSecretKeys ==
  {Arg(n, k1) : n \in {"text", "hex", "base64", "public hex", "private hex",
                       "public base64", "private base64"}}
  \cup {Arg(n, k2) : n \in {"hex", "private hex"}} \cup Missing
MCIvArgs == {Arg("hex", k1), Arg("text", v), Arg("hex", zero), Arg("missing", Null)}

=============================================================================

---------------------------- MODULE MCSM2Context ----------------------------
(***************************************************************************)
(* Two key pairs and the key 0; a buffer too small, one just large enough.   *)
(***************************************************************************)
EXTENDS SM2Context

CONSTANTS d1, d2, p1, p2

MCPrivateKeys == {Zero, d1, d2}
MCPub(d) == IF d = d1 THEN p1 ELSE IF d = d2 THEN p2 ELSE Infinity

=============================================================================

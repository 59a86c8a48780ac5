----------------------------- MODULE MCSM4Block -----------------------------
(***************************************************************************)
(* Words of two bits, five rounds, two keys.  T and TPrime are not linear   *)
(* and T is not even injective, which the construction must not need.       *)
(***************************************************************************)
EXTENDS SM4Block

MCWord == 0 .. 3
MCXor(a, b) == (((a \div 2) + (b \div 2)) % 2) * 2 + ((a + b) % 2)
MCT(a) == <<2, 1, 3, 1>>[a + 1]
MCTPrime(a) == <<1, 3, 0, 2>>[a + 1]
MCFK == [j \in 0 .. 3 |-> ((3 * j) + 2) % 4]
MCCK == [j \in 0 .. NumRounds - 1 |-> ((j * j) + 1) % 4]

Quads(tuples) == {[j \in 0 .. 3 |-> t[j + 1]] : t \in tuples}
MCKeys == Quads({<<0, 1, 0, 3>>, <<0, 1, 1, 3>>})  \* key schedules that read differently backwards
MCBlocks == Quads({<<0, 0, 0, 0>>, <<0, 0, 0, 1>>, <<3, 1, 2, 0>>, <<1, 1, 1, 1>>})

=============================================================================

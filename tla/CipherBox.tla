----------------------------- MODULE CipherBox -----------------------------
(***************************************************************************)
(* What a caller of an encryption mode relies on, whatever the mode: under   *)
(* fixed parameters (function pair, key, IV, associated data) encryption is  *)
(* injective, decryption is its inverse where it succeeds, and it fails      *)
(* exactly on what no encryption produces.  So a text that was once          *)
(* rejected is never produced by a later encryption, and a text that was     *)
(* produced is never rejected.                                               *)
(*                                                                           *)
(* The box is sampled lazily: `table' holds what was answered so far,        *)
(* `rejected' what was refused.                                              *)
(***************************************************************************)

CONSTANTS
  Param,    (* what both sides must agree on *)
  Plain,    (* messages *)
  Sealed    (* what is stored or sent *)

VARIABLES
  table,     (* answers so far: [param, pt, ct] *)
  rejected   (* refusals so far: [param, ct] *)

Entry   == [param : Param, pt : Plain, ct : Sealed]
Refusal == [param : Param, ct : Sealed]

Bijective ==
  \A p, q \in table : p.param = q.param => (p.pt = q.pt <=> p.ct = q.ct)

NeverBoth ==
  \A p \in table, q \in rejected : p.param = q.param => p.ct # q.ct

Init == table = {} /\ rejected = {}

\* An encryption or a successful decryption returns.
Answer ==
  /\ \E e \in table' : e \in Entry /\ table' = table \cup {e}
  /\ UNCHANGED rejected

\* A decryption returns failure.
Refuse ==
  /\ \E e \in rejected' : e \in Refusal /\ rejected' = rejected \cup {e}
  /\ UNCHANGED table

Next == (Answer \/ Refuse) /\ Bijective' /\ NeverBoth'

Spec == Init /\ [][Next]_<<table, rejected>>

=============================================================================

----------------------------- MODULE SM2Context -----------------------------
(***************************************************************************)
(* sm2_c/sm2_openssl.c: the context functions and the four functions that    *)
(* set up a context of their own (encrypt, decrypt, sign, verify), one       *)
(* OpenSSL call a step, each of which may fail.                              *)
(*                                                                           *)
(* The heap holds the OpenSSL objects; EVP_PKEY_assign_EC_KEY hands an       *)
(* EC_KEY to an EVP_PKEY, which frees it with itself.  One client calls the  *)
(* functions of sm2_openssl.h on one context in any order.  A private key is *)
(* a number, a point what Pub makes of it.  References that OpenSSL counts   *)
(* itself (those of an EVP_PKEY_CTX) are left out.                           *)
(***************************************************************************)
EXTENDS Integers, Sequences, FiniteSets

CONSTANTS
  PrivateKeys,     (* what callers set or OpenSSL generates, Zero among them *)
  Zero,            (* 32 zero bytes *)
  Pub(_),          (* scalar multiplication of the base point *)
  Infinity,        (* the point at infinity *)
  Off,             (* bytes that are no point of the curve, or of a wrong length *)
  None,            (* no key, no point *)
  NULL,
  Capacities,      (* sizes of the caller's buffer *)
  Needed           (* bytes a ciphertext, a plaintext or the longest signature takes *)

ASSUME KeyAssumption ==
  /\ Zero \in PrivateKeys /\ Pub(Zero) = Infinity
  /\ \A d \in PrivateKeys : Pub(d) = Infinity => d = Zero
  /\ None \notin PrivateKeys /\ None \notin {Pub(d) : d \in PrivateKeys} \cup {Infinity, Off}

ASSUME SizeAssumption == Capacities \subseteq Nat /\ Needed \in Nat \ {0} /\ NULL \notin Nat

VARIABLES
  ctx,         (* the client's sm2_context; ec_key is always NULL *)
  own,         (* the sm2_context in the frame of encrypt, decrypt, sign, verify *)
  heap,        (* the live OpenSSL objects, by address *)
  local,       (* the pointers in the frame of the function *)
  todo,        (* the OpenSSL calls it has left, <<>> between calls *)
  call,        (* its name, its key argument and the size of the caller's buffer *)
  ret,         (* what it returns *)
  len,         (* *output_len, *sig_len *)
  doubleFree,  (* history: an object was freed twice *)
  before,      (* history: the client's context when the call began *)
  got          (* history: what the getters returned since the key last changed *)

vars == <<ctx, own, heap, local, todo, call, ret, len, doubleFree, before, got>>

-----------------------------------------------------------------------------
(* The functions: the OpenSSL calls each makes, in order *)

SetPrivate ==
  <<"new_key", "priv_bn", "set_private", "point_new", "mul", "set_public",
    "pkey_new", "assign", "commit", "cleanup">>
SetPublic ==
  <<"new_key", "x_new", "y_new", "from_bytes", "free_xy", "set_public",
    "pkey_new", "assign", "commit", "cleanup">>
Generate == <<"pctx_new", "keygen_init", "keygen", "commit", "cleanup">>
Derive   == <<"point_new", "mul", "set_public", "derived", "cleanup">>

Crypt  == <<"pctx_new", "op_init", "op", "cleanup", "free_own">>
Sign   == <<"mdctx_new", "op_init", "query", "room", "op", "cleanup", "free_own">>
Verify == <<"mdctx_new", "op_init", "op", "cleanup", "free_own">>

Steps == [sm2_generate_keypair  |-> Generate,
          sm2_set_private_key   |-> SetPrivate,
          sm2_set_public_key    |-> SetPublic,
          sm2_derive_public_key |-> Derive,
          sm2_encrypt           |-> SetPublic \o Crypt,
          sm2_decrypt           |-> SetPrivate \o Crypt,
          sm2_sign              |-> SetPrivate \o Sign,
          sm2_verify            |-> SetPublic \o Verify]

SelfContained == {"sm2_encrypt", "sm2_decrypt", "sm2_sign", "sm2_verify"}
TakesPrivate  == {"sm2_set_private_key", "sm2_decrypt", "sm2_sign"}
TakesPublic   == {"sm2_set_public_key", "sm2_encrypt", "sm2_verify"}

Pointers == {"ec_key", "priv_bn", "pub_point", "pkey", "pctx", "x", "y"}

Coordinates == {"x", "y"}    (* of point_from_bytes; the others are of its callers *)

Fresh == [pkey |-> NULL, has_private_key |-> 0, has_public_key |-> 0]   (* sm2_init *)

EmptiedKeepsFlags(c) == [c EXCEPT !.pkey = NULL]     (* mutant: sm2_free clears the pointer only *)

Emptied(c) == Fresh                                  (* what sm2_free leaves of c *)

NoLocals == [v \in Pointers |-> NULL]

-----------------------------------------------------------------------------
(* Objects *)

EcKey(priv, pub) == [kind |-> "EC_KEY", priv |-> priv, pub |-> pub]
Pkey(ec)         == [kind |-> "EVP_PKEY", ec |-> ec]
Other(value)     == [kind |-> "other", value |-> value]    (* BIGNUM, EC_POINT, contexts *)

Address == CHOOSE n \in 1 .. Cardinality(DOMAIN heap) + 1 : n \notin DOMAIN heap

Allocated(n, object) ==
  [m \in DOMAIN heap \cup {n} |-> IF m = n THEN object ELSE heap[m]]

\* What goes with the objects at these addresses: the EC_KEY of an EVP_PKEY.
Reach(addresses) ==
  addresses \cup
  ({heap[n].ec : n \in {m \in addresses \cap DOMAIN heap : heap[m].kind = "EVP_PKEY"}} \ {NULL})

Free(addresses) ==
  /\ heap' = [n \in DOMAIN heap \ Reach(addresses) |-> heap[n]]
  /\ doubleFree' = (\/ doubleFree
                    \/ ~(addresses \subseteq DOMAIN heap)
                    \/ \E n \in addresses \cap DOMAIN heap :
                         heap[n].kind = "EVP_PKEY" /\ heap[n].ec \in addresses)

-----------------------------------------------------------------------------
(* The frame *)

At(step) == todo # <<>> /\ Head(todo) = step

Done == todo' = Tail(todo)

Standalone == call.fn \in SelfContained

\* goto cleanup, with ret = -1
Fail == todo' = IF Standalone THEN <<"cleanup", "free_own">> ELSE <<"cleanup">>

Target == IF Standalone THEN own ELSE ctx

Kept == <<call, ret, len, before, got>>

\* The key a context holds, EVP_PKEY_get0_EC_KEY.
KeyOf(c) == IF c.pkey = NULL THEN EcKey(None, None) ELSE heap[heap[c.pkey].ec]

View(c) == [key |-> KeyOf(c), has_private_key |-> c.has_private_key,
            has_public_key |-> c.has_public_key]

\* A call that gives a new object in pointer v, or NULL.
Create(step, v, object) ==
  /\ At(step)
  /\ \/ /\ heap' = Allocated(Address, object)
        /\ local' = [local EXCEPT ![v] = Address]
        /\ Done
     \/ Fail /\ UNCHANGED <<heap, local>>
  /\ UNCHANGED <<ctx, own, doubleFree>> /\ UNCHANGED Kept

\* A call that changes nothing here, or fails.
Check(step) ==
  /\ At(step)
  /\ Done \/ Fail
  /\ UNCHANGED <<ctx, own, heap, local, doubleFree>> /\ UNCHANGED Kept

-----------------------------------------------------------------------------
(* Building a key *)

NewKeyReuse ==      (* mutant: starts from a copy of the key in the context *)
  Create("new_key", "ec_key", KeyOf(Target))

NewKey == Create("new_key", "ec_key", EcKey(None, None))

PrivBn == Create("priv_bn", "priv_bn", Other(call.key))

SetPrivateKey ==
  /\ At("set_private")
  /\ \/ heap' = [heap EXCEPT ![local.ec_key].priv = heap[local.priv_bn].value] /\ Done
     \/ UNCHANGED heap /\ Fail
  /\ UNCHANGED <<ctx, own, local, doubleFree>> /\ UNCHANGED Kept

PointNew == Create("point_new", "pub_point", Other(Infinity))

WorkKeyInPlace ==      (* mutant: the setters rework the key the context has *)
  IF call.fn = "sm2_derive_public_key" \/ (~Standalone /\ ctx.pkey # NULL)
  THEN heap[ctx.pkey].ec ELSE local.ec_key

\* The EC_KEY a function works on: its own, or that of the context.
WorkKey == IF call.fn = "sm2_derive_public_key" THEN heap[ctx.pkey].ec ELSE local.ec_key

\* EC_POINT_mul gives the point at infinity for a scalar that is NULL.
Mul ==
  /\ At("mul")
  /\ \/ /\ heap' = [heap EXCEPT ![local.pub_point].value =
                      IF heap[WorkKey].priv = None THEN Infinity ELSE Pub(heap[WorkKey].priv)]
        /\ Done
     \/ UNCHANGED heap /\ Fail
  /\ UNCHANGED <<ctx, own, local, doubleFree>> /\ UNCHANGED Kept

\* BN_bin2bn: point_from_bytes goes on without the number.
Coordinate(step, v) ==
  /\ At(step)
  /\ \/ /\ heap' = Allocated(Address, Other(None))
        /\ local' = [local EXCEPT ![v] = Address]
     \/ UNCHANGED <<heap, local>>
  /\ Done
  /\ UNCHANGED <<ctx, own, doubleFree>> /\ UNCHANGED Kept

XNew == Coordinate("x_new", "x")
YNew == Coordinate("y_new", "y")

\* The point, or no point; the one that the curve refuses goes at once.
PointMade(accepted) ==
  /\ At("from_bytes")
  /\ \/ /\ local.x # NULL /\ local.y # NULL /\ accepted
        /\ heap' = Allocated(Address, Other(call.key))
        /\ local' = [local EXCEPT !["pub_point"] = Address]
     \/ UNCHANGED <<heap, local>>
  /\ Done
  /\ UNCHANGED <<ctx, own, doubleFree>> /\ UNCHANGED Kept

FromBytesUnchecked == PointMade(TRUE)   (* mutant: EC_POINT_set_affine_coordinates is not looked at *)

FromBytes == PointMade(call.key # Off)

\* point_from_bytes frees both numbers at its end.  Bytes of a wrong length make
\* it return before there are any, as if BN_bin2bn had given neither.
FreeXY ==
  /\ At("free_xy")
  /\ Free({local.x, local.y} \ {NULL})
  /\ local' = [local EXCEPT !["x"] = NULL, !["y"] = NULL]
  /\ IF local.pub_point = NULL THEN Fail ELSE Done
  /\ UNCHANGED <<ctx, own>> /\ UNCHANGED Kept

\* EC_KEY_set_public_key has let go of the old point when it fails.
SetPublicKey ==
  /\ At("set_public")
  /\ \/ heap' = [heap EXCEPT ![WorkKey].pub = heap[local.pub_point].value] /\ Done
     \/ heap' = [heap EXCEPT ![WorkKey].pub = None] /\ Fail
  /\ UNCHANGED <<ctx, own, local, doubleFree>> /\ UNCHANGED Kept

PkeyNew == Create("pkey_new", "pkey", Pkey(NULL))

Assign ==
  /\ At("assign")
  /\ \/ /\ heap' = [heap EXCEPT ![local.pkey].ec = local.ec_key]
        /\ Done
        /\ UNCHANGED <<local, doubleFree>>
     \/ /\ Free({local.pkey})
        /\ local' = [local EXCEPT !["pkey"] = NULL]
        /\ Fail
  /\ UNCHANGED <<ctx, own>> /\ UNCHANGED Kept

\* EVP_PKEY_keygen
Keygen ==
  /\ At("keygen")
  /\ \/ \E d \in PrivateKeys \ {Zero} :
          LET ec == Address
              withKey == Allocated(ec, EcKey(d, Pub(d)))
              p == CHOOSE n \in 1 .. Cardinality(DOMAIN heap) + 2 : n \notin DOMAIN withKey
          IN  /\ heap' = [n \in DOMAIN withKey \cup {p} |->
                            IF n = p THEN Pkey(ec) ELSE withKey[n]]
              /\ local' = [local EXCEPT !["pkey"] = p]
              /\ Done
     \/ Fail /\ UNCHANGED <<heap, local>>
  /\ UNCHANGED <<ctx, own, doubleFree>> /\ UNCHANGED Kept

HandOverKeepsPointer == [local EXCEPT !["pkey"] = NULL]   (* mutant: ec_key = NULL is missing *)

HandOver == [local EXCEPT !["ec_key"] = NULL, !["pkey"] = NULL]

\* The old EVP_PKEY goes, the new one is saved; sm2_set_public_key leaves
\* has_private_key as it is.
Commit ==
  /\ At("commit")
  /\ LET c == [pkey |-> local.pkey,
               has_private_key |-> IF call.fn \in TakesPublic
                                   THEN Target.has_private_key ELSE 1,
               has_public_key |-> 1]
     IN  IF Standalone THEN own' = c /\ UNCHANGED <<ctx, ret>>
         ELSE ctx' = c /\ ret' = 0 /\ UNCHANGED own
  /\ Free({Target.pkey} \ {NULL})
  /\ local' = HandOver
  /\ got' = IF Standalone THEN got ELSE [priv |-> None, pub |-> None]
  /\ Done
  /\ UNCHANGED <<call, len, before>>

\* sm2_derive_public_key: the point has been stored
Derived ==
  /\ At("derived")
  /\ ctx' = [ctx EXCEPT !.has_public_key = 1]
  /\ ret' = 0
  /\ got' = [got EXCEPT !.pub = None]
  /\ Done
  /\ UNCHANGED <<own, heap, local, call, len, doubleFree, before>>

\* The end of a function and, after a setter, the middle of one with a context
\* of its own.
Cleanup ==
  /\ At("cleanup")
  /\ Free({local[v] : v \in Pointers \ Coordinates} \ {NULL})
  /\ local' = NoLocals
  /\ Done
  /\ UNCHANGED <<ctx, own>> /\ UNCHANGED Kept

-----------------------------------------------------------------------------
(* Encrypting, decrypting, signing and verifying *)

PctxNew  == Create("pctx_new", "pctx", Other(None))
MdctxNew == Create("mdctx_new", "pctx", Other(None))

\* EVP_PKEY_keygen_init and the choice of the curve; EVP_..._init
KeygenInit == Check("keygen_init")
OpInit     == Check("op_init")

Finish(n) == len' = n /\ ret' = 0 /\ Done

\* EVP_PKEY_encrypt and EVP_PKEY_decrypt work on a copy of *output_len, which is
\* written back on success; whether they refuse a buffer that is too small is
\* left open.  A signature takes what EVP_DigestSign announced, or less.
Op ==
  /\ At("op")
  /\ \/ call.fn \in {"sm2_encrypt", "sm2_decrypt"} /\ Finish(Needed)
     \/ call.fn = "sm2_sign" /\ \E n \in 1 .. len : Finish(n)
     \/ call.fn = "sm2_verify" /\ Finish(len)
     \/ Fail /\ UNCHANGED <<len, ret>>
  /\ UNCHANGED <<ctx, own, heap, local, call, doubleFree, before, got>>

\* *sig_len = 0 and then what EVP_DigestSign says it needs
Query ==
  /\ At("query")
  /\ \/ len' = Needed /\ Done
     \/ len' = 0 /\ Fail
  /\ UNCHANGED <<ctx, own, heap, local, call, ret, doubleFree, before, got>>

CheckRoom ==
  /\ At("room")
  /\ IF len <= call.capacity THEN Done ELSE Fail
  /\ UNCHANGED <<ctx, own, heap, local, doubleFree>> /\ UNCHANGED Kept

\* sm2_free(&ctx) of the context in the frame
FreeOwn ==
  /\ At("free_own")
  /\ Free({own.pkey} \ {NULL})
  /\ own' = Emptied(own)
  /\ Done
  /\ UNCHANGED <<ctx, local>> /\ UNCHANGED Kept

-----------------------------------------------------------------------------
(* The client *)

Idle == todo = <<>>

Invoke(fn, key, capacity) ==
  /\ Idle
  /\ call' = [fn |-> fn, key |-> key, capacity |-> capacity]
  /\ len' = capacity
  /\ before' = View(ctx)
  /\ ret' = -1
  /\ todo' = Steps[fn]
  /\ own' = Fresh
  /\ UNCHANGED <<ctx, heap, local, doubleFree, got>>

\* A function that returns before it changes anything.
Answer(fn, results) ==
  /\ Idle
  /\ call' = [fn |-> fn, key |-> None, capacity |-> 0]
  /\ before' = View(ctx)
  /\ len' = 0
  /\ ret' \in results
  /\ UNCHANGED <<ctx, own, heap, local, todo, doubleFree>>

\* The flag and the pointer are all sm2_derive_public_key looks at.
HasPrivate == ctx.has_private_key = 1 /\ ctx.pkey # NULL
HasPublic  == ctx.has_public_key = 1 /\ ctx.pkey # NULL

\* EVP_PKEY_get0_EC_KEY may give NULL, here and in the getters.
CallDerive ==
  \/ HasPrivate /\ Invoke("sm2_derive_public_key", None, 0)
  \/ Answer("sm2_derive_public_key", {-1}) /\ UNCHANGED got

GetPrivateKey ==
  /\ Answer("sm2_get_private_key",
            IF HasPrivate /\ KeyOf(ctx).priv # None THEN {0, -1} ELSE {-1})
  /\ got' = IF ret' = 0 THEN [got EXCEPT !.priv = KeyOf(ctx).priv] ELSE got

\* point_to_bytes may lack memory, and has no coordinates for infinity; its two
\* numbers are made and freed within the call, with nothing between that returns.
GetPublicKey ==
  /\ Answer("sm2_get_public_key",
            IF HasPublic /\ KeyOf(ctx).pub \notin {None, Infinity} THEN {0, -1} ELSE {-1})
  /\ got' = IF ret' = 0 THEN [got EXCEPT !.pub = KeyOf(ctx).pub] ELSE got

\* sm2_free leaves a context as sm2_init does.
FreeContext ==
  /\ Idle
  /\ Free({ctx.pkey} \ {NULL})
  /\ ctx' = Emptied(ctx)
  /\ call' = [fn |-> "sm2_free", key |-> None, capacity |-> 0]
  /\ got' = [priv |-> None, pub |-> None]
  /\ before' = View(ctx)
  /\ ret' = 0 /\ len' = 0
  /\ UNCHANGED <<own, local, todo>>

Points == {Pub(d) : d \in PrivateKeys \ {Zero}} \cup {Off}

Client ==
  \/ Invoke("sm2_generate_keypair", None, 0)
  \/ \E d \in PrivateKeys : Invoke("sm2_set_private_key", d, 0)
  \/ \E q \in Points : Invoke("sm2_set_public_key", q, 0)
  \/ CallDerive
  \/ \E fn \in TakesPrivate \cap SelfContained, d \in PrivateKeys, n \in Capacities : Invoke(fn, d, n)
  \/ \E fn \in TakesPublic \cap SelfContained, q \in Points, n \in Capacities : Invoke(fn, q, n)
  \/ GetPrivateKey
  \/ GetPublicKey
  \/ FreeContext

Init ==
  /\ ctx = Fresh /\ own = Fresh
  /\ heap = <<>>
  /\ local = NoLocals
  /\ todo = <<>>
  /\ call = [fn |-> "sm2_init", key |-> None, capacity |-> 0]
  /\ ret = 0 /\ len = 0
  /\ doubleFree = FALSE
  /\ before = View(Fresh)
  /\ got = [priv |-> None, pub |-> None]

Next ==
  \/ Idle /\ Client
  \/ NewKey \/ PrivBn \/ SetPrivateKey \/ PointNew \/ Mul
  \/ XNew \/ YNew \/ FromBytes \/ FreeXY
  \/ SetPublicKey \/ PkeyNew \/ Assign \/ Keygen \/ Commit \/ Derived \/ Cleanup
  \/ PctxNew \/ MdctxNew \/ KeygenInit \/ OpInit \/ Op \/ Query \/ CheckRoom \/ FreeOwn

Spec == Init /\ [][Next]_vars

-----------------------------------------------------------------------------
(* Properties *)

Objects ==
  [kind : {"EC_KEY"}, priv : PrivateKeys \cup {None}, pub : {Pub(d) : d \in PrivateKeys} \cup {None, Infinity}]
    \cup [kind : {"EVP_PKEY"}, ec : Nat \cup {NULL}]
    \cup [kind : {"other"}, value : PrivateKeys \cup Points \cup {None, Infinity}]

Contexts == [pkey : Nat \cup {NULL}, has_private_key : {0, 1}, has_public_key : {0, 1}]

\* Type correctness; no EC_KEY is ever built on bytes that are no point of the
\* curve, which point_from_bytes has to refuse for every caller.
TypeOK ==
  /\ ctx \in Contexts /\ own \in Contexts
  /\ \A n \in DOMAIN heap : heap[n] \in Objects
  /\ local \in [Pointers -> Nat \cup {NULL}]
  /\ ret \in {0, -1} /\ len \in Nat
  /\ doubleFree \in BOOLEAN

Held == {local[v] : v \in Pointers} \cup {ctx.pkey, own.pkey}

\* After every OpenSSL call, failed ones included, the live objects are exactly
\* those that a pointer in the frame or in a context leads to, and none was
\* freed twice: nothing leaks on any way out, nothing dangles after an EC_KEY
\* went to an EVP_PKEY or an EVP_PKEY to a context.
HeapOwned == ~doubleFree /\ DOMAIN heap = Reach(Held \ {NULL})

\* The flags tell what the context holds, as far as the getters rely on them:
\* a key is there exactly if has_public_key says so, and a private key in it is
\* always announced by has_private_key.
FlagsAgree ==
  \A c \in {ctx, own} :
    /\ c.has_public_key = 1 <=> c.pkey # NULL
    /\ c.has_private_key = 1 => c.pkey # NULL
    /\ KeyOf(c).priv # None => c.has_private_key = 1

\* A call does all of its work or none: a setter or a generation that fails at
\* any OpenSSL call, and every call with a context of its own, leaves key and
\* flags of the client's context as they were; a derivation that fails may cost
\* the public key only.  A failed encryption or decryption leaves *output_len,
\* and a signature that was made fits its buffer.
AllOrNothing ==
  Idle =>
    /\ ret = -1 \/ Standalone =>
         \/ View(ctx) = before
         \/ /\ call.fn = "sm2_derive_public_key"
            /\ View(ctx) = [before EXCEPT !.key.pub = None]
    /\ ret = -1 /\ call.fn \in {"sm2_encrypt", "sm2_decrypt"} => len = call.capacity
    /\ ret = 0 /\ call.fn = "sm2_sign" => len <= call.capacity

\* What sm2_get_private_key and sm2_get_public_key return for one key belongs
\* together, whatever calls, failed or not, came before or between them.
PairMatches == got.priv # None /\ got.pub # None => got.pub = Pub(got.priv)

\* sm2_openssl.h:47: sm2_derive_public_key derives the public key from the
\* private key, so when it returns 0 there is one, and the public key is its.
\* The code asks the flag, which outlives the private key (sm2_openssl.c:313).
DeriveFromPrivate ==
  Idle /\ call.fn = "sm2_derive_public_key" /\ ret = 0 =>
    KeyOf(ctx).priv # None /\ KeyOf(ctx).pub = Pub(KeyOf(ctx).priv)

=============================================================================

-------------------------- MODULE SM2ContextProofs --------------------------
(***************************************************************************)
(* Theorems about SM2Context: whatever keys there are, in any order of calls *)
(* and wherever OpenSSL fails, sm2_c/sm2_openssl.c owns every object it      *)
(* allocates exactly once, its flags say what its context holds, a call does *)
(* all of its work or none, and the two halves of a key belong together.     *)
(***************************************************************************)
EXTENDS SM2Context, FiniteSetTheorems, SequenceTheorems, TLAPS

-----------------------------------------------------------------------------
(* Control *)

\* The steps of point_from_bytes.
CoordSteps == {"x_new", "y_new", "from_bytes", "free_xy"}

StepNames ==
  {"new_key", "priv_bn", "set_private", "point_new", "mul",
   "x_new", "y_new", "from_bytes", "free_xy", "set_public",
   "pkey_new", "assign", "commit", "cleanup", "pctx_new", "keygen_init", "keygen",
   "derived", "mdctx_new", "op_init", "query", "room", "op", "free_own"}

\* Which functions come to a step.
Runs(fn, step) ==
  /\ step \in {"new_key", "pkey_new", "assign"} => fn \in TakesPrivate \cup TakesPublic
  /\ step \in {"priv_bn", "set_private"} => fn \in TakesPrivate
  /\ step \in {"point_new", "mul"} => fn \in TakesPrivate \cup {"sm2_derive_public_key"}
  /\ step \in CoordSteps => fn \in TakesPublic
  /\ step = "set_public" => fn # "sm2_generate_keypair"
  /\ step \in {"keygen_init", "keygen"} => fn = "sm2_generate_keypair"
  /\ step = "commit" => fn # "sm2_derive_public_key"
  /\ step = "derived" => fn = "sm2_derive_public_key"
  /\ step \in {"op_init", "op", "mdctx_new", "free_own"} => fn \in SelfContained
  /\ step = "pctx_new" => fn \in SelfContained \cup {"sm2_generate_keypair"}
  /\ step \in {"query", "room"} => fn = "sm2_sign"

\* What may come after a step that went well.
Follows(fn, g, h) ==
  \/ g = "new_key" /\ h = IF fn \in TakesPrivate THEN "priv_bn" ELSE "x_new"
  \/ g = "priv_bn" /\ h = "set_private"
  \/ g = "set_private" /\ h = "point_new"
  \/ g = "point_new" /\ h = "mul"
  \/ g = "x_new" /\ h = "y_new"
  \/ g = "y_new" /\ h = "from_bytes"
  \/ g = "from_bytes" /\ h = "free_xy"
  \/ g \in {"mul", "free_xy"} /\ h = "set_public"
  \/ g = "set_public" /\ h = IF fn = "sm2_derive_public_key" THEN "derived" ELSE "pkey_new"
  \/ g = "pkey_new" /\ h = "assign"
  \/ g \in {"assign", "keygen"} /\ h = "commit"
  \/ g = "keygen_init" /\ h = "keygen"
  \/ g \in {"commit", "derived", "op"} /\ h = "cleanup"
  \/ g = "pctx_new" /\ h = IF fn = "sm2_generate_keypair" THEN "keygen_init" ELSE "op_init"
  \/ g = "mdctx_new" /\ h = "op_init"
  \/ g = "op_init" /\ h = IF fn = "sm2_sign" THEN "query" ELSE "op"
  \/ g = "query" /\ h = "room"
  \/ g = "room" /\ h = "op"
  \/ g = "cleanup" /\ fn \in SelfContained /\ h \in {"pctx_new", "mdctx_new", "free_own"}

\* The steps left are a path of the function, down to its last step.
Program(fn, steps) ==
  /\ steps \in Seq(StepNames)
  /\ \A k \in 1 .. Len(steps) : Runs(fn, steps[k])
  /\ \A k \in 1 .. Len(steps) - 1 : Follows(fn, steps[k], steps[k + 1])
  /\ steps # <<>> =>
       steps[Len(steps)] = IF fn \in SelfContained THEN "free_own" ELSE "cleanup"
  /\ \A k \in 1 .. Len(steps) : steps[k] = "op" => Len(steps) = k + 2

\* The pointers that are set when a function comes to a step.
Holding(fn, step) ==
  {v \in Pointers :
     \/ /\ v = "ec_key" /\ fn \in TakesPrivate \cup TakesPublic
        /\ step \in {"priv_bn", "set_private", "point_new", "mul", "set_public",
                     "pkey_new", "assign", "commit"} \cup CoordSteps
     \/ /\ v = "priv_bn" /\ fn \in TakesPrivate
        /\ step \in {"set_private", "point_new", "mul", "set_public", "pkey_new",
                     "assign", "commit"}
     \/ /\ v = "pub_point" /\ fn # "sm2_generate_keypair"
        /\ step \in {"mul", "set_public", "derived", "pkey_new", "assign", "commit"}
     \/ v = "pkey" /\ step \in {"assign", "commit"}
     \/ /\ v = "pctx"
        /\ \/ step \in {"keygen_init", "keygen", "op_init", "query", "room", "op"}
           \/ step = "commit" /\ fn = "sm2_generate_keypair"}

\* The pointers that may be set besides: point_from_bytes asks for x and y and
\* looks at both answers afterwards.
Maybe(step) ==
  CASE step = "y_new"      -> {"x"}
    [] step = "from_bytes" -> {"x", "y"}
    [] step = "free_xy"    -> {"x", "y", "pub_point"}
    [] OTHER               -> {}

ControlInv ==
  /\ Program(call.fn, todo)
  /\ ~Idle => /\ call.fn \in DOMAIN Steps
              /\ call.fn \in TakesPrivate => call.key \in PrivateKeys
              /\ call.fn \in TakesPublic => call.key \in Points
              /\ call.fn = "sm2_derive_public_key" => ctx.pkey # NULL
  /\ Idle => local = NoLocals
  /\ Idle \/ ~Standalone => own = Fresh
  /\ ~Idle =>
       IF At("cleanup") THEN local.pkey = NULL /\ local.x = NULL /\ local.y = NULL
       ELSE \A v \in Pointers :
              /\ v \in Holding(call.fn, Head(todo)) => local[v] # NULL
              /\ local[v] # NULL => v \in Holding(call.fn, Head(todo)) \cup Maybe(Head(todo))

-----------------------------------------------------------------------------
(* The heap *)

Kind(v) == IF v = "ec_key" THEN "EC_KEY" ELSE IF v = "pkey" THEN "EVP_PKEY" ELSE "other"

IsObject(n, kind) == n \in DOMAIN heap /\ heap[n].kind = kind

Values == PrivateKeys \cup Points \cup {None, Infinity}
PublicKeys == {Pub(d) : d \in PrivateKeys} \cup {Infinity}

HeapInv ==
  /\ IsFiniteSet(DOMAIN heap) /\ DOMAIN heap \subseteq Nat
  /\ heap = [n \in DOMAIN heap |-> heap[n]]
  /\ \A n \in DOMAIN heap : heap[n] \in Objects

\* Every pointer leads to an object of its kind, and no two to the same.
PointerInv ==
  /\ ctx \in Contexts /\ own \in Contexts
  /\ local \in [Pointers -> Nat \cup {NULL}]
  /\ \A v \in Pointers : local[v] # NULL => IsObject(local[v], Kind(v))
  /\ \A u, v \in Pointers : u # v /\ local[u] # NULL => local[u] # local[v]
  /\ \A c \in {ctx, own} : c.pkey # NULL =>
       IsObject(c.pkey, "EVP_PKEY") /\ heap[c.pkey].ec # NULL /\ c.pkey # local.pkey
  /\ ctx.pkey # NULL => ctx.pkey # own.pkey

\* Every EVP_PKEY has an EC_KEY of its own, but for a new one; only between
\* EVP_PKEY_assign_EC_KEY and the hand-over is there a second pointer to it.
KeyInv ==
  \A n \in DOMAIN heap : heap[n].kind = "EVP_PKEY" =>
    /\ heap[n].ec = NULL => n = local.pkey
    /\ heap[n].ec # NULL =>
         /\ IsObject(heap[n].ec, "EC_KEY")
         /\ heap[n].ec = local.ec_key => n = local.pkey /\ At("commit")
         /\ \A m \in DOMAIN heap :
              heap[m].kind = "EVP_PKEY" /\ heap[m].ec = heap[n].ec => m = n
    /\ n = local.pkey =>
         IF At("commit")
         THEN heap[n].ec # NULL /\ (local.ec_key # NULL => heap[n].ec = local.ec_key)
         ELSE heap[n].ec = NULL

\* Nothing leaks.
Owned(n) ==
  \/ n \in Held
  \/ \E m \in Held \ {NULL} : heap[m].kind = "EVP_PKEY" /\ heap[m].ec = n
OwnedInv == doubleFree = FALSE /\ \A n \in DOMAIN heap : Owned(n)

-----------------------------------------------------------------------------
(* The keys *)

\* A public key next to a private one is the one that belongs to it.
SoundKey(k) == k.priv # None => k.pub \in {None, Pub(k.priv)}

KeyValueInv ==
  /\ \A n \in DOMAIN heap : heap[n].kind = "EC_KEY" => SoundKey(heap[n])
  /\ local.priv_bn # NULL => heap[local.priv_bn].value \in PrivateKeys
  /\ local.pub_point # NULL => heap[local.pub_point].value \in PublicKeys
  /\ At("priv_bn") \/ At("set_private") =>
       heap[local.ec_key].priv = None /\ heap[local.ec_key].pub = None
  /\ At("set_public") /\ heap[WorkKey].priv # None =>
       heap[local.pub_point].value = Pub(heap[WorkKey].priv)
  /\ local.ec_key # NULL /\ call.fn \in TakesPublic => heap[local.ec_key].priv = None

\* The client's context changes by a commit and by a derivation only.
ViewInv ==
  /\ ret \in {0, -1} /\ len \in Nat
  /\ Standalone => View(ctx) = before
  /\ ret = -1 /\ call.fn # "sm2_derive_public_key" => View(ctx) = before
  /\ ret = -1 /\ call.fn = "sm2_derive_public_key" /\ ~At("derived") =>
       View(ctx) = before \/ View(ctx) = [before EXCEPT !.key.pub = None]
  /\ call.fn = "sm2_derive_public_key" /\ (At("point_new") \/ At("mul") \/ At("set_public")) =>
       View(ctx) = before

LenInv ==
  /\ Standalone => call.capacity \in Nat
  /\ ~Idle /\ ret # -1 => (At("cleanup") \/ At("free_own")) /\ Len(todo) <= 2
  /\ ret = -1 /\ call.fn \in {"sm2_encrypt", "sm2_decrypt"} => len = call.capacity
  /\ ret = 0 /\ call.fn = "sm2_sign" => len <= call.capacity
  /\ At("op") /\ call.fn = "sm2_sign" => len <= call.capacity

GotInv ==
  /\ got = [priv |-> got.priv, pub |-> got.pub]
  /\ got.priv # None => got.priv = KeyOf(ctx).priv
  /\ got.pub # None /\ KeyOf(ctx).priv # None => got.pub = Pub(KeyOf(ctx).priv)

-----------------------------------------------------------------------------
(* Programs *)

\* A piece of a program.
Path(fn, steps) ==
  /\ steps \in Seq(StepNames)
  /\ \A k \in 1 .. Len(steps) : Runs(fn, steps[k])
  /\ \A k \in 1 .. Len(steps) - 1 : Follows(fn, steps[k], steps[k + 1])
  /\ \A k \in 1 .. Len(steps) : steps[k] = "op" => Len(steps) = k + 2

LEMMA PrivatePath ==
  ASSUME NEW fn \in TakesPrivate
  PROVE  /\ Path(fn, SetPrivate) /\ Len(SetPrivate) = 10
         /\ SetPrivate[1] = "new_key" /\ SetPrivate[10] = "cleanup"
<1>1. SetPrivate \in Seq(StepNames) /\ Len(SetPrivate) = 10
  BY DEF SetPrivate, StepNames
<1>2. ASSUME NEW k \in 1 .. 10 PROVE Runs(fn, SetPrivate[k])
  <2>1. k \in {1, 2, 3, 4, 5, 6, 7, 8, 9, 10}
    OBVIOUS
  <2> QED
    BY <2>1 DEF SetPrivate, Runs, TakesPrivate, CoordSteps
<1>3. ASSUME NEW k \in 1 .. 9 PROVE Follows(fn, SetPrivate[k], SetPrivate[k + 1])
  <2>1. k \in {1, 2, 3, 4, 5, 6, 7, 8, 9}
    OBVIOUS
  <2> QED
    BY <2>1 DEF SetPrivate, Follows, TakesPrivate
<1>4. SetPrivate[1] = "new_key" /\ SetPrivate[10] = "cleanup"
  BY DEF SetPrivate
<1>5. ASSUME NEW k \in 1 .. 10, SetPrivate[k] = "op" PROVE 10 = k + 2
  <2>1. k \in {1, 2, 3, 4, 5, 6, 7, 8, 9, 10}
    OBVIOUS
  <2> QED
    BY <1>5, <2>1 DEF SetPrivate
<1>6. Path(fn, SetPrivate)
  <2>1. \A k \in 1 .. Len(SetPrivate) : Runs(fn, SetPrivate[k])
    BY <1>1, <1>2
  <2>2. \A k \in 1 .. Len(SetPrivate) - 1 : Follows(fn, SetPrivate[k], SetPrivate[k + 1])
    BY <1>1, <1>3
  <2>3. \A k \in 1 .. Len(SetPrivate) : SetPrivate[k] = "op" => Len(SetPrivate) = k + 2
    BY <1>1, <1>5
  <2> QED
    BY <1>1, <2>1, <2>2, <2>3 DEF Path
<1> QED
  BY <1>1, <1>4, <1>6

LEMMA PublicPath ==
  ASSUME NEW fn \in TakesPublic
  PROVE  /\ Path(fn, SetPublic) /\ Len(SetPublic) = 10
         /\ SetPublic[1] = "new_key" /\ SetPublic[10] = "cleanup"
<1>1. SetPublic \in Seq(StepNames) /\ Len(SetPublic) = 10
  BY DEF SetPublic, StepNames
<1>2. ASSUME NEW k \in 1 .. 10 PROVE Runs(fn, SetPublic[k])
  <2>1. k \in {1, 2, 3, 4, 5, 6, 7, 8, 9, 10}
    OBVIOUS
  <2> QED
    BY <2>1 DEF SetPublic, Runs, TakesPublic, CoordSteps
<1>3. ASSUME NEW k \in 1 .. 9 PROVE Follows(fn, SetPublic[k], SetPublic[k + 1])
  <2>1. k \in {1, 2, 3, 4, 5, 6, 7, 8, 9}
    OBVIOUS
  <2> QED
    BY <2>1 DEF SetPublic, Follows, TakesPublic, TakesPrivate
<1>4. SetPublic[1] = "new_key" /\ SetPublic[10] = "cleanup"
  BY DEF SetPublic
<1>5. ASSUME NEW k \in 1 .. 10, SetPublic[k] = "op" PROVE 10 = k + 2
  <2>1. k \in {1, 2, 3, 4, 5, 6, 7, 8, 9, 10}
    OBVIOUS
  <2> QED
    BY <1>5, <2>1 DEF SetPublic
<1>6. Path(fn, SetPublic)
  <2>1. \A k \in 1 .. Len(SetPublic) : Runs(fn, SetPublic[k])
    BY <1>1, <1>2
  <2>2. \A k \in 1 .. Len(SetPublic) - 1 : Follows(fn, SetPublic[k], SetPublic[k + 1])
    BY <1>1, <1>3
  <2>3. \A k \in 1 .. Len(SetPublic) : SetPublic[k] = "op" => Len(SetPublic) = k + 2
    BY <1>1, <1>5
  <2> QED
    BY <1>1, <2>1, <2>2, <2>3 DEF Path
<1> QED
  BY <1>1, <1>4, <1>6

LEMMA GeneratePath ==
  LET fn == "sm2_generate_keypair"
  IN  Path(fn, Generate) /\ Len(Generate) = 5
      /\ Generate[1] = "pctx_new" /\ Generate[5] = "cleanup"
<1> DEFINE fn == "sm2_generate_keypair"
<1>1. Generate \in Seq(StepNames) /\ Len(Generate) = 5
  BY DEF Generate, StepNames
<1>2. ASSUME NEW k \in 1 .. 5 PROVE Runs(fn, Generate[k])
  <2>1. k \in {1, 2, 3, 4, 5}
    OBVIOUS
  <2> QED
    BY <2>1 DEF Generate, Runs, CoordSteps
<1>3. ASSUME NEW k \in 1 .. 4 PROVE Follows(fn, Generate[k], Generate[k + 1])
  <2>1. k \in {1, 2, 3, 4}
    OBVIOUS
  <2> QED
    BY <2>1 DEF Generate, Follows
<1>4. Generate[1] = "pctx_new" /\ Generate[5] = "cleanup"
  BY DEF Generate
<1>5. ASSUME NEW k \in 1 .. 5, Generate[k] = "op" PROVE 5 = k + 2
  <2>1. k \in {1, 2, 3, 4, 5}
    OBVIOUS
  <2> QED
    BY <1>5, <2>1 DEF Generate
<1>6. Path(fn, Generate)
  <2>1. \A k \in 1 .. Len(Generate) : Runs(fn, Generate[k])
    BY <1>1, <1>2
  <2>2. \A k \in 1 .. Len(Generate) - 1 : Follows(fn, Generate[k], Generate[k + 1])
    BY <1>1, <1>3
  <2>3. \A k \in 1 .. Len(Generate) : Generate[k] = "op" => Len(Generate) = k + 2
    BY <1>1, <1>5
  <2> QED
    BY <1>1, <2>1, <2>2, <2>3 DEF Path
<1> QED
  BY <1>1, <1>4, <1>6

LEMMA DerivePath ==
  LET fn == "sm2_derive_public_key"
  IN  Path(fn, Derive) /\ Len(Derive) = 5
      /\ Derive[1] = "point_new" /\ Derive[5] = "cleanup"
<1> DEFINE fn == "sm2_derive_public_key"
<1>1. Derive \in Seq(StepNames) /\ Len(Derive) = 5
  BY DEF Derive, StepNames
<1>2. ASSUME NEW k \in 1 .. 5 PROVE Runs(fn, Derive[k])
  <2>1. k \in {1, 2, 3, 4, 5}
    OBVIOUS
  <2> QED
    BY <2>1 DEF Derive, Runs, CoordSteps
<1>3. ASSUME NEW k \in 1 .. 4 PROVE Follows(fn, Derive[k], Derive[k + 1])
  <2>1. k \in {1, 2, 3, 4}
    OBVIOUS
  <2> QED
    BY <2>1 DEF Derive, Follows
<1>4. Derive[1] = "point_new" /\ Derive[5] = "cleanup"
  BY DEF Derive
<1>5. ASSUME NEW k \in 1 .. 5, Derive[k] = "op" PROVE 5 = k + 2
  <2>1. k \in {1, 2, 3, 4, 5}
    OBVIOUS
  <2> QED
    BY <1>5, <2>1 DEF Derive
<1>6. Path(fn, Derive)
  <2>1. \A k \in 1 .. Len(Derive) : Runs(fn, Derive[k])
    BY <1>1, <1>2
  <2>2. \A k \in 1 .. Len(Derive) - 1 : Follows(fn, Derive[k], Derive[k + 1])
    BY <1>1, <1>3
  <2>3. \A k \in 1 .. Len(Derive) : Derive[k] = "op" => Len(Derive) = k + 2
    BY <1>1, <1>5
  <2> QED
    BY <1>1, <2>1, <2>2, <2>3 DEF Path
<1> QED
  BY <1>1, <1>4, <1>6

LEMMA CryptPath ==
  ASSUME NEW fn \in {"sm2_encrypt", "sm2_decrypt"}
  PROVE  /\ Path(fn, Crypt) /\ Len(Crypt) = 5
         /\ Crypt[1] = "pctx_new" /\ Crypt[5] = "free_own"
<1>1. Crypt \in Seq(StepNames) /\ Len(Crypt) = 5
  BY DEF Crypt, StepNames
<1>2. ASSUME NEW k \in 1 .. 5 PROVE Runs(fn, Crypt[k])
  <2>1. k \in {1, 2, 3, 4, 5}
    OBVIOUS
  <2> QED
    BY <2>1 DEF Crypt, Runs, SelfContained, CoordSteps
<1>3. ASSUME NEW k \in 1 .. 4 PROVE Follows(fn, Crypt[k], Crypt[k + 1])
  <2>1. k \in {1, 2, 3, 4}
    OBVIOUS
  <2> QED
    BY <2>1 DEF Crypt, Follows, SelfContained
<1>4. Crypt[1] = "pctx_new" /\ Crypt[5] = "free_own"
  BY DEF Crypt
<1>5. ASSUME NEW k \in 1 .. 5, Crypt[k] = "op" PROVE 5 = k + 2
  <2>1. k \in {1, 2, 3, 4, 5}
    OBVIOUS
  <2> QED
    BY <1>5, <2>1 DEF Crypt
<1>6. Path(fn, Crypt)
  <2>1. \A k \in 1 .. Len(Crypt) : Runs(fn, Crypt[k])
    BY <1>1, <1>2
  <2>2. \A k \in 1 .. Len(Crypt) - 1 : Follows(fn, Crypt[k], Crypt[k + 1])
    BY <1>1, <1>3
  <2>3. \A k \in 1 .. Len(Crypt) : Crypt[k] = "op" => Len(Crypt) = k + 2
    BY <1>1, <1>5
  <2> QED
    BY <1>1, <2>1, <2>2, <2>3 DEF Path
<1> QED
  BY <1>1, <1>4, <1>6

LEMMA SignPath ==
  LET fn == "sm2_sign"
  IN  Path(fn, Sign) /\ Len(Sign) = 7 /\ Sign[1] = "mdctx_new" /\ Sign[7] = "free_own"
<1> DEFINE fn == "sm2_sign"
<1>1. Sign \in Seq(StepNames) /\ Len(Sign) = 7
  BY DEF Sign, StepNames
<1>2. ASSUME NEW k \in 1 .. 7 PROVE Runs(fn, Sign[k])
  <2>1. k \in {1, 2, 3, 4, 5, 6, 7}
    OBVIOUS
  <2> QED
    BY <2>1 DEF Sign, Runs, SelfContained, CoordSteps
<1>3. ASSUME NEW k \in 1 .. 6 PROVE Follows(fn, Sign[k], Sign[k + 1])
  <2>1. k \in {1, 2, 3, 4, 5, 6}
    OBVIOUS
  <2> QED
    BY <2>1 DEF Sign, Follows, SelfContained
<1>4. Sign[1] = "mdctx_new" /\ Sign[7] = "free_own"
  BY DEF Sign
<1>5. ASSUME NEW k \in 1 .. 7, Sign[k] = "op" PROVE 7 = k + 2
  <2>1. k \in {1, 2, 3, 4, 5, 6, 7}
    OBVIOUS
  <2> QED
    BY <1>5, <2>1 DEF Sign
<1>6. Path(fn, Sign)
  <2>1. \A k \in 1 .. Len(Sign) : Runs(fn, Sign[k])
    BY <1>1, <1>2
  <2>2. \A k \in 1 .. Len(Sign) - 1 : Follows(fn, Sign[k], Sign[k + 1])
    BY <1>1, <1>3
  <2>3. \A k \in 1 .. Len(Sign) : Sign[k] = "op" => Len(Sign) = k + 2
    BY <1>1, <1>5
  <2> QED
    BY <1>1, <2>1, <2>2, <2>3 DEF Path
<1> QED
  BY <1>1, <1>4, <1>6

LEMMA VerifyPath ==
  LET fn == "sm2_verify"
  IN  Path(fn, Verify) /\ Len(Verify) = 5
      /\ Verify[1] = "mdctx_new" /\ Verify[5] = "free_own"
<1> DEFINE fn == "sm2_verify"
<1>1. Verify \in Seq(StepNames) /\ Len(Verify) = 5
  BY DEF Verify, StepNames
<1>2. ASSUME NEW k \in 1 .. 5 PROVE Runs(fn, Verify[k])
  <2>1. k \in {1, 2, 3, 4, 5}
    OBVIOUS
  <2> QED
    BY <2>1 DEF Verify, Runs, SelfContained, CoordSteps
<1>3. ASSUME NEW k \in 1 .. 4 PROVE Follows(fn, Verify[k], Verify[k + 1])
  <2>1. k \in {1, 2, 3, 4}
    OBVIOUS
  <2> QED
    BY <2>1 DEF Verify, Follows, SelfContained
<1>4. Verify[1] = "mdctx_new" /\ Verify[5] = "free_own"
  BY DEF Verify
<1>5. ASSUME NEW k \in 1 .. 5, Verify[k] = "op" PROVE 5 = k + 2
  <2>1. k \in {1, 2, 3, 4, 5}
    OBVIOUS
  <2> QED
    BY <1>5, <2>1 DEF Verify
<1>6. Path(fn, Verify)
  <2>1. \A k \in 1 .. Len(Verify) : Runs(fn, Verify[k])
    BY <1>1, <1>2
  <2>2. \A k \in 1 .. Len(Verify) - 1 : Follows(fn, Verify[k], Verify[k + 1])
    BY <1>1, <1>3
  <2>3. \A k \in 1 .. Len(Verify) : Verify[k] = "op" => Len(Verify) = k + 2
    BY <1>1, <1>5
  <2> QED
    BY <1>1, <2>1, <2>2, <2>3 DEF Path
<1> QED
  BY <1>1, <1>4, <1>6

\* A path to the last step is a program.
LEMMA PathProgram ==
  ASSUME NEW fn, NEW s, Path(fn, s), NEW n \in Nat \ {0}, Len(s) = n,
         s[n] = IF fn \in SelfContained THEN "free_own" ELSE "cleanup"
  PROVE  Program(fn, s) /\ s # <<>> /\ Head(s) = s[1]
  BY DEF Program, Path

\* The functions with a context of their own are a setter and then what they do.
LEMMA Composed ==
  ASSUME NEW fn \in SelfContained,
         NEW s, Path(fn, s), NEW m \in Nat \ {0}, Len(s) = m, s[m] = "cleanup",
         NEW t, Path(fn, t), NEW n \in Nat \ {0}, Len(t) = n, t[n] = "free_own",
         t[1] \in {"pctx_new", "mdctx_new"}
  PROVE  Program(fn, s \o t) /\ s \o t # <<>> /\ Head(s \o t) = s[1]
<1> DEFINE u == s \o t
<1>0. Follows(fn, s[m], t[1])
  BY DEF Follows
<1>1. /\ s \in Seq(StepNames) /\ t \in Seq(StepNames) /\ m \in Nat \ {0} /\ n \in Nat \ {0}
      /\ \A k \in 1 .. m : Runs(fn, s[k])
      /\ \A k \in 1 .. n : Runs(fn, t[k])
      /\ \A k \in 1 .. m - 1 : Follows(fn, s[k], s[k + 1])
      /\ \A k \in 1 .. n - 1 : Follows(fn, t[k], t[k + 1])
  BY DEF Path
<1>2. /\ u \in Seq(StepNames) /\ Len(u) = m + n
      /\ \A k \in 1 .. m + n : u[k] = IF k <= m THEN s[k] ELSE t[k - m]
  BY <1>1, ConcatProperties
<1> HIDE DEF u
<1>3. /\ \A k \in 1 .. m : u[k] = s[k]
      /\ \A k \in m + 1 .. m + n : u[k] = t[k - m] /\ k - m \in 1 .. n
  <2>1. ASSUME NEW k \in 1 .. m PROVE u[k] = s[k]
    BY <1>1, <1>2
  <2>2. ASSUME NEW k \in m + 1 .. m + n PROVE u[k] = t[k - m] /\ k - m \in 1 .. n
    <3>1. k \in 1 .. m + n /\ ~(k <= m) /\ k - m \in 1 .. n
      BY <1>1
    <3> QED
      BY <1>2, <3>1
  <2> QED
    BY <2>1, <2>2
<1>4. ASSUME NEW k \in 1 .. m + n PROVE Runs(fn, u[k])
  <2>1. CASE k \in 1 .. m
    BY <1>1, <1>3, <2>1
  <2>2. CASE k \in m + 1 .. m + n
    BY <1>1, <1>3, <2>2
  <2> QED
    BY <1>1, <2>1, <2>2
<1>5. ASSUME NEW k \in 1 .. (m + n) - 1 PROVE Follows(fn, u[k], u[k + 1])
  <2>1. CASE k \in 1 .. m - 1
    <3>1. k \in 1 .. m /\ k + 1 \in 1 .. m
      BY <1>1, <2>1
    <3> QED
      BY <1>1, <1>3, <2>1, <3>1
  <2>2. CASE k = m
    <3>1. m \in 1 .. m /\ m + 1 \in m + 1 .. m + n /\ (m + 1) - m = 1
      BY <1>1
    <3>2. u[m] = s[m] /\ u[m + 1] = t[1]
      BY <1>3, <3>1
    <3> QED
      BY <1>0, <2>2, <3>2
  <2>3. CASE k \in m + 1 .. (m + n) - 1
    <3>1. k \in m + 1 .. m + n /\ k + 1 \in m + 1 .. m + n
          /\ k - m \in 1 .. n - 1 /\ (k + 1) - m = (k - m) + 1
      BY <1>1, <2>3
    <3>2. u[k] = t[k - m] /\ u[k + 1] = t[(k - m) + 1]
      BY <1>3, <3>1
    <3> QED
      BY <1>1, <3>1, <3>2
  <2> QED
    BY <1>1, <2>1, <2>2, <2>3
<1>6. u[m + n] = t[n] /\ u[1] = s[1]
  <2>1. m + n \in m + 1 .. m + n /\ (m + n) - m = n /\ 1 \in 1 .. m
    BY <1>1
  <2> QED
    BY <1>3, <2>1
<1>7. u # <<>> /\ Head(u) = u[1]
  BY <1>1, <1>2, EmptySeq, HeadTailProperties
<1>8. u[m + n] = IF fn \in SelfContained THEN "free_own" ELSE "cleanup"
  BY <1>6
<1>9. ASSUME NEW k \in 1 .. m + n, u[k] = "op" PROVE m + n = k + 2
  <2>1. CASE k \in 1 .. m
    <3>1. s[k] = "op" /\ m = k + 2
      BY <1>3, <1>9, <2>1 DEF Path
    <3>2. k \in 1 .. m - 1 /\ k + 1 \in 1 .. m - 1 /\ (k + 1) + 1 = m
      BY <1>1, <2>1, <3>1
    <3>3. Follows(fn, "op", s[k + 1]) /\ Follows(fn, s[k + 1], "cleanup")
      BY <1>1, <3>1, <3>2
    <3> QED
      BY <3>3 DEF Follows
  <2>2. CASE k \in m + 1 .. m + n
    <3>1. t[k - m] = "op" /\ k - m \in 1 .. n
      BY <1>3, <1>9, <2>2
    <3>2. n = (k - m) + 2
      BY <3>1 DEF Path
    <3> QED
      BY <1>1, <2>2, <3>2
  <2> QED
    BY <1>1, <2>1, <2>2
<1> QED
  BY <1>2, <1>4, <1>5, <1>6, <1>7, <1>8, <1>9 DEF Program, u

\* Every function starts on a program of its own.
LEMMA StepsProgram ==
  ASSUME NEW fn \in DOMAIN Steps
  PROVE  /\ Program(fn, Steps[fn]) /\ Steps[fn] # <<>>
         /\ Head(Steps[fn]) =
              IF fn \in TakesPrivate \cup TakesPublic THEN "new_key"
              ELSE IF fn = "sm2_derive_public_key" THEN "point_new" ELSE "pctx_new"
<1>1. CASE fn = "sm2_set_private_key"
  <2>1. fn \in TakesPrivate /\ fn \notin SelfContained /\ fn # "sm2_derive_public_key"
        /\ Steps[fn] = SetPrivate
    BY <1>1 DEF TakesPrivate, TakesPublic, SelfContained, Steps
  <2>2. /\ Path(fn, SetPrivate) /\ Len(SetPrivate) = 10
        /\ SetPrivate[1] = "new_key" /\ SetPrivate[10] = "cleanup"
    BY <1>1, <2>1, PrivatePath
  <2>3. Program(fn, SetPrivate) /\ SetPrivate # <<>> /\ Head(SetPrivate) = "new_key"
    <3>1. 10 \in Nat \ {0}
      OBVIOUS
    <3> QED
      BY <2>1, <2>2, <3>1, PathProgram, Zenon
  <2> QED
    BY <1>1, <2>1, <2>3
<1>2. CASE fn = "sm2_set_public_key"
  <2>1. fn \in TakesPublic /\ fn \notin SelfContained /\ fn # "sm2_derive_public_key"
        /\ Steps[fn] = SetPublic
    BY <1>2 DEF TakesPrivate, TakesPublic, SelfContained, Steps
  <2>2. /\ Path(fn, SetPublic) /\ Len(SetPublic) = 10
        /\ SetPublic[1] = "new_key" /\ SetPublic[10] = "cleanup"
    BY <1>2, <2>1, PublicPath
  <2>3. Program(fn, SetPublic) /\ SetPublic # <<>> /\ Head(SetPublic) = "new_key"
    <3>1. 10 \in Nat \ {0}
      OBVIOUS
    <3> QED
      BY <2>1, <2>2, <3>1, PathProgram, Zenon
  <2> QED
    BY <1>2, <2>1, <2>3
<1>3. CASE fn = "sm2_generate_keypair"
  <2>1. fn \notin TakesPrivate \cup TakesPublic /\ fn \notin SelfContained /\ fn # "sm2_derive_public_key"
        /\ Steps[fn] = Generate
    BY <1>3 DEF TakesPrivate, TakesPublic, SelfContained, Steps
  <2>2. /\ Path(fn, Generate) /\ Len(Generate) = 5
        /\ Generate[1] = "pctx_new" /\ Generate[5] = "cleanup"
    BY <1>3, <2>1, GeneratePath
  <2>3. Program(fn, Generate) /\ Generate # <<>> /\ Head(Generate) = "pctx_new"
    <3>1. 5 \in Nat \ {0}
      OBVIOUS
    <3> QED
      BY <2>1, <2>2, <3>1, PathProgram, Zenon
  <2> QED
    BY <1>3, <2>1, <2>3
<1>4. CASE fn = "sm2_derive_public_key"
  <2>1. fn \notin TakesPrivate \cup TakesPublic /\ fn \notin SelfContained
        /\ Steps[fn] = Derive
    BY <1>4 DEF TakesPrivate, TakesPublic, SelfContained, Steps
  <2>2. /\ Path(fn, Derive) /\ Len(Derive) = 5
        /\ Derive[1] = "point_new" /\ Derive[5] = "cleanup"
    BY <1>4, <2>1, DerivePath
  <2>3. Program(fn, Derive) /\ Derive # <<>> /\ Head(Derive) = "point_new"
    <3>1. 5 \in Nat \ {0}
      OBVIOUS
    <3> QED
      BY <2>1, <2>2, <3>1, PathProgram, Zenon
  <2> QED
    BY <1>4, <2>1, <2>3
<1>5. CASE fn = "sm2_encrypt"
  <2>1. fn \in TakesPublic /\ fn \in SelfContained /\ Steps[fn] = SetPublic \o Crypt
    BY <1>5 DEF TakesPublic, SelfContained, Steps
  <2>2. /\ Path(fn, SetPublic) /\ Len(SetPublic) = 10
        /\ SetPublic[1] = "new_key" /\ SetPublic[10] = "cleanup"
    BY <2>1, PublicPath
  <2>3. /\ Path(fn, Crypt) /\ Len(Crypt) = 5
        /\ Crypt[1] = "pctx_new" /\ Crypt[5] = "free_own"
    BY <1>5, CryptPath
  <2>4. /\ Program(fn, SetPublic \o Crypt) /\ SetPublic \o Crypt # <<>>
        /\ Head(SetPublic \o Crypt) = "new_key"
    <3>1. 5 \in Nat \ {0} /\ 10 \in Nat \ {0}
      OBVIOUS
    <3>2. "pctx_new" \in {"pctx_new", "mdctx_new"}
      OBVIOUS
    <3> QED
      BY <2>1, <2>2, <2>3, <3>1, <3>2, Composed, Zenon
  <2> QED
    BY <2>1, <2>4
<1>6. CASE fn = "sm2_decrypt"
  <2>1. fn \in TakesPrivate /\ fn \in SelfContained /\ Steps[fn] = SetPrivate \o Crypt
    BY <1>6 DEF TakesPrivate, SelfContained, Steps
  <2>2. /\ Path(fn, SetPrivate) /\ Len(SetPrivate) = 10
        /\ SetPrivate[1] = "new_key" /\ SetPrivate[10] = "cleanup"
    BY <2>1, PrivatePath
  <2>3. /\ Path(fn, Crypt) /\ Len(Crypt) = 5
        /\ Crypt[1] = "pctx_new" /\ Crypt[5] = "free_own"
    BY <1>6, CryptPath
  <2>4. /\ Program(fn, SetPrivate \o Crypt) /\ SetPrivate \o Crypt # <<>>
        /\ Head(SetPrivate \o Crypt) = "new_key"
    <3>1. 5 \in Nat \ {0} /\ 10 \in Nat \ {0}
      OBVIOUS
    <3>2. "pctx_new" \in {"pctx_new", "mdctx_new"}
      OBVIOUS
    <3> QED
      BY <2>1, <2>2, <2>3, <3>1, <3>2, Composed, Zenon
  <2> QED
    BY <2>1, <2>4
<1>7. CASE fn = "sm2_sign"
  <2>1. fn \in TakesPrivate /\ fn \in SelfContained /\ Steps[fn] = SetPrivate \o Sign
    BY <1>7 DEF TakesPrivate, SelfContained, Steps
  <2>2. /\ Path(fn, SetPrivate) /\ Len(SetPrivate) = 10
        /\ SetPrivate[1] = "new_key" /\ SetPrivate[10] = "cleanup"
    BY <2>1, PrivatePath
  <2>3. /\ Path(fn, Sign) /\ Len(Sign) = 7
        /\ Sign[1] = "mdctx_new" /\ Sign[7] = "free_own"
    BY <1>7, SignPath
  <2>4. /\ Program(fn, SetPrivate \o Sign) /\ SetPrivate \o Sign # <<>>
        /\ Head(SetPrivate \o Sign) = "new_key"
    <3>1. 10 \in Nat \ {0} /\ 7 \in Nat \ {0}
      OBVIOUS
    <3>2. "mdctx_new" \in {"pctx_new", "mdctx_new"}
      OBVIOUS
    <3> QED
      BY <2>1, <2>2, <2>3, <3>1, <3>2, Composed, Zenon
  <2> QED
    BY <2>1, <2>4
<1>8. CASE fn = "sm2_verify"
  <2>1. fn \in TakesPublic /\ fn \in SelfContained /\ Steps[fn] = SetPublic \o Verify
    BY <1>8 DEF TakesPublic, SelfContained, Steps
  <2>2. /\ Path(fn, SetPublic) /\ Len(SetPublic) = 10
        /\ SetPublic[1] = "new_key" /\ SetPublic[10] = "cleanup"
    BY <2>1, PublicPath
  <2>3. /\ Path(fn, Verify) /\ Len(Verify) = 5
        /\ Verify[1] = "mdctx_new" /\ Verify[5] = "free_own"
    BY <1>8, VerifyPath
  <2>4. /\ Program(fn, SetPublic \o Verify) /\ SetPublic \o Verify # <<>>
        /\ Head(SetPublic \o Verify) = "new_key"
    <3>1. 1 \in Nat \ {0} /\ 2 \in Nat \ {0} /\ 5 \in Nat \ {0} /\ 10 \in Nat \ {0}
      OBVIOUS
    <3>2. "mdctx_new" \in {"pctx_new", "mdctx_new"}
      OBVIOUS
    <3> QED
      BY <2>1, <2>2, <2>3, <3>1, <3>2, Composed, Zenon
  <2> QED
    BY <2>1, <2>4
<1>9. fn \in {"sm2_generate_keypair", "sm2_set_private_key", "sm2_set_public_key",
              "sm2_derive_public_key", "sm2_encrypt", "sm2_decrypt", "sm2_sign",
              "sm2_verify"}
  BY DEF Steps
<1> QED
  BY <1>1, <1>2, <1>3, <1>4, <1>5, <1>6, <1>7, <1>8, <1>9

\* A step that goes well leaves the rest of the program, one that fails the way
\* out.
LEMMA ProgramTail ==
  ASSUME NEW fn, NEW s, Program(fn, s), s # <<>>
  PROVE  /\ Program(fn, Tail(s)) /\ Runs(fn, Head(s)) /\ Head(s) \in StepNames
         /\ Tail(s) # <<>> => Follows(fn, Head(s), Head(Tail(s)))
         /\ Tail(s) = <<>> => Head(s) = IF fn \in SelfContained THEN "free_own" ELSE "cleanup"
         /\ Head(s) = "op" => Len(s) = 3
         /\ Len(Tail(s)) = Len(s) - 1 /\ Len(s) \in Nat \ {0}
         /\ Tail(s) # <<>> /\ Len(s) <= 2 =>
              Head(Tail(s)) = IF fn \in SelfContained THEN "free_own" ELSE "cleanup"
<1> DEFINE n == Len(s)
           t == Tail(s)
<1>1. /\ s \in Seq(StepNames) /\ n \in Nat \ {0}
      /\ \A k \in 1 .. n : Runs(fn, s[k])
      /\ \A k \in 1 .. n - 1 : Follows(fn, s[k], s[k + 1])
      /\ s[n] = IF fn \in SelfContained THEN "free_own" ELSE "cleanup"
  BY EmptySeq DEF Program
<1>2. /\ Head(s) = s[1] /\ s[1] \in StepNames
      /\ t \in Seq(StepNames) /\ Len(t) = n - 1
      /\ \A k \in 1 .. n - 1 : t[k] = s[k + 1]
  BY <1>1, HeadTailProperties
<1>3. t # <<>> => Len(t) \in Nat \ {0}
  BY <1>2, EmptySeq
<1>4. t = <<>> => n = 1
  <2>1. t = <<>> => Len(t) = 0
    BY EmptySeq
  <2> QED
    BY <1>1, <1>2, <2>1
<1> HIDE DEF n, t
<1>5. \A k \in 1 .. Len(t) : Runs(fn, t[k])
  <2> TAKE k \in 1 .. Len(t)
  <2>1. k \in 1 .. n - 1 /\ k + 1 \in 1 .. n
    BY <1>1, <1>2
  <2> QED
    BY <1>1, <1>2, <2>1
<1>6. \A k \in 1 .. Len(t) - 1 : Follows(fn, t[k], t[k + 1])
  <2> TAKE k \in 1 .. Len(t) - 1
  <2>1. k \in 1 .. n - 1 /\ k + 1 \in 1 .. n - 1
    BY <1>1, <1>2
  <2> QED
    BY <1>1, <1>2, <2>1
<1>7. t # <<>> => t[Len(t)] = s[n]
  <2> SUFFICES ASSUME t # <<>> PROVE t[Len(t)] = s[n]
    OBVIOUS
  <2>1. Len(t) \in 1 .. n - 1 /\ Len(t) + 1 = n
    BY <1>1, <1>2, <1>3
  <2> QED
    BY <1>2, <2>1
<1>8. t # <<>> => Head(t) = s[2] /\ Follows(fn, s[1], s[2])
  <2> SUFFICES ASSUME t # <<>> PROVE Head(t) = s[2] /\ Follows(fn, s[1], s[2])
    OBVIOUS
  <2>1. 1 \in 1 .. n - 1
    BY <1>1, <1>2, <1>3
  <2>2. Follows(fn, s[1], s[1 + 1]) /\ t[1] = s[1 + 1]
    BY <1>1, <1>2, <2>1
  <2>3. Head(t) = t[1]
    BY <1>2, HeadTailProperties
  <2> QED
    BY <2>2, <2>3
<1>9. Runs(fn, s[1])
  BY <1>1
<1>10. \A k \in 1 .. n : s[k] = "op" => n = k + 2
  BY DEF Program, n
<1>11. \A k \in 1 .. Len(t) : t[k] = "op" => Len(t) = k + 2
  <2> TAKE k \in 1 .. Len(t)
  <2>1. k \in 1 .. n - 1 /\ k + 1 \in 1 .. n /\ t[k] = s[k + 1]
    BY <1>1, <1>2
  <2> QED
    BY <1>1, <1>2, <1>10, <2>1
<1>12. s[1] = "op" => n = 3
  BY <1>1, <1>10
<1>13. t # <<>> /\ n <= 2 => Head(t) = s[n]
  BY <1>1, <1>2, <1>3, <1>8
<1> QED
  BY <1>1, <1>2, <1>4, <1>5, <1>6, <1>7, <1>8, <1>9, <1>11, <1>12, <1>13 DEF Program, t, n

LEMMA FailProgram ==
  ASSUME NEW fn
  PROVE  /\ fn \in SelfContained => Program(fn, <<"cleanup", "free_own">>)
         /\ fn \notin SelfContained => Program(fn, <<"cleanup">>)
         /\ Program(fn, <<>>)
<1>1. fn \in SelfContained => Program(fn, <<"cleanup", "free_own">>)
  <2> DEFINE s == <<"cleanup", "free_own">>
  <2>1. s \in Seq(StepNames) /\ Len(s) = 2 /\ s[1] = "cleanup" /\ s[2] = "free_own"
    BY DEF StepNames
  <2>2. fn \in SelfContained => /\ Follows(fn, "cleanup", "free_own")
                                /\ Runs(fn, "cleanup") /\ Runs(fn, "free_own")
    BY DEF Follows, Runs, TakesPrivate, TakesPublic, CoordSteps
  <2>3. \A k \in 1 .. 2 : k = 1 \/ k = 2
    OBVIOUS
  <2>4. \A k \in 1 .. Len(s) - 1 : k = 1
    BY <2>1
  <2> HIDE DEF s
  <2> QED
    BY <2>1, <2>2, <2>3, <2>4 DEF Program
<1>2. fn \notin SelfContained => Program(fn, <<"cleanup">>)
  <2> DEFINE s == <<"cleanup">>
  <2>1. s \in Seq(StepNames) /\ Len(s) = 1 /\ s[1] = "cleanup"
    BY DEF StepNames
  <2>2. Runs(fn, "cleanup")
    BY DEF Runs, TakesPrivate, TakesPublic, CoordSteps
  <2>3. \A k \in 1 .. Len(s) - 1 : FALSE
    BY <2>1
  <2>4. \A k \in 1 .. 1 : k = 1
    OBVIOUS
  <2> HIDE DEF s
  <2> QED
    BY <2>1, <2>2, <2>3, <2>4 DEF Program
<1>3. Program(fn, <<>>)
  <2>1. <<>> \in Seq(StepNames) /\ Len(<<>>) = 0
    BY EmptySeq
  <2>2. \A k \in 1 .. 0 : FALSE
    OBVIOUS
  <2>3. \A k \in 1 .. 0 - 1 : FALSE
    OBVIOUS
  <2> QED
    BY <2>1, <2>2, <2>3 DEF Program
<1> QED
  BY <1>1, <1>2, <1>3


-----------------------------------------------------------------------------
(* Steps and the pointers they set *)

Creates == {"new_key", "priv_bn", "point_new", "pkey_new", "keygen", "pctx_new",
            "mdctx_new"}

Made(step) ==
  IF step = "new_key" THEN "ec_key"
  ELSE IF step = "priv_bn" THEN "priv_bn"
  ELSE IF step = "point_new" THEN "pub_point"
  ELSE IF step \in {"pkey_new", "keygen"} THEN "pkey"
  ELSE "pctx"

\* What is set before a step and not set by it is set before the next one.
LEMMA HoldingStep ==
  ASSUME NEW fn \in DOMAIN Steps, NEW g \in StepNames, NEW h, Runs(fn, g), Follows(fn, g, h),
         h # "cleanup", g \notin {"cleanup"} \cup CoordSteps, NEW v \in Pointers
  PROVE  /\ Maybe(h) = {}
         /\ g \in Creates => Made(g) \in Pointers \ Holding(fn, g)
         /\ v \in Holding(fn, h) <=> v \in Holding(fn, g) \/ (g \in Creates /\ v = Made(g))
<1>1. fn \in {"sm2_generate_keypair", "sm2_set_private_key", "sm2_set_public_key",
              "sm2_derive_public_key", "sm2_encrypt", "sm2_decrypt", "sm2_sign",
              "sm2_verify"}
  BY DEF Steps
<1> QED
  BY <1>1 DEF Holding, Maybe, Runs, Follows, Creates, Made, StepNames, Pointers,
              TakesPrivate, TakesPublic, SelfContained, CoordSteps

LEMMA HoldingFacts ==
  ASSUME NEW fn \in DOMAIN Steps
  PROVE  /\ \A g \in StepNames : "pkey" \in Holding(fn, g) <=> g \in {"assign", "commit"}
         /\ \A g \in {"pctx_new", "mdctx_new", "free_own"} : Holding(fn, g) = {}
         /\ fn \in TakesPrivate \cup TakesPublic => Holding(fn, "new_key") = {}
         /\ Holding("sm2_derive_public_key", "point_new") = {}
         /\ \A g \in StepNames : Runs(fn, g) /\ g \in Creates => Made(g) \in Pointers \ Holding(fn, g)
         /\ \A g \in StepNames : Holding(fn, g) \cap Coordinates = {}
         /\ \A g \in StepNames : "pkey" \notin Maybe(g)
         /\ \A g \in StepNames \ {"y_new", "from_bytes", "free_xy"} : Maybe(g) = {}
  BY DEF Holding, Maybe, Coordinates, Creates, Made, StepNames, Pointers, TakesPrivate,
         TakesPublic, Runs, SelfContained, Steps, CoordSteps

LEMMA AtStep ==
  ASSUME ControlInv, NEW g, At(g)
  PROVE  /\ Runs(call.fn, g) /\ g \in StepNames /\ call.fn \in DOMAIN Steps /\ ~Idle
         /\ g \notin {"cleanup"} \cup CoordSteps =>
              \A v \in Pointers : local[v] # NULL <=> v \in Holding(call.fn, g)
         /\ g \in CoordSteps =>
              \A v \in Pointers : /\ v \in Holding(call.fn, g) => local[v] # NULL
                                  /\ local[v] # NULL => v \in Holding(call.fn, g) \cup Maybe(g)
         /\ call.fn \in TakesPrivate => call.key \in PrivateKeys
         /\ call.fn \in TakesPublic => call.key \in Points
         /\ call.fn = "sm2_derive_public_key" => ctx.pkey # NULL
         /\ ~Standalone => own = Fresh
<1>1. Program(call.fn, todo) /\ todo # <<>> /\ Head(todo) = g
  BY DEF ControlInv, At
<1>2. Runs(call.fn, g) /\ g \in StepNames
  BY <1>1, ProgramTail
<1>3. g \notin CoordSteps => Maybe(g) = {}
  BY DEF Maybe, CoordSteps
<1>4. g # "cleanup" =>
        \A v \in Pointers : /\ v \in Holding(call.fn, g) => local[v] # NULL
                            /\ local[v] # NULL => v \in Holding(call.fn, g) \cup Maybe(g)
  BY <1>1 DEF ControlInv, At, Idle
<1>5. "cleanup" \notin CoordSteps
  BY DEF CoordSteps
<1> QED
  BY <1>1, <1>2, <1>3, <1>4, <1>5 DEF ControlInv, At, Idle

LEMMA AfterDone ==
  ASSUME ControlInv, NEW g, At(g), Done, call' = call
  PROVE  /\ Program(call.fn, todo')
         /\ \A h : At(h)' => Follows(call.fn, g, h)
         /\ Idle' => g = IF Standalone THEN "free_own" ELSE "cleanup"
<1>1. Program(call.fn, todo) /\ todo # <<>> /\ Head(todo) = g /\ todo' = Tail(todo)
  BY DEF ControlInv, At, Done
<1>2. /\ Program(call.fn, Tail(todo))
      /\ Tail(todo) # <<>> => Follows(call.fn, Head(todo), Head(Tail(todo)))
      /\ Tail(todo) = <<>> => Head(todo) = IF call.fn \in SelfContained THEN "free_own" ELSE "cleanup"
  BY <1>1, ProgramTail
<1> QED
  BY <1>1, <1>2 DEF At, Idle, Standalone

LEMMA AfterFail ==
  ASSUME Fail, call' = call
  PROVE  /\ Program(call.fn, todo') /\ ~Idle' /\ At("cleanup")'
         /\ \A h : At(h)' => h = "cleanup"
<1>1. CASE Standalone
  <2>1. todo' = <<"cleanup", "free_own">>
    BY <1>1 DEF Fail
  <2>2. todo' # <<>> /\ Head(todo') = "cleanup"
    BY <2>1
  <2> QED
    BY <1>1, <2>1, <2>2, FailProgram DEF At, Idle, Standalone
<1>2. CASE ~Standalone
  <2>1. todo' = <<"cleanup">>
    BY <1>2 DEF Fail
  <2>2. todo' # <<>> /\ Head(todo') = "cleanup"
    BY <2>1
  <2> QED
    BY <1>2, <2>1, <2>2, FailProgram DEF At, Idle, Standalone
<1> QED
  BY <1>1, <1>2

\* Every step but the last two and those of point_from_bytes, when it goes well.
LEMMA ControlDone ==
  ASSUME ControlInv, NEW g, At(g), g \notin {"cleanup", "free_own"} \cup CoordSteps,
         Done, call' = call,
         ctx.pkey # NULL => ctx'.pkey # NULL, ~Standalone => own' = own,
         g = "commit" => local'.pkey = NULL /\ local'.x = NULL /\ local'.y = NULL,
         g # "commit" => \A v \in Pointers :
           local'[v] # NULL <=> local[v] # NULL \/ (g \in Creates /\ v = Made(g))
  PROVE  ControlInv'
<1>1. /\ Runs(call.fn, g) /\ g \in StepNames /\ call.fn \in DOMAIN Steps
      /\ \A v \in Pointers : local[v] # NULL <=> v \in Holding(call.fn, g)
  BY AtStep
<1>2. /\ Program(call.fn, todo') /\ ~Idle'
      /\ \A h : At(h)' => Follows(call.fn, g, h)
  BY AfterDone
<1>3. Follows(call.fn, g, Head(todo'))
  BY <1>2 DEF At, Idle
<1>4. ASSUME ~At("cleanup")', NEW v \in Pointers
      PROVE  /\ local'[v] # NULL <=> v \in Holding(call.fn, Head(todo'))
             /\ Maybe(Head(todo')) = {}
  <2>1. Head(todo') # "cleanup"
    BY <1>2, <1>4 DEF At, Idle
  <2>2. g # "commit"
    BY <1>3, <2>1 DEF Follows
  <2>3. /\ Maybe(Head(todo')) = {}
        /\ v \in Holding(call.fn, Head(todo')) <=>
             v \in Holding(call.fn, g) \/ (g \in Creates /\ v = Made(g))
    BY <1>1, <1>3, <2>1, HoldingStep
  <2> QED
    BY <1>1, <2>2, <2>3
<1>5. ASSUME At("cleanup")' PROVE local'.pkey = NULL /\ local'.x = NULL /\ local'.y = NULL
  <2>1. Follows(call.fn, g, "cleanup")
    BY <1>2, <1>5
  <2>2. g \in {"commit", "derived", "op"}
    BY <2>1 DEF Follows
  <2>3. g # "commit" => {"pkey", "x", "y"} \cap Holding(call.fn, g) = {} /\ g \notin Creates
    BY <1>1, <2>2, HoldingFacts DEF Creates, Coordinates
  <2> QED
    BY <1>1, <2>3 DEF Pointers
<1> QED
  BY <1>2, <1>4, <1>5, AtStep DEF ControlInv, Idle, Standalone

\* Every step that fails.
LEMMA ControlFail ==
  ASSUME ControlInv, NEW g, At(g), Fail, call' = call, ctx' = ctx, own' = own,
         local'.pkey = NULL, local'.x = NULL, local'.y = NULL
  PROVE  ControlInv'
<1>1. Program(call.fn, todo') /\ ~Idle' /\ At("cleanup")'
  BY AfterFail
<1> QED
  BY <1>1, AtStep DEF ControlInv, Idle, Standalone

\* A step that fails has no EVP_PKEY, unless it is EVP_PKEY_assign_EC_KEY.
LEMMA NoPkey ==
  ASSUME ControlInv, NEW g, At(g), g \notin {"assign", "commit"}
  PROVE  local.pkey = NULL
<1>1. CASE g = "cleanup"
  BY <1>1 DEF ControlInv, At, Idle
<1>2. CASE g # "cleanup"
  BY <1>2, AtStep, HoldingFacts DEF Pointers
<1> QED
  BY <1>1, <1>2

\* Outside point_from_bytes there are no coordinates.
LEMMA NoCoordinates ==
  ASSUME ControlInv, NEW g, At(g), g \notin {"y_new", "from_bytes", "free_xy"}
  PROVE  local.x = NULL /\ local.y = NULL
<1>1. CASE g = "cleanup"
  BY <1>1 DEF ControlInv, At, Idle
<1>2. CASE g # "cleanup"
  <2>1. Maybe(g) = {} /\ Holding(call.fn, g) \cap Coordinates = {}
    BY <1>2, AtStep, HoldingFacts
  <2> QED
    BY <1>2, <2>1, AtStep DEF Pointers, Coordinates
<1> QED
  BY <1>1, <1>2

-----------------------------------------------------------------------------
(* The heap, step by step *)

HeapOk == HeapInv /\ PointerInv /\ KeyInv /\ OwnedInv

LEMMA AFreeNumber ==
  ASSUME NEW S, IsFiniteSet(S), NEW k \in Nat, k > Cardinality(S)
  PROVE  \E n \in 1 .. k : n \notin S
<1> SUFFICES ASSUME \A n \in 1 .. k : n \in S PROVE FALSE
  OBVIOUS
<1>1. IsFiniteSet(1 .. k) /\ Cardinality(1 .. k) = k
  BY FS_Interval
<1>2. (1 .. k) \in SUBSET S
  OBVIOUS
<1>3. Cardinality(1 .. k) <= Cardinality(S) /\ Cardinality(S) \in Nat
  BY <1>2, FS_Subset, FS_CardinalityType
<1> QED
  BY <1>1, <1>3

LEMMA AddressFresh ==
  ASSUME HeapInv
  PROVE  Address \in Nat \ DOMAIN heap
<1>1. Cardinality(DOMAIN heap) \in Nat
  BY FS_CardinalityType DEF HeapInv
<1>2. \E n \in 1 .. Cardinality(DOMAIN heap) + 1 : n \notin DOMAIN heap
  <2>1. Cardinality(DOMAIN heap) + 1 \in Nat /\ Cardinality(DOMAIN heap) + 1 > Cardinality(DOMAIN heap)
    BY <1>1
  <2> QED
    BY <2>1, AFreeNumber DEF HeapInv
<1> QED
  BY <1>1, <1>2 DEF Address

LEMMA AllocatedHeap ==
  ASSUME HeapInv, NEW a \in Nat \ DOMAIN heap, NEW object \in Objects,
         heap' = Allocated(a, object)
  PROVE  /\ DOMAIN heap' = DOMAIN heap \cup {a} /\ heap'[a] = object
         /\ \A n \in DOMAIN heap : heap'[n] = heap[n] /\ n # a
         /\ HeapInv'
<1>1. /\ DOMAIN heap' = DOMAIN heap \cup {a} /\ heap'[a] = object
      /\ \A n \in DOMAIN heap : heap'[n] = heap[n] /\ n # a
  BY DEF Allocated
<1>2. heap' = [n \in DOMAIN heap' |-> heap'[n]]
  BY <1>1 DEF Allocated
<1>3. IsFiniteSet(DOMAIN heap \cup {a})
  BY FS_AddElement DEF HeapInv
<1>4. \A n \in DOMAIN heap' : heap'[n] \in Objects
  BY <1>1 DEF HeapInv
<1>5. DOMAIN heap' \subseteq Nat
  BY <1>1 DEF HeapInv
<1> QED
  BY <1>1, <1>2, <1>3, <1>4, <1>5 DEF HeapInv

\* A new object in a pointer that was NULL.
LEMMA NewObject ==
  ASSUME HeapOk, NEW a \in Nat \ DOMAIN heap, NEW v \in Pointers, local[v] = NULL,
         NEW object \in Objects, object.kind = Kind(v),
         object.kind = "EVP_PKEY" => object.ec = NULL,
         heap' = Allocated(a, object), local' = [local EXCEPT ![v] = a],
         ctx' = ctx, own' = own, doubleFree' = doubleFree,
         ~At("commit"), ~At("commit")'
  PROVE  HeapOk'
<1>1. /\ DOMAIN heap' = DOMAIN heap \cup {a} /\ heap'[a] = object
      /\ \A n \in DOMAIN heap : heap'[n] = heap[n] /\ n # a
      /\ HeapInv'
  BY AllocatedHeap DEF HeapOk
<1>2. /\ local \in [Pointers -> Nat \cup {NULL}] /\ a # NULL
      /\ local'[v] = a /\ \A u \in Pointers : u # v => local'[u] = local[u]
      /\ local' \in [Pointers -> Nat \cup {NULL}]
  BY SizeAssumption DEF HeapOk, PointerInv
<1>3. \A u \in Pointers : local[u] # NULL => IsObject(local[u], Kind(u)) /\ local[u] # a
  BY <1>1 DEF HeapOk, PointerInv, IsObject
<1>4. \A c \in {ctx, own} : c.pkey # NULL =>
        IsObject(c.pkey, "EVP_PKEY") /\ heap[c.pkey].ec # NULL /\ c.pkey # local.pkey /\ c.pkey # a
  BY <1>1 DEF HeapOk, PointerInv, IsObject
<1>5. PointerInv'
  <2>1. \A u \in Pointers : local'[u] # NULL =>
          local'[u] \in DOMAIN heap' /\ heap'[local'[u]].kind = Kind(u)
    BY <1>1, <1>2, <1>3 DEF IsObject
  <2>2. \A u, w \in Pointers : u # w /\ local'[u] # NULL => local'[u] # local'[w]
    BY <1>2, <1>3 DEF HeapOk, PointerInv
  <2>3. \A c \in {ctx, own} : c.pkey # NULL =>
          /\ c.pkey \in DOMAIN heap' /\ heap'[c.pkey].kind = "EVP_PKEY"
          /\ heap'[c.pkey].ec # NULL /\ c.pkey # local'.pkey
    BY <1>1, <1>2, <1>4 DEF IsObject, Pointers
  <2> QED
    BY <1>2, <2>1, <2>2, <2>3 DEF HeapOk, PointerInv, IsObject
<1>6. KeyInv'
  <2>1. v = "pkey" <=> object.kind = "EVP_PKEY"
    BY DEF Kind, Pointers
  <2>2. ASSUME NEW n \in DOMAIN heap', heap'[n].kind = "EVP_PKEY", n = a
        PROVE  heap'[n].ec = NULL /\ n = local'.pkey
    BY <1>1, <1>2, <2>1, <2>2
  <2>3. ASSUME NEW n \in DOMAIN heap', heap'[n].kind = "EVP_PKEY", n # a
        PROVE  /\ n \in DOMAIN heap /\ heap'[n] = heap[n]
               /\ n # local'.pkey \/ v # "pkey"
               /\ heap[n].ec = NULL => n = local.pkey
               /\ heap[n].ec # NULL =>
                    /\ IsObject(heap[n].ec, "EC_KEY") /\ heap[n].ec # local.ec_key /\ heap[n].ec # a
                    /\ \A m \in DOMAIN heap :
                         heap[m].kind = "EVP_PKEY" /\ heap[m].ec = heap[n].ec => m = n
               /\ n = local.pkey => heap[n].ec = NULL /\ v # "pkey"
    BY <1>1, <1>2, <1>3, <2>1, <2>3, SizeAssumption DEF HeapOk, KeyInv, HeapInv, IsObject, Pointers
  <2> QED
    BY <1>1, <1>2, <2>1, <2>2, <2>3 DEF KeyInv, IsObject, Pointers
<1>7. OwnedInv'
  <2> SUFFICES ASSUME NEW n \in DOMAIN heap PROVE Owned(n)'
    BY <1>1, <1>2 DEF HeapOk, OwnedInv, Owned, Held
  <2>1. \A m \in Held \ {NULL} : m \in Held' /\ m \in DOMAIN heap /\ heap'[m] = heap[m]
    BY <1>1, <1>2, <1>3, <1>4 DEF Held, IsObject
  <2> QED
    BY <2>1, SizeAssumption DEF HeapOk, OwnedInv, Owned, HeapInv
<1> QED
  BY <1>1, <1>5, <1>6, <1>7 DEF HeapOk

\* Objects change their contents, not their kind nor what an EVP_PKEY leads to.
LEMMA Rewritten ==
  ASSUME HeapOk, DOMAIN heap' = DOMAIN heap, heap' = [n \in DOMAIN heap |-> heap'[n]],
         \A n \in DOMAIN heap :
           /\ heap'[n] \in Objects /\ heap'[n].kind = heap[n].kind
           /\ heap[n].kind = "EVP_PKEY" => heap'[n].ec = heap[n].ec,
         local' = local, ctx' \in Contexts, ctx'.pkey = ctx.pkey,
         own' \in Contexts, own'.pkey = own.pkey, doubleFree' = doubleFree,
         At("commit")' <=> At("commit")
  PROVE  HeapOk'
<1>1. HeapInv'
  BY DEF HeapOk, HeapInv
<1>2. PointerInv'
  BY DEF HeapOk, PointerInv, IsObject, Pointers
<1>3. KeyInv'
  BY DEF HeapOk, KeyInv, HeapInv, IsObject
<1>4. OwnedInv'
  <2>1. Held' = Held
    BY DEF Held
  <2>2. \A m \in Held \ {NULL} : m \in DOMAIN heap
    BY DEF Held, HeapOk, PointerInv, IsObject
  <2> QED
    BY <2>1, <2>2 DEF HeapOk, OwnedInv, Owned
<1> QED
  BY <1>1, <1>2, <1>3, <1>4 DEF HeapOk

\* A step that leaves objects, pointers and contexts alone.
LEMMA Untouched ==
  ASSUME HeapOk, UNCHANGED <<heap, local, doubleFree>>,
         ctx' \in Contexts, ctx'.pkey = ctx.pkey, own' \in Contexts, own'.pkey = own.pkey,
         At("commit")' <=> At("commit")
  PROVE  HeapOk'
<1>1. /\ heap' = [n \in DOMAIN heap |-> heap'[n]] /\ DOMAIN heap' = DOMAIN heap
      /\ \A n \in DOMAIN heap : heap'[n] \in Objects /\ heap'[n] = heap[n]
  BY DEF HeapOk, HeapInv
<1> QED
  BY <1>1, Rewritten

\* EVP_PKEY_assign_EC_KEY succeeds.
LEMMA Assigned ==
  ASSUME HeapOk, local.pkey # NULL, local.ec_key # NULL, At("assign"), At("commit")',
         heap' = [heap EXCEPT ![local.pkey].ec = local.ec_key],
         UNCHANGED <<local, ctx, own, doubleFree>>
  PROVE  HeapOk'
<1> DEFINE p == local.pkey
           e == local.ec_key
<1>1. /\ p \in DOMAIN heap /\ heap[p].kind = "EVP_PKEY" /\ heap[p].ec = NULL
      /\ e \in DOMAIN heap /\ heap[e].kind = "EC_KEY" /\ e # p /\ e \in Nat /\ e # NULL
      /\ ~At("commit")
  BY SizeAssumption DEF HeapOk, PointerInv, KeyInv, IsObject, Kind, Pointers, At, HeapInv
<1>2. /\ DOMAIN heap' = DOMAIN heap /\ heap'[p].kind = "EVP_PKEY" /\ heap'[p].ec = e
      /\ heap'[p] \in Objects
      /\ \A n \in DOMAIN heap : n # p => heap'[n] = heap[n]
  <2>1. heap[p] \in [kind : {"EVP_PKEY"}, ec : Nat \cup {NULL}]
    BY <1>1 DEF HeapOk, HeapInv, Objects
  <2>2. heap'[p] = [heap[p] EXCEPT !.ec = e] /\ DOMAIN heap' = DOMAIN heap
    BY <1>1 DEF HeapOk, HeapInv
  <2>3. heap'[p] \in [kind : {"EVP_PKEY"}, ec : Nat \cup {NULL}] /\ heap'[p].ec = e
    BY <1>1, <2>1, <2>2
  <2> QED
    BY <2>2, <2>3 DEF Objects, HeapOk, HeapInv
<1> HIDE DEF p, e
<1>3. HeapInv'
  <2>1. heap' = [n \in DOMAIN heap' |-> heap'[n]]
    BY DEF HeapOk, HeapInv
  <2> QED
    BY <1>2, <2>1 DEF HeapOk, HeapInv
<1>4. PointerInv'
  BY <1>1, <1>2 DEF HeapOk, PointerInv, IsObject, Pointers, p
<1>5. KeyInv'
  <2>1. local.pkey = p /\ local.ec_key = e
    BY DEF p, e
  <2>2. ASSUME NEW n \in DOMAIN heap, heap[n].kind = "EVP_PKEY", n # p
        PROVE  /\ heap[n].ec # NULL /\ heap[n].ec # e /\ heap[n].ec # p
               /\ IsObject(heap[n].ec, "EC_KEY")
               /\ \A m \in DOMAIN heap :
                    heap[m].kind = "EVP_PKEY" /\ heap[m].ec = heap[n].ec => m = n
    BY <1>1, <2>1, <2>2 DEF HeapOk, KeyInv, IsObject
  <2> QED
    BY <1>1, <1>2, <2>1, <2>2 DEF KeyInv, IsObject
<1>6. OwnedInv'
  <2>1. Held' = Held
    BY DEF Held
  <2>2. \A m \in Held \ {NULL} : m \in DOMAIN heap
    BY DEF Held, HeapOk, PointerInv, IsObject
  <2>3. ASSUME NEW m \in Held \ {NULL}, heap[m].kind = "EVP_PKEY", heap[m].ec \in DOMAIN heap
        PROVE  m # p /\ heap'[m] = heap[m]
    BY <1>1, <1>2, <2>2, <2>3, SizeAssumption DEF HeapOk, HeapInv
  <2>4. ASSUME NEW n \in DOMAIN heap, n \notin Held
        PROVE  \E m \in Held' \ {NULL} : heap'[m].kind = "EVP_PKEY" /\ heap'[m].ec = n
    <3>1. PICK m \in Held \ {NULL} : heap[m].kind = "EVP_PKEY" /\ heap[m].ec = n
      BY <2>4 DEF HeapOk, OwnedInv, Owned
    <3>2. heap'[m] = heap[m]
      BY <2>3, <3>1
    <3> QED
      BY <2>1, <3>1, <3>2
  <2> QED
    BY <1>2, <2>1, <2>4 DEF HeapOk, OwnedInv, Owned
<1> QED
  BY <1>3, <1>4, <1>5, <1>6 DEF HeapOk

\* What is left when objects go.
LEMMA Survivors ==
  ASSUME HeapOk, NEW gone, heap' = [n \in DOMAIN heap \ gone |-> heap[n]]
  PROVE  /\ HeapInv' /\ DOMAIN heap' = DOMAIN heap \ gone
         /\ \A n \in DOMAIN heap \ gone : heap'[n] = heap[n]
<1>1. /\ DOMAIN heap' = DOMAIN heap \ gone
      /\ \A n \in DOMAIN heap \ gone : heap'[n] = heap[n]
  OBVIOUS
<1>2. IsFiniteSet(DOMAIN heap \ gone)
  BY FS_Subset DEF HeapOk, HeapInv
<1>3. heap' = [n \in DOMAIN heap' |-> heap'[n]]
  BY <1>1
<1> QED
  BY <1>1, <1>2, <1>3 DEF HeapOk, HeapInv

\* Freeing objects that lead to no others.
LEMMA FreePlain ==
  ASSUME HeapOk, NEW gone, gone \subseteq DOMAIN heap, Free(gone),
         \A n \in gone : heap[n].kind = "EVP_PKEY" => heap[n].ec = NULL
  PROVE  /\ heap' = [n \in DOMAIN heap \ gone |-> heap[n]]
         /\ doubleFree' = FALSE
<1>1. Reach(gone) = gone
  BY DEF Reach
<1>2. \A n \in gone : n # NULL
  BY SizeAssumption DEF HeapOk, HeapInv
<1> QED
  BY <1>1, <1>2 DEF Free, HeapOk, OwnedInv

\* Freeing the key of a context.
LEMMA FreeKey ==
  ASSUME HeapOk, NEW c \in {ctx, own}, Free({c.pkey} \ {NULL}),
         NEW gone, gone = IF c.pkey = NULL THEN {} ELSE {c.pkey, heap[c.pkey].ec}
  PROVE  /\ heap' = [n \in DOMAIN heap \ gone |-> heap[n]]
         /\ doubleFree' = FALSE
<1>1. CASE c.pkey = NULL
  <2>1. Reach({}) = {} /\ {c.pkey} \ {NULL} = {}
    BY <1>1 DEF Reach
  <2> QED
    BY <1>1, <2>1 DEF Free, HeapOk, OwnedInv
<1>2. CASE c.pkey # NULL
  <2>1. /\ c.pkey \in DOMAIN heap /\ heap[c.pkey].kind = "EVP_PKEY" /\ heap[c.pkey].ec # NULL
        /\ {c.pkey} \ {NULL} = {c.pkey}
    BY <1>2 DEF HeapOk, PointerInv, IsObject
  <2>2. heap[c.pkey].ec # c.pkey
    BY <2>1 DEF HeapOk, KeyInv, IsObject
  <2>3. Reach({c.pkey}) = gone
    BY <1>2, <2>1 DEF Reach
  <2> QED
    BY <2>1, <2>2, <2>3 DEF Free, HeapOk, OwnedInv
<1> QED
  BY <1>1, <1>2

\* When the objects in gone go, whatever else has a pointer stays.
Apart(gone, d) ==
  /\ \A u \in Pointers : local[u] # NULL => local[u] \in DOMAIN heap \ gone
  /\ d.pkey # NULL => d.pkey \in DOMAIN heap \ gone
  /\ \A n \in DOMAIN heap \ gone : heap[n].kind = "EVP_PKEY" /\ heap[n].ec # NULL =>
       heap[n].ec \in DOMAIN heap \ gone

\* The key of a context is its own.
LEMMA KeyAlone ==
  ASSUME HeapOk, NEW c \in {ctx, own}, NEW d \in {ctx, own},
         c.pkey # NULL => c.pkey # d.pkey,
         NEW gone, gone = IF c.pkey = NULL THEN {} ELSE {c.pkey, heap[c.pkey].ec}
  PROVE  Apart(gone, d)
<1>1. CASE c.pkey = NULL
  BY <1>1 DEF HeapOk, PointerInv, KeyInv, IsObject, Apart
<1>2. CASE c.pkey # NULL
  <2> DEFINE p == c.pkey
             e == heap[c.pkey].ec
  <2>1. /\ p \in DOMAIN heap /\ heap[p].kind = "EVP_PKEY" /\ e # NULL /\ p # local.pkey
        /\ gone = {p, e}
    BY <1>2 DEF HeapOk, PointerInv, IsObject
  <2>2. e \in DOMAIN heap /\ heap[e].kind = "EC_KEY" /\ e # local.ec_key
    BY <2>1 DEF HeapOk, KeyInv, IsObject
  <2>3. \A m \in DOMAIN heap : heap[m].kind = "EVP_PKEY" /\ heap[m].ec = e => m = p
    BY <2>1 DEF HeapOk, KeyInv
  <2> HIDE DEF p, e
  <2>4. ASSUME NEW u \in Pointers, local[u] # NULL PROVE local[u] \in DOMAIN heap \ gone
    <3>1. local[u] \in DOMAIN heap /\ heap[local[u]].kind = Kind(u)
      BY <2>4 DEF HeapOk, PointerInv, IsObject
    <3> QED
      BY <2>1, <2>2, <3>1 DEF Kind, Pointers
  <2>5. ASSUME d.pkey # NULL PROVE d.pkey \in DOMAIN heap \ gone
    <3>1. d.pkey \in DOMAIN heap /\ heap[d.pkey].kind = "EVP_PKEY" /\ d.pkey # p
      BY <1>2, <2>5 DEF HeapOk, PointerInv, IsObject, p
    <3> QED
      BY <2>1, <2>2, <3>1
  <2>6. ASSUME NEW n \in DOMAIN heap \ gone, heap[n].kind = "EVP_PKEY", heap[n].ec # NULL
        PROVE  heap[n].ec \in DOMAIN heap \ gone
    <3>1. heap[n].ec \in DOMAIN heap /\ heap[heap[n].ec].kind = "EC_KEY"
      BY <2>6 DEF HeapOk, KeyInv, IsObject
    <3> QED
      BY <2>1, <2>3, <2>6, <3>1
  <2> QED
    BY <2>4, <2>5, <2>6 DEF Apart
<1> QED
  BY <1>1, <1>2

\* A context lets go of its key: sm2_free.
LEMMA ContextFreed ==
  ASSUME HeapOk, ~At("commit"), ~At("commit")',
         NEW c \in {ctx, own}, NEW d \in {ctx, own}, {c, d} = {ctx, own},
         c.pkey # NULL => c.pkey # d.pkey,
         Free({c.pkey} \ {NULL}), local' = local,
         ctx' \in Contexts, own' \in Contexts,
         \/ ctx'.pkey = NULL /\ own'.pkey = d.pkey
         \/ ctx'.pkey = d.pkey /\ own'.pkey = NULL
  PROVE  HeapOk'
<1> DEFINE gone == IF c.pkey = NULL THEN {} ELSE {c.pkey, heap[c.pkey].ec}
<1>1. gone = IF c.pkey = NULL THEN {} ELSE {c.pkey, heap[c.pkey].ec}
  OBVIOUS
<1>2. c.pkey # NULL => gone = {c.pkey, heap[c.pkey].ec}
  OBVIOUS
<1> HIDE DEF gone
<1>3. heap' = [n \in DOMAIN heap \ gone |-> heap[n]] /\ doubleFree' = FALSE
  BY <1>1, FreeKey
<1>4. /\ \A u \in Pointers : local[u] # NULL => local[u] \in DOMAIN heap \ gone
      /\ d.pkey # NULL => d.pkey \in DOMAIN heap \ gone
      /\ \A n \in DOMAIN heap \ gone : heap[n].kind = "EVP_PKEY" /\ heap[n].ec # NULL =>
           heap[n].ec \in DOMAIN heap \ gone
  <2>1. Apart(gone, d)
    BY <1>1, KeyAlone
  <2> QED
    BY <2>1 DEF Apart
<1>5. /\ HeapInv' /\ DOMAIN heap' = DOMAIN heap \ gone
      /\ \A n \in DOMAIN heap \ gone : heap'[n] = heap[n]
  BY <1>3, Survivors
<1>6. /\ d.pkey # NULL => heap[d.pkey].kind = "EVP_PKEY" /\ heap[d.pkey].ec # NULL
                          /\ d.pkey # local.pkey
      /\ \A u \in Pointers : local[u] # NULL => heap[local[u]].kind = Kind(u)
  BY DEF HeapOk, PointerInv, IsObject
<1>7. PointerInv'
  <2>1. \A u \in Pointers : local'[u] # NULL =>
          local'[u] \in DOMAIN heap' /\ heap'[local'[u]].kind = Kind(u)
    BY <1>4, <1>5, <1>6
  <2>2. d.pkey # NULL =>
          /\ d.pkey \in DOMAIN heap' /\ heap'[d.pkey].kind = "EVP_PKEY"
          /\ heap'[d.pkey].ec # NULL /\ d.pkey # local'.pkey
    BY <1>4, <1>5, <1>6
  <2> QED
    BY <2>1, <2>2 DEF HeapOk, PointerInv, IsObject
<1>8. KeyInv'
  <2>1. local'.pkey = local.pkey /\ local'.ec_key = local.ec_key
    OBVIOUS
  <2> QED
    BY <1>4, <1>5, <2>1 DEF HeapOk, KeyInv, IsObject
<1>9. OwnedInv'
  <2>1. \A n : n \in Held' <=> (\E u \in Pointers : local[u] = n) \/ n = d.pkey \/ n = NULL
    <3>1. {ctx'.pkey, own'.pkey} = {NULL, d.pkey}
      OBVIOUS
    <3> QED
      BY <3>1 DEF Held
  <2>2. ASSUME NEW n \in DOMAIN heap \ gone PROVE Owned(n)'
    <3>1. n # c.pkey /\ (c.pkey # NULL => n # heap[c.pkey].ec) /\ n # NULL
      BY <1>2, <2>2, SizeAssumption DEF HeapOk, HeapInv
    <3>2. CASE n \in Held
      BY <2>1, <3>1, <3>2 DEF Held, Owned
    <3>3. CASE n \notin Held
      <4>1. PICK m \in Held \ {NULL} : heap[m].kind = "EVP_PKEY" /\ heap[m].ec = n
        BY <3>3 DEF HeapOk, OwnedInv, Owned
      <4>2. m # c.pkey
        BY <3>1, <4>1
      <4>3. m \in Held' /\ m \in DOMAIN heap \ gone
        BY <1>4, <2>1, <4>1, <4>2 DEF Held
      <4> QED
        BY <1>5, <4>1, <4>3 DEF Owned
    <3> QED
      BY <3>2, <3>3
  <2> QED
    BY <1>3, <1>5, <2>2 DEF OwnedInv
<1> QED
  BY <1>5, <1>7, <1>8, <1>9 DEF HeapOk

\* Some pointers of the frame let go of their objects.
LEMMA FrameFreed ==
  ASSUME HeapOk, ~At("commit"), ~At("commit")', local.pkey = NULL,
         NEW some, some \subseteq Pointers, Free({local[v] : v \in some} \ {NULL}),
         local' = [v \in Pointers |-> IF v \in some THEN NULL ELSE local[v]],
         UNCHANGED <<ctx, own>>
  PROVE  HeapOk'
<1> DEFINE gone == {local[v] : v \in some} \ {NULL}
<1>1. /\ gone \subseteq DOMAIN heap
      /\ \A n \in gone : heap[n].kind # "EVP_PKEY"
  BY DEF HeapOk, PointerInv, IsObject, Kind, Pointers
<1>2. heap' = [n \in DOMAIN heap \ gone |-> heap[n]] /\ doubleFree' = FALSE
  BY <1>1, FreePlain
<1>3. \A n : n \in gone <=> n # NULL /\ \E v \in some : local[v] = n
  OBVIOUS
<1> HIDE DEF gone
<1>4. /\ HeapInv' /\ DOMAIN heap' = DOMAIN heap \ gone
      /\ \A n \in DOMAIN heap \ gone : heap'[n] = heap[n]
  BY <1>2, Survivors
<1>5. \A v \in Pointers : local'[v] = IF v \in some THEN NULL ELSE local[v]
  OBVIOUS
<1>6. PointerInv'
  <2>1. local' \in [Pointers -> Nat \cup {NULL}]
    BY DEF HeapOk, PointerInv
  <2>3. ASSUME NEW v \in Pointers, local'[v] # NULL
        PROVE  local'[v] \in DOMAIN heap' /\ heap'[local'[v]].kind = Kind(v)
    <3>1. v \notin some /\ local'[v] = local[v] /\ local[v] # NULL
      BY <1>5, <2>3
    <3>2. /\ local[v] \in DOMAIN heap /\ heap[local[v]].kind = Kind(v)
          /\ \A u \in Pointers : u # v => local[v] # local[u]
      BY <3>1 DEF HeapOk, PointerInv, IsObject
    <3>3. local[v] \notin gone
      BY <1>3, <3>1, <3>2
    <3> QED
      BY <1>4, <3>1, <3>2, <3>3
  <2>4. \A u, v \in Pointers : u # v /\ local'[u] # NULL => local'[u] # local'[v]
    BY <1>5 DEF HeapOk, PointerInv
  <2>2. ASSUME NEW c \in {ctx, own}, c.pkey # NULL
        PROVE  /\ c.pkey \in DOMAIN heap' /\ heap'[c.pkey].kind = "EVP_PKEY"
               /\ heap'[c.pkey].ec # NULL /\ c.pkey # local'.pkey
    BY <1>1, <1>4, <1>5, <2>2 DEF HeapOk, PointerInv, IsObject, Pointers
  <2> QED
    BY <2>1, <2>2, <2>3, <2>4 DEF HeapOk, PointerInv, IsObject
<1>7. KeyInv'
  <2>1. local'.pkey = NULL /\ local'.ec_key \in {NULL, local.ec_key}
    BY <1>5 DEF Pointers
  <2>2. ASSUME NEW n \in DOMAIN heap', heap'[n].kind = "EVP_PKEY"
        PROVE  /\ n \in DOMAIN heap /\ heap'[n] = heap[n] /\ heap[n].ec # NULL /\ n # NULL
               /\ heap[n].ec # local.ec_key
               /\ heap[n].ec \in DOMAIN heap' /\ heap[heap[n].ec].kind = "EC_KEY"
               /\ \A m \in DOMAIN heap :
                    heap[m].kind = "EVP_PKEY" /\ heap[m].ec = heap[n].ec => m = n
    <3>1. n \in DOMAIN heap \ gone /\ heap'[n] = heap[n] /\ n # NULL
      BY <1>4, <2>2, SizeAssumption DEF HeapInv
    <3>2. /\ heap[n].ec # NULL /\ heap[n].ec \in DOMAIN heap /\ heap[heap[n].ec].kind = "EC_KEY"
          /\ heap[n].ec # local.ec_key
          /\ \A m \in DOMAIN heap :
               heap[m].kind = "EVP_PKEY" /\ heap[m].ec = heap[n].ec => m = n
      BY <2>2, <3>1 DEF HeapOk, KeyInv, IsObject
    <3>3. heap[n].ec \notin gone
      BY <1>3, <3>2 DEF HeapOk, PointerInv, IsObject, Kind, Pointers
    <3> QED
      BY <1>4, <3>1, <3>2, <3>3
  <2> QED
    BY <1>4, <2>1, <2>2 DEF KeyInv, IsObject
<1>8. OwnedInv'
  <2>1. ASSUME NEW n \in DOMAIN heap \ gone PROVE Owned(n)'
    <3>1. n # NULL /\ \A v \in some : local[v] # n
      BY <1>3, <2>1, SizeAssumption DEF HeapOk, HeapInv
    <3>2. CASE n \in Held
      <4>1. n \in Held'
        BY <1>5, <3>1, <3>2 DEF Held
      <4> QED
        BY <4>1 DEF Owned
    <3>3. CASE n \notin Held
      <4>1. PICK m \in Held \ {NULL} : heap[m].kind = "EVP_PKEY" /\ heap[m].ec = n
        BY <3>3 DEF HeapOk, OwnedInv, Owned
      <4>2. m \notin gone /\ m \in DOMAIN heap
        BY <1>1, <4>1 DEF Held, HeapOk, PointerInv, IsObject
      <4>3. m \in Held'
        BY <1>3, <1>5, <4>1, <4>2 DEF Held
      <4> QED
        BY <1>4, <4>1, <4>2, <4>3 DEF Owned
    <3> QED
      BY <3>2, <3>3
  <2> QED
    BY <1>2, <1>4, <2>1 DEF OwnedInv
<1> QED
  BY <1>4, <1>6, <1>7, <1>8 DEF HeapOk

\* The new key goes to a context, the old one goes away.
LEMMA Committed ==
  ASSUME HeapOk, At("commit"), ~At("commit")', local.pkey # NULL,
         NEW c \in {ctx, own}, NEW d \in {ctx, own}, {c, d} = {ctx, own},
         c.pkey # NULL => c.pkey # d.pkey,
         Free({c.pkey} \ {NULL}), local' = HandOver,
         ctx' \in Contexts, own' \in Contexts,
         \/ ctx'.pkey = local.pkey /\ own'.pkey = d.pkey
         \/ ctx'.pkey = d.pkey /\ own'.pkey = local.pkey
  PROVE  HeapOk'
<1> DEFINE gone == IF c.pkey = NULL THEN {} ELSE {c.pkey, heap[c.pkey].ec}
           q == local.pkey
<1>1. gone = IF c.pkey = NULL THEN {} ELSE {c.pkey, heap[c.pkey].ec}
  OBVIOUS
<1>2. c.pkey # NULL => gone = {c.pkey, heap[c.pkey].ec}
  OBVIOUS
<1> HIDE DEF gone
<1>3. heap' = [n \in DOMAIN heap \ gone |-> heap[n]] /\ doubleFree' = FALSE
  BY <1>1, FreeKey
<1>4. /\ \A u \in Pointers : local[u] # NULL => local[u] \in DOMAIN heap \ gone
      /\ d.pkey # NULL => d.pkey \in DOMAIN heap \ gone
      /\ \A n \in DOMAIN heap \ gone : heap[n].kind = "EVP_PKEY" /\ heap[n].ec # NULL =>
           heap[n].ec \in DOMAIN heap \ gone
  <2>1. Apart(gone, d)
    BY <1>1, KeyAlone
  <2> QED
    BY <2>1 DEF Apart
<1>5. /\ HeapInv' /\ DOMAIN heap' = DOMAIN heap \ gone
      /\ \A n \in DOMAIN heap \ gone : heap'[n] = heap[n]
  BY <1>3, Survivors
<1>6. /\ local \in [Pointers -> Nat \cup {NULL}]
      /\ d.pkey # NULL => heap[d.pkey].kind = "EVP_PKEY" /\ heap[d.pkey].ec # NULL
                          /\ d.pkey # local.pkey
      /\ \A u \in Pointers : local[u] # NULL => heap[local[u]].kind = Kind(u)
  BY DEF HeapOk, PointerInv, IsObject
<1>7. /\ q \in DOMAIN heap \ gone /\ heap[q].kind = "EVP_PKEY" /\ heap[q].ec # NULL
      /\ local.ec_key # NULL => heap[q].ec = local.ec_key
      /\ q # NULL /\ q # d.pkey
  <2>1. q \in DOMAIN heap \ gone /\ heap[q].kind = "EVP_PKEY"
    BY <1>4, <1>6 DEF Pointers, Kind
  <2> QED
    BY <1>6, <2>1 DEF HeapOk, KeyInv
<1>8. /\ local'["pkey"] = NULL /\ local'["ec_key"] = NULL
      /\ \A u \in Pointers \ {"pkey", "ec_key"} : local'[u] = local[u]
      /\ local' \in [Pointers -> Nat \cup {NULL}]
  BY <1>6 DEF HandOver, Pointers
<1>9. PointerInv'
  <2>1. \A u \in Pointers : local'[u] # NULL =>
          local'[u] \in DOMAIN heap' /\ heap'[local'[u]].kind = Kind(u)
    BY <1>4, <1>5, <1>6, <1>8
  <2>2. d.pkey # NULL =>
          /\ d.pkey \in DOMAIN heap' /\ heap'[d.pkey].kind = "EVP_PKEY"
          /\ heap'[d.pkey].ec # NULL
    BY <1>4, <1>5, <1>6
  <2>3. \A u, v \in Pointers : u # v /\ local'[u] # NULL => local'[u] # local'[v]
    BY <1>8 DEF HeapOk, PointerInv
  <2>4. ctx'.pkey # NULL => ctx'.pkey # own'.pkey
    BY <1>7
  <2> QED
    BY <1>5, <1>7, <1>8, <2>1, <2>2, <2>3, <2>4 DEF HeapOk, PointerInv, IsObject
<1>10. KeyInv'
  <2>1. local'.pkey = NULL /\ local'.ec_key = NULL
    BY <1>8
  <2>2. ASSUME NEW n \in DOMAIN heap', heap'[n].kind = "EVP_PKEY"
        PROVE  /\ n \in DOMAIN heap /\ heap'[n] = heap[n] /\ heap[n].ec # NULL /\ n # NULL
               /\ heap[n].ec \in DOMAIN heap' /\ heap[heap[n].ec].kind = "EC_KEY"
               /\ \A m \in DOMAIN heap :
                    heap[m].kind = "EVP_PKEY" /\ heap[m].ec = heap[n].ec => m = n
    <3>1. n \in DOMAIN heap \ gone /\ heap'[n] = heap[n] /\ n # NULL
      BY <1>5, <2>2, SizeAssumption DEF HeapInv
    <3>2. heap[n].ec # NULL
      BY <1>7, <2>2, <3>1 DEF HeapOk, KeyInv
    <3> QED
      BY <1>4, <1>5, <2>2, <3>1, <3>2 DEF HeapOk, KeyInv, IsObject
  <2> QED
    BY <1>5, <2>1, <2>2 DEF KeyInv, IsObject
<1>11. OwnedInv'
  <2>1. \A n : n \in Held' <=> (\E u \in Pointers : local'[u] = n) \/ n = d.pkey \/ n = q
    <3>1. {ctx'.pkey, own'.pkey} = {q, d.pkey}
      OBVIOUS
    <3> QED
      BY <3>1 DEF Held
  <2>2. ASSUME NEW n \in DOMAIN heap \ gone PROVE Owned(n)'
    <3>1. n # c.pkey /\ (c.pkey # NULL => n # heap[c.pkey].ec) /\ n # NULL
      BY <1>2, <2>2, SizeAssumption DEF HeapOk, HeapInv
    <3>2. CASE n \in Held
      <4>1. CASE n = q
        BY <2>1, <4>1 DEF Owned
      <4>2. CASE n = local.ec_key
        <5>1. q \in Held' \ {NULL} /\ heap'[q].kind = "EVP_PKEY" /\ heap'[q].ec = n
          BY <1>5, <1>7, <2>1, <3>1, <4>2
        <5> QED
          BY <5>1 DEF Owned
      <4>3. CASE n # q /\ n # local.ec_key
        <5>1. (\E u \in Pointers : local'[u] = n) \/ n = d.pkey
          BY <1>8, <3>1, <3>2, <4>3 DEF Held
        <5> QED
          BY <2>1, <5>1 DEF Owned
      <4> QED
        BY <4>1, <4>2, <4>3
    <3>3. CASE n \notin Held
      <4>1. PICK m \in Held \ {NULL} : heap[m].kind = "EVP_PKEY" /\ heap[m].ec = n
        BY <3>3 DEF HeapOk, OwnedInv, Owned
      <4>2. m # c.pkey
        BY <3>1, <4>1
      <4>3. m \in Held' /\ m \in DOMAIN heap \ gone
        <5>1. \A u \in Pointers : local[u] = m => u = "pkey"
          BY <1>6, <4>1 DEF Kind, Pointers
        <5> QED
          BY <1>4, <1>7, <2>1, <4>1, <4>2, <5>1 DEF Held
      <4> QED
        BY <1>5, <4>1, <4>3 DEF Owned
    <3> QED
      BY <3>2, <3>3
  <2> QED
    BY <1>3, <1>5, <2>2 DEF OwnedInv
<1> QED
  BY <1>5, <1>9, <1>10, <1>11 DEF HeapOk

\* EVP_PKEY_assign_EC_KEY fails: the new EVP_PKEY goes.
LEMMA AssignFailed ==
  ASSUME HeapOk, local.pkey # NULL, At("assign"), ~At("commit")',
         Free({local.pkey}), local' = [local EXCEPT !["pkey"] = NULL],
         UNCHANGED <<ctx, own>>
  PROVE  HeapOk'
<1> DEFINE q == local.pkey
<1>1. /\ q \in DOMAIN heap /\ heap[q].kind = "EVP_PKEY" /\ heap[q].ec = NULL /\ q # NULL
      /\ ~At("commit") /\ {q} \subseteq DOMAIN heap
  BY DEF HeapOk, PointerInv, KeyInv, IsObject, Kind, Pointers, At
<1>2. heap' = [n \in DOMAIN heap \ {q} |-> heap[n]] /\ doubleFree' = FALSE
  BY <1>1, FreePlain
<1>3. /\ HeapInv' /\ DOMAIN heap' = DOMAIN heap \ {q}
      /\ \A n \in DOMAIN heap \ {q} : heap'[n] = heap[n]
  BY <1>2, Survivors
<1>4. /\ local'["pkey"] = NULL
      /\ \A u \in Pointers \ {"pkey"} : local'[u] = local[u]
      /\ local' \in [Pointers -> Nat \cup {NULL}]
  BY DEF HeapOk, PointerInv, Pointers
<1>5. PointerInv'
  <2>1. \A u \in Pointers : local'[u] # NULL =>
          local'[u] \in DOMAIN heap' /\ heap'[local'[u]].kind = Kind(u)
    BY <1>1, <1>3, <1>4 DEF HeapOk, PointerInv, IsObject, Pointers
  <2>2. ASSUME NEW c \in {ctx, own}, c.pkey # NULL
        PROVE  /\ c.pkey \in DOMAIN heap' /\ heap'[c.pkey].kind = "EVP_PKEY"
               /\ heap'[c.pkey].ec # NULL /\ c.pkey # local'.pkey
    BY <1>3, <1>4, <2>2 DEF HeapOk, PointerInv, IsObject, Pointers
  <2>3. \A u, v \in Pointers : u # v /\ local'[u] # NULL => local'[u] # local'[v]
    BY <1>4 DEF HeapOk, PointerInv
  <2> QED
    BY <1>4, <2>1, <2>2, <2>3 DEF HeapOk, PointerInv, IsObject
<1>6. KeyInv'
  <2>1. local'.pkey = NULL /\ local'.ec_key = local.ec_key
    BY <1>4 DEF Pointers
  <2>2. ASSUME NEW n \in DOMAIN heap', heap'[n].kind = "EVP_PKEY"
        PROVE  /\ n \in DOMAIN heap /\ heap'[n] = heap[n] /\ heap[n].ec # NULL /\ n # NULL
               /\ heap[n].ec \in DOMAIN heap' /\ heap[heap[n].ec].kind = "EC_KEY"
               /\ heap[n].ec # local.ec_key
               /\ \A m \in DOMAIN heap :
                    heap[m].kind = "EVP_PKEY" /\ heap[m].ec = heap[n].ec => m = n
    <3>1. n \in DOMAIN heap \ {q} /\ heap'[n] = heap[n] /\ n # NULL
      BY <1>3, <2>2, SizeAssumption DEF HeapInv
    <3>2. /\ heap[n].ec # NULL /\ heap[n].ec \in DOMAIN heap /\ heap[heap[n].ec].kind = "EC_KEY"
          /\ heap[n].ec # local.ec_key
          /\ \A m \in DOMAIN heap :
               heap[m].kind = "EVP_PKEY" /\ heap[m].ec = heap[n].ec => m = n
      BY <1>1, <2>2, <3>1 DEF HeapOk, KeyInv, IsObject
    <3> QED
      BY <1>1, <1>3, <3>1, <3>2
  <2> QED
    BY <1>3, <2>1, <2>2 DEF KeyInv, IsObject
<1>7. OwnedInv'
  <2>1. \A n : n # NULL /\ n # q /\ n \in Held => n \in Held'
    BY <1>4 DEF Held
  <2>2. ASSUME NEW n \in DOMAIN heap \ {q} PROVE Owned(n)'
    <3>1. n # NULL
      BY SizeAssumption DEF HeapOk, HeapInv
    <3>2. CASE n \in Held
      BY <2>1, <2>2, <3>1, <3>2 DEF Owned
    <3>3. CASE n \notin Held
      <4>1. PICK m \in Held \ {NULL} : heap[m].kind = "EVP_PKEY" /\ heap[m].ec = n
        BY <3>3 DEF HeapOk, OwnedInv, Owned
      <4>2. m # q /\ m \in DOMAIN heap
        BY <1>1, <3>1, <4>1 DEF Held, HeapOk, PointerInv, IsObject
      <4> QED
        BY <1>3, <2>1, <4>1, <4>2 DEF Owned
    <3> QED
      BY <3>2, <3>3
  <2> QED
    BY <1>2, <1>3, <2>2 DEF OwnedInv
<1> QED
  BY <1>3, <1>5, <1>6, <1>7 DEF HeapOk

\* EVP_PKEY_keygen succeeds: an EVP_PKEY that has its EC_KEY at once.
LEMMA Generated ==
  ASSUME HeapOk, ~At("commit"), At("commit")', local.pkey = NULL, local.ec_key = NULL,
         NEW e \in Nat \ DOMAIN heap, NEW q \in Nat \ (DOMAIN heap \cup {e}),
         NEW k \in [kind : {"EC_KEY"}, priv : PrivateKeys \cup {None},
                    pub : {Pub(d) : d \in PrivateKeys} \cup {None, Infinity}],
         DOMAIN heap' = DOMAIN heap \cup {e, q}, heap' = [n \in DOMAIN heap' |-> heap'[n]],
         heap'[e] = k, heap'[q] = Pkey(e), \A n \in DOMAIN heap : heap'[n] = heap[n],
         local' = [local EXCEPT !["pkey"] = q], UNCHANGED <<ctx, own, doubleFree>>
  PROVE  HeapOk'
<1>1. /\ heap'[q].kind = "EVP_PKEY" /\ heap'[q].ec = e /\ heap'[e].kind = "EC_KEY"
      /\ heap'[q] \in Objects /\ heap'[e] \in Objects
      /\ e # NULL /\ q # NULL /\ e # q
  BY SizeAssumption DEF Pkey, Objects
<1>2. HeapInv'
  <2>1. IsFiniteSet((DOMAIN heap \cup {e}) \cup {q})
    BY FS_AddElement DEF HeapOk, HeapInv
  <2>2. DOMAIN heap' = (DOMAIN heap \cup {e}) \cup {q}
    OBVIOUS
  <2> QED
    BY <1>1, <2>1, <2>2 DEF HeapOk, HeapInv
<1>3. /\ local'["pkey"] = q
      /\ \A u \in Pointers \ {"pkey"} : local'[u] = local[u]
      /\ local' \in [Pointers -> Nat \cup {NULL}]
  BY DEF HeapOk, PointerInv, Pointers
<1>4. \A u \in Pointers : local[u] # NULL =>
        local[u] \in DOMAIN heap /\ heap[local[u]].kind = Kind(u)
  BY DEF HeapOk, PointerInv, IsObject
<1>5. PointerInv'
  <2>1. \A u \in Pointers : local'[u] # NULL =>
          local'[u] \in DOMAIN heap' /\ heap'[local'[u]].kind = Kind(u)
    BY <1>1, <1>3, <1>4 DEF Kind
  <2>2. ASSUME NEW c \in {ctx, own}, c.pkey # NULL
        PROVE  /\ c.pkey \in DOMAIN heap' /\ heap'[c.pkey].kind = "EVP_PKEY"
               /\ heap'[c.pkey].ec # NULL /\ c.pkey # local'.pkey
    BY <1>3, <2>2 DEF HeapOk, PointerInv, IsObject, Pointers
  <2>3. \A u, v \in Pointers : u # v /\ local'[u] # NULL => local'[u] # local'[v]
    BY <1>3, <1>4 DEF HeapOk, PointerInv
  <2> QED
    BY <1>3, <2>1, <2>2, <2>3 DEF HeapOk, PointerInv, IsObject
<1>6. KeyInv'
  <2>1. local'.pkey = q /\ local'.ec_key = NULL
    BY <1>3 DEF Pointers
  <2>2. ASSUME NEW n \in DOMAIN heap, heap[n].kind = "EVP_PKEY"
        PROVE  /\ heap[n].ec # NULL /\ heap[n].ec \in DOMAIN heap
               /\ heap[heap[n].ec].kind = "EC_KEY" /\ n # NULL
               /\ \A m \in DOMAIN heap :
                    heap[m].kind = "EVP_PKEY" /\ heap[m].ec = heap[n].ec => m = n
    BY <2>2, SizeAssumption DEF HeapOk, HeapInv, KeyInv, IsObject
  <2> QED
    BY <1>1, <2>1, <2>2 DEF KeyInv, IsObject
<1>7. OwnedInv'
  <2>1. \A n : n # NULL /\ n \in Held => n \in Held'
    BY <1>3 DEF Held
  <2>2. ASSUME NEW n \in DOMAIN heap PROVE Owned(n)'
    <3>1. n # NULL
      BY SizeAssumption DEF HeapOk, HeapInv
    <3>2. CASE n \in Held
      BY <2>1, <3>1, <3>2 DEF Owned
    <3>3. CASE n \notin Held
      <4>1. PICK m \in Held \ {NULL} : heap[m].kind = "EVP_PKEY" /\ heap[m].ec = n
        BY <3>3 DEF HeapOk, OwnedInv, Owned
      <4>2. m \in DOMAIN heap
        BY <1>4, <4>1 DEF Held, HeapOk, PointerInv, IsObject
      <4> QED
        BY <2>1, <4>1, <4>2 DEF Owned
    <3> QED
      BY <3>2, <3>3
  <2>3. q \in Held' \ {NULL}
    BY <1>1, <1>3 DEF Held, Pointers
  <2>4. Owned(q)' /\ Owned(e)'
    BY <1>1, <2>3 DEF Owned
  <2> QED
    BY <2>2, <2>4 DEF HeapOk, OwnedInv
<1> QED
  BY <1>2, <1>5, <1>6, <1>7 DEF HeapOk

-----------------------------------------------------------------------------
(* The invariant *)

IInv ==
  ControlInv /\ HeapOk /\ KeyValueInv /\ ViewInv /\ LenInv /\ GotInv /\ FlagsAgree

\* Where a step can lead.
LEMMA Moves ==
  ASSUME ControlInv, NEW g, At(g), Done \/ Fail, call' = call
  PROVE  /\ At("commit")' => g \in {"assign", "keygen"} /\ Done
         /\ At("derived")' => g = "set_public"
         /\ At("priv_bn")' => g = "new_key"
         /\ At("set_private")' => g = "priv_bn"
         /\ At("set_public")' => g \in {"mul", "free_xy"} /\ Done
         /\ At("op")' /\ call.fn = "sm2_sign" => g = "room" /\ Done
         /\ call.fn = "sm2_derive_public_key" /\ (At("point_new") \/ At("mul") \/ At("set_public"))' =>
              g \in {"point_new", "mul"}
         /\ Idle' => g \in {"cleanup", "free_own"}
<1>1. Runs(call.fn, g)
  BY AtStep
<1>2. CASE Done
  <2>1. /\ \A h : At(h)' => Follows(call.fn, g, h)
        /\ Idle' => g \in {"cleanup", "free_own"}
    BY <1>2, AfterDone
  <2>2. /\ Follows(call.fn, g, "commit") => g \in {"assign", "keygen"}
        /\ Follows(call.fn, g, "derived") => g = "set_public"
        /\ Follows(call.fn, g, "priv_bn") => g = "new_key"
        /\ Follows(call.fn, g, "set_private") => g = "priv_bn"
        /\ Follows(call.fn, g, "set_public") => g \in {"mul", "free_xy"}
        /\ Follows(call.fn, g, "op") /\ call.fn = "sm2_sign" => g = "room"
        /\ call.fn = "sm2_derive_public_key" =>
             /\ ~Follows(call.fn, g, "point_new")
             /\ Follows(call.fn, g, "mul") => g = "point_new"
             /\ Follows(call.fn, g, "set_public") => g = "mul"
    BY <1>1 DEF Follows, Runs, TakesPrivate, TakesPublic, CoordSteps
  <2> QED
    BY <1>2, <2>1, <2>2
<1>3. CASE Fail
  BY <1>3, AfterFail
<1> QED
  BY <1>2, <1>3

LEMMA KeyObjects ==
  ASSUME HeapOk, NEW c \in {ctx, own}, c.pkey # NULL
  PROVE  /\ c.pkey \in DOMAIN heap /\ heap[c.pkey].kind = "EVP_PKEY"
         /\ heap[c.pkey].ec \in DOMAIN heap /\ heap[heap[c.pkey].ec].kind = "EC_KEY"
         /\ KeyOf(c) = heap[heap[c.pkey].ec]
         /\ \A v \in Pointers : local[v] # c.pkey /\ local[v] # heap[c.pkey].ec
<1>1. /\ c.pkey \in DOMAIN heap /\ heap[c.pkey].kind = "EVP_PKEY" /\ heap[c.pkey].ec # NULL
      /\ c.pkey # local.pkey
  BY DEF HeapOk, PointerInv, IsObject
<1>2. /\ heap[c.pkey].ec \in DOMAIN heap /\ heap[heap[c.pkey].ec].kind = "EC_KEY"
      /\ heap[c.pkey].ec # local.ec_key
  BY <1>1 DEF HeapOk, KeyInv, IsObject
<1>3. ASSUME NEW v \in Pointers PROVE local[v] # c.pkey /\ local[v] # heap[c.pkey].ec
  <2>1. local[v] # NULL => local[v] \in DOMAIN heap /\ heap[local[v]].kind = Kind(v)
    BY DEF HeapOk, PointerInv, IsObject
  <2>2. heap[c.pkey].ec # NULL
    BY <1>1
  <2>3. Kind(v) = "EVP_PKEY" => v = "pkey"
    BY DEF Kind, Pointers
  <2>4. Kind(v) = "EC_KEY" => v = "ec_key"
    BY DEF Kind, Pointers
  <2> QED
    BY <1>1, <1>2, <2>1, <2>2, <2>3, <2>4
<1> QED
  BY <1>1, <1>2, <1>3 DEF KeyOf

\* What a function does to the objects of its own does not reach the keys of the
\* contexts.
LEMMA KeysKept ==
  ASSUME HeapOk, ctx'.pkey = ctx.pkey, own'.pkey = own.pkey,
         \A n \in DOMAIN heap : (\A v \in Pointers : local[v] # n) => heap'[n] = heap[n]
  PROVE  KeyOf(ctx)' = KeyOf(ctx) /\ KeyOf(own)' = KeyOf(own)
<1>1. ctx.pkey # NULL => heap'[ctx.pkey] = heap[ctx.pkey] /\ heap'[heap[ctx.pkey].ec] = heap[heap[ctx.pkey].ec]
  BY KeyObjects
<1>2. own.pkey # NULL => heap'[own.pkey] = heap[own.pkey] /\ heap'[heap[own.pkey].ec] = heap[heap[own.pkey].ec]
  BY KeyObjects
<1> QED
  BY <1>1, <1>2 DEF KeyOf

\* Steps that leave contexts and keys alone.
LEMMA ContextsKept ==
  ASSUME IInv, NEW g, At(g), g # "derived", Done \/ Fail, UNCHANGED <<call, ctx, own, before, got>>,
         KeyOf(ctx)' = KeyOf(ctx), KeyOf(own)' = KeyOf(own), ret' \in {ret, 0}, len' \in Nat
  PROVE  ViewInv' /\ GotInv' /\ FlagsAgree'
<1>1. View(ctx)' = View(ctx)
  BY DEF View
<1>2. GotInv' /\ FlagsAgree'
  BY DEF IInv, GotInv, FlagsAgree
<1>3. /\ call.fn = "sm2_derive_public_key" /\ (At("point_new") \/ At("mul") \/ At("set_public"))' =>
           View(ctx) = before
  BY Moves DEF IInv, ViewInv
<1>4. ~At("derived")
  BY DEF At
<1> QED
  BY <1>1, <1>2, <1>3, <1>4 DEF IInv, ViewInv, Standalone

LEMMA LenKept ==
  ASSUME IInv, NEW g, At(g), g \notin {"cleanup", "free_own"}, Done \/ Fail,
         g # "room" \/ Fail, UNCHANGED <<call, ret, len>>
  PROVE  LenInv' /\ ret = -1
<1>1. ret = -1
  BY DEF IInv, LenInv, At, Idle
<1>2. ~(At("op")' /\ call.fn = "sm2_sign")
  <2>1. Fail => ~At("op")'
    BY AfterFail
  <2> QED
    BY <2>1, Moves DEF IInv
<1> QED
  BY <1>1, <1>2 DEF IInv, LenInv, Standalone

\* Steps that leave the objects alone and build no key.
LEMMA ValuesKept ==
  ASSUME IInv, NEW g, At(g), g \notin {"new_key", "priv_bn", "mul", "free_xy"} \/ Fail,
         Done \/ Fail, UNCHANGED <<call, heap, local>>
  PROVE  KeyValueInv'
<1>1. ~At("priv_bn")' /\ ~At("set_private")' /\ ~At("set_public")'
  <2>1. Fail => ~At("priv_bn")' /\ ~At("set_private")' /\ ~At("set_public")'
    BY AfterFail
  <2> QED
    BY <2>1, Moves DEF IInv
<1> QED
  BY <1>1 DEF IInv, KeyValueInv

\* A step that changes neither objects nor pointers nor contexts.
LEMMA Quiet ==
  ASSUME IInv, NEW g, At(g), g \notin {"cleanup", "free_own", "commit", "derived"},
         \/ Fail /\ g \notin {"assign"} \cup CoordSteps
         \/ Done /\ g \in {"keygen_init", "op_init", "op", "query", "room"},
         UNCHANGED <<ctx, own, heap, local, doubleFree, call, before, got>>,
         ret' \in {ret, 0}, len' \in Nat, LenInv'
  PROVE  IInv'
<1>1. ControlInv'
  <2>1. CASE Fail /\ g \notin {"assign"} \cup CoordSteps
    <3>1. local.x = NULL /\ local.y = NULL
      BY <2>1, NoCoordinates DEF IInv, CoordSteps
    <3> QED
      BY <2>1, <3>1, ControlFail, NoPkey DEF IInv
  <2>2. CASE Done /\ g \in {"keygen_init", "op_init", "op", "query", "room"}
    <3>1. g \notin Creates /\ g \notin {"cleanup", "free_own", "commit"}
      BY <2>2 DEF Creates
    <3>2. g \notin CoordSteps
      BY <2>2 DEF CoordSteps
    <3> QED
      BY <2>2, <3>1, <3>2, ControlDone DEF IInv
  <2> QED
    BY <2>1, <2>2
<1>2. HeapOk'
  <2>1. ~At("commit") /\ ~At("commit")'
    <3>1. Fail => ~At("commit")'
      BY AfterFail
    <3> QED
      BY <3>1, Moves DEF IInv, At
  <2> QED
    BY <2>1, Untouched DEF IInv, HeapOk, PointerInv
<1>3. KeyValueInv'
  BY ValuesKept
<1>4. ViewInv' /\ GotInv' /\ FlagsAgree'
  <2>1. KeyOf(ctx)' = KeyOf(ctx) /\ KeyOf(own)' = KeyOf(own)
    BY DEF KeyOf
  <2> QED
    BY <2>1, ContextsKept
<1> QED
  BY <1>1, <1>2, <1>3, <1>4 DEF IInv

-----------------------------------------------------------------------------
(* Every step preserves it *)

LEMMA FailQuiet ==
  ASSUME IInv, NEW g, At(g), g \notin {"cleanup", "free_own", "commit", "derived", "assign"} \cup CoordSteps,
         Fail, UNCHANGED <<ctx, own, heap, local, doubleFree>>, UNCHANGED Kept
  PROVE  IInv'
<1>1. LenInv' /\ ret' = ret /\ len' \in Nat
  BY LenKept DEF Kept, IInv, ViewInv
<1> QED
  BY <1>1, Quiet DEF Kept

LEMMA Creation ==
  ASSUME IInv, NEW g \in Creates \ {"keygen"}, NEW object \in Objects, NEW v, v = Made(g),
         Create(g, v, object), object.kind = Kind(v),
         object.kind = "EVP_PKEY" => object.ec = NULL,
         v = "ec_key" => object.priv = None /\ object.pub = None,
         v = "priv_bn" => object.value \in PrivateKeys,
         v = "pub_point" => object.value \in PublicKeys
  PROVE  IInv'
<1>1. At(g) /\ g \notin {"cleanup", "free_own", "commit", "derived", "assign", "room"} \cup CoordSteps
  BY DEF Create, Creates, CoordSteps
<1>2. UNCHANGED <<ctx, own, doubleFree, call, ret, len, before, got>>
  BY DEF Create, Kept
<1>3. CASE Fail /\ UNCHANGED <<heap, local>>
  BY <1>1, <1>2, <1>3, FailQuiet DEF Kept
<1>4. CASE Done /\ heap' = Allocated(Address, object) /\ local' = [local EXCEPT ![v] = Address]
  <2> DEFINE a == Address
  <2>1. a \in Nat \ DOMAIN heap /\ a # NULL
    BY AddressFresh, SizeAssumption DEF IInv, HeapOk
  <2>2. heap' = Allocated(a, object) /\ local' = [local EXCEPT ![v] = a]
    BY <1>4
  <2> HIDE DEF a
  <2>3. /\ Runs(call.fn, g) /\ g \in StepNames /\ call.fn \in DOMAIN Steps
        /\ \A u \in Pointers : local[u] # NULL <=> u \in Holding(call.fn, g)
    BY <1>1, AtStep DEF IInv
  <2>4. v \in Pointers /\ local[v] = NULL
    BY <2>3, HoldingFacts
  <2>5. ~At("commit") /\ ~At("commit")'
    BY <1>1, <1>2, <1>4, Moves DEF IInv, At, Creates
  <2>6. HeapOk'
    BY <1>2, <2>1, <2>2, <2>4, <2>5, NewObject DEF IInv
  <2>7. /\ DOMAIN heap' = DOMAIN heap \cup {a} /\ heap'[a] = object
        /\ \A n \in DOMAIN heap : heap'[n] = heap[n] /\ n # a
    BY <2>1, <2>2, AllocatedHeap DEF IInv, HeapOk
  <2>8. /\ local'[v] = a /\ \A u \in Pointers : u # v => local'[u] = local[u]
        /\ local \in [Pointers -> Nat \cup {NULL}]
    BY <2>2, <2>4 DEF IInv, HeapOk, PointerInv
  <2>9. ControlInv'
    <3>1. \A u \in Pointers : local'[u] # NULL <=> local[u] # NULL \/ (g \in Creates /\ u = Made(g))
      BY <2>1, <2>4, <2>8
    <3> QED
      BY <1>1, <1>2, <1>4, <3>1, ControlDone DEF IInv
  <2>10. ViewInv' /\ GotInv' /\ FlagsAgree'
    <3>1. KeyOf(ctx)' = KeyOf(ctx) /\ KeyOf(own)' = KeyOf(own)
      BY <1>2, <2>7, KeysKept DEF IInv
    <3> QED
      BY <1>1, <1>2, <1>4, <3>1, ContextsKept DEF IInv, ViewInv
  <2>11. LenInv'
    BY <1>1, <1>2, <1>4, LenKept
  <2>12. KeyValueInv'
    <3>1. \A u \in Pointers : u # v /\ local[u] # NULL =>
            local[u] \in DOMAIN heap /\ heap'[local[u]] = heap[local[u]]
      BY <2>7 DEF IInv, HeapOk, PointerInv, IsObject
    <3>2. /\ \A n \in DOMAIN heap' : heap'[n].kind = "EC_KEY" => SoundKey(heap'[n])
      <4>1. object.kind = "EC_KEY" => v = "ec_key"
        BY <2>4 DEF Kind, Pointers
      <4> QED
        BY <2>7, <4>1 DEF IInv, KeyValueInv, SoundKey
    <3>3. local'.priv_bn # NULL => heap'[local'.priv_bn].value \in PrivateKeys
      BY <2>7, <2>8, <3>1 DEF IInv, KeyValueInv, Pointers
    <3>4. local'.pub_point # NULL => heap'[local'.pub_point].value \in PublicKeys
      BY <2>7, <2>8, <3>1 DEF IInv, KeyValueInv, Pointers
    <3>5. ASSUME At("priv_bn")' \/ At("set_private")'
          PROVE  heap'[local'.ec_key].priv = None /\ heap'[local'.ec_key].pub = None
      <4>1. g = "new_key" \/ g = "priv_bn"
        BY <1>1, <1>2, <1>4, <3>5, Moves DEF IInv
      <4>2. CASE g = "new_key"
        BY <2>7, <2>8, <4>2 DEF Made
      <4>3. CASE g = "priv_bn"
        <5>1. v = "priv_bn" /\ local.ec_key # NULL
          BY <2>3, <4>3 DEF Made, Holding, Runs, Pointers
        <5> QED
          BY <1>1, <2>8, <3>1, <4>3, <5>1 DEF IInv, KeyValueInv, Pointers
      <4> QED
        BY <4>1, <4>2, <4>3
    <3>6. local'.ec_key # NULL /\ call'.fn \in TakesPublic => heap'[local'.ec_key].priv = None
      BY <1>2, <2>7, <2>8, <3>1 DEF IInv, KeyValueInv, Pointers
    <3>7. ~At("set_public")'
      BY <1>1, <1>2, <1>4, Moves DEF IInv, Creates, CoordSteps
    <3> QED
      BY <3>2, <3>3, <3>4, <3>5, <3>6, <3>7 DEF KeyValueInv
  <2> QED
    BY <2>6, <2>9, <2>10, <2>11, <2>12 DEF IInv
<1> QED
  BY <1>3, <1>4 DEF Create

LEMMA CreateSteps ==
  ASSUME IInv,
         NewKey \/ PrivBn \/ PointNew \/ PkeyNew \/ PctxNew \/ MdctxNew
  PROVE  IInv'
<1>1. CASE NewKey
  <2> DEFINE object == EcKey(None, None)
  <2>1. object \in Objects /\ object.kind = "EC_KEY" /\ object.priv = None /\ object.pub = None
    BY DEF EcKey, Objects
  <2>2. "new_key" \in Creates \ {"keygen"} /\ Made("new_key") = "ec_key" /\ Kind("ec_key") = "EC_KEY"
    BY DEF Creates, Made, Kind
  <2>3. Create("new_key", "ec_key", object)
    BY <1>1 DEF NewKey
  <2> HIDE DEF object
  <2> QED
    BY <2>1, <2>2, <2>3, Creation
<1>2. CASE PrivBn
  <2> DEFINE object == Other(call.key)
  <2>1. call.key \in PrivateKeys
    <3>1. Runs(call.fn, "priv_bn")
      BY <1>2, AtStep DEF PrivBn, Create, IInv
    <3> QED
      BY <1>2, <3>1, AtStep DEF PrivBn, Create, IInv, Runs
  <2>2. object \in Objects /\ object.kind = "other" /\ object.value \in PrivateKeys
    BY <2>1 DEF Other, Objects
  <2>3. "priv_bn" \in Creates \ {"keygen"} /\ Made("priv_bn") = "priv_bn" /\ Kind("priv_bn") = "other"
    BY DEF Creates, Made, Kind
  <2>4. Create("priv_bn", "priv_bn", object)
    BY <1>2 DEF PrivBn
  <2> HIDE DEF object
  <2> QED
    BY <2>2, <2>3, <2>4, Creation
<1>3. CASE PointNew
  <2> DEFINE object == Other(Infinity)
  <2>1. object \in Objects /\ object.kind = "other" /\ object.value \in PublicKeys
    BY DEF Other, Objects, PublicKeys
  <2>2. "point_new" \in Creates \ {"keygen"} /\ Made("point_new") = "pub_point" /\ Kind("pub_point") = "other"
    BY DEF Creates, Made, Kind
  <2>3. Create("point_new", "pub_point", object)
    BY <1>3 DEF PointNew
  <2> HIDE DEF object
  <2> QED
    BY <2>1, <2>2, <2>3, Creation
<1>4. CASE PkeyNew
  <2> DEFINE object == Pkey(NULL)
  <2>1. object \in Objects /\ object.kind = "EVP_PKEY" /\ object.ec = NULL
    BY DEF Pkey, Objects
  <2>2. "pkey_new" \in Creates \ {"keygen"} /\ Made("pkey_new") = "pkey" /\ Kind("pkey") = "EVP_PKEY"
    BY DEF Creates, Made, Kind
  <2>3. Create("pkey_new", "pkey", object)
    BY <1>4 DEF PkeyNew
  <2> HIDE DEF object
  <2> QED
    BY <2>1, <2>2, <2>3, Creation
<1>5. CASE PctxNew \/ MdctxNew
  <2> DEFINE object == Other(None)
  <2>1. object \in Objects /\ object.kind = "other"
    BY DEF Other, Objects
  <2>2. PICK g \in {"pctx_new", "mdctx_new"} : Create(g, "pctx", object)
    BY <1>5 DEF PctxNew, MdctxNew
  <2>3. g \in Creates \ {"keygen"} /\ Made(g) = "pctx" /\ Kind("pctx") = "other"
    BY <2>2 DEF Creates, Made, Kind
  <2> HIDE DEF object
  <2> QED
    BY <2>1, <2>2, <2>3, Creation
<1> QED
  BY <1>1, <1>2, <1>3, <1>4, <1>5

\* In point_from_bytes.
LEMMA CoordFacts ==
  ASSUME ControlInv, NEW g \in CoordSteps, At(g)
  PROVE  /\ call.fn \in TakesPublic /\ ~Idle /\ call.fn # "sm2_derive_public_key"
         /\ Holding(call.fn, g) = {"ec_key"}
         /\ local.ec_key # NULL
         /\ \A v \in Pointers : local[v] # NULL => v \in {"ec_key"} \cup Maybe(g)
<1>1. call.fn \in TakesPublic /\ ~Idle /\ g \in StepNames
  BY AtStep DEF Runs, StepNames, CoordSteps
<1>2. Holding(call.fn, g) = {"ec_key"}
  BY <1>1 DEF Holding, CoordSteps, TakesPublic, TakesPrivate, Pointers
<1>3. \A v \in Pointers : /\ v \in Holding(call.fn, g) => local[v] # NULL
                          /\ local[v] # NULL => v \in Holding(call.fn, g) \cup Maybe(g)
  BY AtStep
<1>4. local.ec_key # NULL
  <2>1. "ec_key" \in Pointers /\ "ec_key" \in Holding(call.fn, g)
    BY <1>2 DEF Pointers
  <2>2. local["ec_key"] # NULL
    BY <1>3, <2>1
  <2> QED
    BY <2>2
<1>5. call.fn # "sm2_derive_public_key"
  BY <1>1 DEF TakesPublic
<1> QED
  BY <1>1, <1>2, <1>3, <1>4, <1>5

\* A number or a point is made, or is not, and point_from_bytes goes on.
LEMMA Coordinating ==
  ASSUME IInv, NEW g \in {"x_new", "y_new", "from_bytes"}, At(g),
         NEW v, v = IF g = "x_new" THEN "x" ELSE IF g = "y_new" THEN "y" ELSE "pub_point",
         NEW object \in Objects, object.kind = "other",
         v = "pub_point" => object.value \in PublicKeys,
         \/ heap' = Allocated(Address, object) /\ local' = [local EXCEPT ![v] = Address]
         \/ UNCHANGED <<heap, local>>,
         Done, UNCHANGED <<ctx, own, doubleFree>>, UNCHANGED Kept
  PROVE  IInv'
<1> DEFINE h == IF g = "x_new" THEN "y_new" ELSE IF g = "y_new" THEN "from_bytes" ELSE "free_xy"
<1>1. /\ call.fn \in TakesPublic /\ ~Idle /\ call.fn # "sm2_derive_public_key"
      /\ local.ec_key # NULL
      /\ \A u \in Pointers : local[u] # NULL => u \in {"ec_key"} \cup Maybe(g)
  BY CoordFacts DEF IInv, CoordSteps
<1>2. UNCHANGED <<call, ctx, own, doubleFree, ret, len, before, got>>
  BY DEF Kept
<1>3. /\ Program(call.fn, todo') /\ ~Idle' /\ At(h)' /\ \A k : At(k)' => k = h
  <2>1. /\ Program(call.fn, todo') /\ ~Idle'
        /\ \A k : At(k)' => Follows(call.fn, g, k)
    BY <1>2, AfterDone DEF IInv
  <2>2. \A k : Follows(call.fn, g, k) => k = h
    BY DEF Follows
  <2> QED
    BY <2>1, <2>2 DEF At, Idle
<1>4. /\ v \in Pointers /\ local[v] = NULL /\ v # "ec_key" /\ v # "pkey" /\ v # "priv_bn"
      /\ Maybe(h) = Maybe(g) \cup {v} /\ h \in CoordSteps
  BY <1>1 DEF Maybe, Pointers, CoordSteps
<1>5. /\ local' \in [Pointers -> Nat \cup {NULL}]
      /\ \A u \in Pointers : u # v => local'[u] = local[u]
  <2>1. local \in [Pointers -> Nat \cup {NULL}] /\ Address \in Nat
    BY AddressFresh DEF IInv, HeapOk, PointerInv
  <2> QED
    BY <1>4, <2>1
<1>6. ~At("commit") /\ ~At("commit")' /\ ~At("derived")
  BY <1>3 DEF At
<1>7. ControlInv'
  <2>1. Holding(call.fn, h) = {"ec_key"}
    BY <1>1, <1>4 DEF Holding, CoordSteps, TakesPublic, TakesPrivate, Pointers
  <2>2. \A u \in Pointers :
          /\ u \in Holding(call.fn, h) => local'[u] # NULL
          /\ local'[u] # NULL => u \in Holding(call.fn, h) \cup Maybe(h)
    BY <1>1, <1>4, <1>5, <2>1
  <2>3. Head(todo') = h /\ ~At("cleanup")'
    BY <1>3 DEF At
  <2> HIDE DEF h
  <2> QED
    BY <1>2, <1>3, <2>2, <2>3, AtStep DEF IInv, ControlInv, Standalone
<1>8. /\ HeapOk'
      /\ \A n \in DOMAIN heap : n \in DOMAIN heap' /\ heap'[n] = heap[n]
      /\ \A n \in DOMAIN heap' \ DOMAIN heap : heap'[n] = object /\ local'[v] = n
      /\ local'[v] # NULL => heap'[local'[v]] = object
  <2>1. CASE heap' = Allocated(Address, object) /\ local' = [local EXCEPT ![v] = Address]
    <3> DEFINE a == Address
    <3>1. a \in Nat \ DOMAIN heap
      BY AddressFresh DEF IInv, HeapOk
    <3>2. heap' = Allocated(a, object) /\ local' = [local EXCEPT ![v] = a]
      BY <2>1
    <3> HIDE DEF a
    <3>3. /\ DOMAIN heap' = DOMAIN heap \cup {a} /\ heap'[a] = object
          /\ \A n \in DOMAIN heap : heap'[n] = heap[n] /\ n # a
      BY <3>1, <3>2, AllocatedHeap DEF IInv, HeapOk
    <3>4. object.kind = Kind(v) /\ (object.kind = "EVP_PKEY" => object.ec = NULL)
      BY DEF Kind
    <3>5. HeapOk'
      BY <1>2, <1>4, <1>6, <3>1, <3>2, <3>4, NewObject DEF IInv
    <3>6. local'[v] = a
      BY <1>4, <3>2 DEF IInv, HeapOk, PointerInv
    <3> QED
      BY <3>3, <3>5, <3>6
  <2>2. CASE UNCHANGED <<heap, local>>
    BY <1>2, <1>4, <1>6, <2>2, Untouched DEF IInv, HeapOk, PointerInv
  <2> QED
    BY <2>1, <2>2
<1>9. KeyValueInv'
  <2>1. ~At("priv_bn")' /\ ~At("set_private")' /\ ~At("set_public")'
    BY <1>3
  <2>2. \A n \in DOMAIN heap' : heap'[n].kind = "EC_KEY" => SoundKey(heap'[n])
    BY <1>8 DEF IInv, KeyValueInv, SoundKey
  <2>3. \A u \in Pointers : u # v /\ local[u] # NULL =>
          local'[u] = local[u] /\ heap'[local[u]] = heap[local[u]]
    BY <1>5, <1>8 DEF IInv, HeapOk, PointerInv, IsObject
  <2>4. local'.priv_bn # NULL => heap'[local'.priv_bn].value \in PrivateKeys
    BY <1>4, <1>5, <2>3 DEF IInv, KeyValueInv, Pointers
  <2>5. local'.pub_point # NULL => heap'[local'.pub_point].value \in PublicKeys
    BY <1>5, <1>8, <2>3 DEF IInv, KeyValueInv, Pointers
  <2>6. local'.ec_key # NULL /\ call'.fn \in TakesPublic => heap'[local'.ec_key].priv = None
    BY <1>2, <1>4, <1>5, <2>3 DEF IInv, KeyValueInv, Pointers
  <2> QED
    BY <2>1, <2>2, <2>4, <2>5, <2>6 DEF KeyValueInv
<1>10. ViewInv' /\ GotInv' /\ FlagsAgree'
  <2>1. KeyOf(ctx)' = KeyOf(ctx) /\ KeyOf(own)' = KeyOf(own)
    BY <1>2, <1>8, KeysKept DEF IInv
  <2> QED
    BY <1>2, <2>1, ContextsKept DEF IInv, ViewInv
<1>11. LenInv'
  BY <1>2, LenKept
<1> QED
  BY <1>7, <1>8, <1>9, <1>10, <1>11 DEF IInv

LEMMA CoordinateSteps ==
  ASSUME IInv, XNew \/ YNew \/ FromBytes
  PROVE  IInv'
<1>1. CASE XNew \/ YNew
  <2> DEFINE object == Other(None)
  <2>1. object \in Objects /\ object.kind = "other"
    BY DEF Other, Objects
  <2>2. PICK g \in {"x_new", "y_new"} : Coordinate(g, IF g = "x_new" THEN "x" ELSE "y")
    BY <1>1 DEF XNew, YNew
  <2> DEFINE v == IF g = "x_new" THEN "x" ELSE "y"
  <2>3. /\ At(g) /\ Done /\ UNCHANGED <<ctx, own, doubleFree>> /\ UNCHANGED Kept
        /\ \/ heap' = Allocated(Address, object) /\ local' = [local EXCEPT ![v] = Address]
           \/ UNCHANGED <<heap, local>>
    BY <2>2 DEF Coordinate
  <2>4. /\ v = IF g = "x_new" THEN "x" ELSE IF g = "y_new" THEN "y" ELSE "pub_point"
        /\ v # "pub_point" /\ g \in {"x_new", "y_new", "from_bytes"}
    BY <2>2
  <2> HIDE DEF object, v
  <2> QED
    BY <2>1, <2>3, <2>4, Coordinating
<1>2. CASE FromBytes
  <2> DEFINE object == IF call.key # Off THEN Other(call.key) ELSE Other(Infinity)
  <2>1. At("from_bytes")
    BY <1>2 DEF FromBytes, PointMade
  <2>2. call.key \in Points
    BY <2>1, CoordFacts, AtStep DEF IInv, CoordSteps
  <2>3. object \in Objects /\ object.kind = "other" /\ object.value \in PublicKeys
    BY <2>2 DEF Other, Objects, Points, PublicKeys
  <2>4. /\ Done /\ UNCHANGED <<ctx, own, doubleFree>> /\ UNCHANGED Kept
        /\ \/ heap' = Allocated(Address, object) /\ local' = [local EXCEPT !["pub_point"] = Address]
           \/ UNCHANGED <<heap, local>>
    BY <1>2 DEF FromBytes, PointMade
  <2> HIDE DEF object
  <2> QED
    BY <2>1, <2>3, <2>4, Coordinating
<1> QED
  BY <1>1, <1>2

LEMMA FreeXYStep ==
  ASSUME IInv, FreeXY
  PROVE  IInv'
<1> DEFINE gone == {local[v] : v \in Coordinates} \ {NULL}
<1>1. /\ At("free_xy") /\ Free(gone)
      /\ IF local.pub_point = NULL THEN Fail ELSE Done
      /\ local' = [v \in Pointers |-> IF v \in Coordinates THEN NULL ELSE local[v]]
      /\ UNCHANGED <<ctx, own, call, ret, len, before, got>>
  <2>1. gone = {local.x, local.y} \ {NULL}
    BY DEF Coordinates
  <2>2. local \in [Pointers -> Nat \cup {NULL}]
    BY DEF IInv, HeapOk, PointerInv
  <2>3. local' = [local EXCEPT !["x"] = NULL, !["y"] = NULL]
    BY DEF FreeXY
  <2>4. local' = [v \in Pointers |-> IF v \in Coordinates THEN NULL ELSE local[v]]
    BY <2>2, <2>3 DEF Coordinates, Pointers
  <2> QED
    BY <2>1, <2>4 DEF FreeXY, Kept
<1>2. /\ call.fn \in TakesPublic /\ ~Idle /\ call.fn # "sm2_derive_public_key"
      /\ local.ec_key # NULL
      /\ \A u \in Pointers : local[u] # NULL => u \in {"ec_key", "x", "y", "pub_point"}
  BY <1>1, CoordFacts DEF IInv, CoordSteps, Maybe
<1>3. /\ local.pkey = NULL /\ local'.x = NULL /\ local'.y = NULL
      /\ \A u \in Pointers \ Coordinates : local'[u] = local[u]
  BY <1>1, <1>2 DEF Pointers, Coordinates
<1>4. \/ Fail
      \/ /\ Done /\ local.pub_point # NULL /\ Program(call.fn, todo') /\ ~Idle'
         /\ At("set_public")' /\ \A k : At(k)' => k = "set_public"
  <2>1. CASE local.pub_point = NULL
    BY <1>1, <2>1
  <2>2. CASE local.pub_point # NULL
    <3>1. /\ Done /\ Program(call.fn, todo') /\ ~Idle'
          /\ \A k : At(k)' => Follows(call.fn, "free_xy", k)
      BY <1>1, <2>2, AfterDone DEF IInv
    <3>2. \A k : Follows(call.fn, "free_xy", k) => k = "set_public"
      BY DEF Follows
    <3> QED
      BY <2>2, <3>1, <3>2 DEF At, Idle
  <2> QED
    BY <2>1, <2>2
<1>5. ~At("commit") /\ ~At("commit")' /\ ~At("priv_bn")' /\ ~At("set_private")'
  <2>1. Fail => \A k : At(k)' => k = "cleanup"
    BY <1>1, AfterFail
  <2> QED
    BY <1>1, <1>4, <2>1 DEF At
<1>6. HeapOk'
  <2>1. Coordinates \subseteq Pointers
    BY DEF Coordinates, Pointers
  <2> QED
    BY <1>1, <1>3, <1>5, <2>1, FrameFreed DEF IInv
<1>7. /\ DOMAIN heap' = DOMAIN heap \ gone
      /\ \A n \in DOMAIN heap \ gone : heap'[n] = heap[n]
  <2>1. gone \subseteq DOMAIN heap /\ \A n \in gone : heap[n].kind # "EVP_PKEY"
    BY DEF IInv, HeapOk, PointerInv, IsObject, Kind, Pointers, Coordinates
  <2> HIDE DEF gone
  <2>2. heap' = [n \in DOMAIN heap \ gone |-> heap[n]]
    BY <1>1, <2>1, FreePlain DEF IInv
  <2> QED
    BY <2>2
<1>8. ControlInv'
  <2>1. CASE Fail
    BY <1>1, <1>3, <2>1, ControlFail DEF IInv, Pointers, Coordinates
  <2>2. CASE ~Fail
    <3>1. /\ Done /\ local.pub_point # NULL /\ Program(call.fn, todo') /\ ~Idle'
          /\ Head(todo') = "set_public" /\ ~At("cleanup")'
      BY <1>4, <2>2 DEF At
    <3>2. Holding(call.fn, "set_public") = {"ec_key", "pub_point"} /\ Maybe("set_public") = {}
      BY <1>2 DEF Holding, Maybe, CoordSteps, TakesPublic, TakesPrivate, Pointers
    <3>3. \A u \in Pointers : local'[u] # NULL <=> u \in {"ec_key", "pub_point"}
      BY <1>2, <1>3, <3>1 DEF Pointers, Coordinates
    <3> QED
      BY <1>1, <3>1, <3>2, <3>3, AtStep DEF IInv, ControlInv, Standalone
  <2> QED
    BY <2>1, <2>2
<1>9. KeyValueInv'
  <2>1. \A u \in Pointers \ Coordinates : local[u] # NULL =>
          local[u] \in DOMAIN heap \ gone /\ heap'[local[u]] = heap[local[u]]
    <3>1. \A u \in Pointers \ Coordinates : local[u] # NULL => local[u] \in DOMAIN heap \ gone
      BY DEF IInv, HeapOk, PointerInv, IsObject, Coordinates, Pointers
    <3> QED
      BY <1>7, <3>1
  <2>2. WorkKey' = local'.ec_key
    BY <1>1, <1>2 DEF WorkKey
  <2>3. /\ local'.ec_key = local.ec_key /\ local'.priv_bn = local.priv_bn
        /\ local'.pub_point = local.pub_point
    BY <1>3 DEF Pointers, Coordinates
  <2>4. heap'[local'.ec_key].priv = None
    BY <1>2, <2>1, <2>3 DEF IInv, KeyValueInv, Pointers, Coordinates
  <2>5. local.priv_bn = NULL
    BY <1>2 DEF Pointers
  <2>6. local'.pub_point # NULL => heap'[local'.pub_point].value \in PublicKeys
    BY <2>1, <2>3 DEF IInv, KeyValueInv, Pointers, Coordinates
  <2>7. \A n \in DOMAIN heap' : heap'[n].kind = "EC_KEY" => SoundKey(heap'[n])
    BY <1>7 DEF IInv, KeyValueInv
  <2> HIDE DEF gone
  <2> QED
    BY <1>5, <2>2, <2>3, <2>4, <2>5, <2>6, <2>7 DEF KeyValueInv
<1>10. ViewInv' /\ GotInv' /\ FlagsAgree'
  <2>1. KeyOf(ctx)' = KeyOf(ctx) /\ KeyOf(own)' = KeyOf(own)
    <3>1. \A n \in DOMAIN heap : (\A v \in Pointers : local[v] # n) => heap'[n] = heap[n]
      BY <1>7 DEF Coordinates, Pointers
    <3> QED
      BY <1>1, <3>1, KeysKept DEF IInv
  <2> QED
    BY <1>1, <1>4, <2>1, ContextsKept DEF IInv, ViewInv
<1>11. LenInv'
  BY <1>1, <1>4, LenKept
<1> QED
  BY <1>6, <1>8, <1>9, <1>10, <1>11 DEF IInv

EcKeys == [kind : {"EC_KEY"}, priv : PrivateKeys \cup {None},
           pub : {Pub(d) : d \in PrivateKeys} \cup {None, Infinity}]

\* A field of one object is written.
LEMMA Written ==
  ASSUME IInv, NEW g \in {"set_private", "mul", "set_public"}, At(g), Done \/ Fail,
         NEW n \in DOMAIN heap, NEW object \in Objects, object.kind = heap[n].kind,
         heap[n].kind # "EVP_PKEY", heap' = [heap EXCEPT ![n] = object],
         UNCHANGED <<ctx, own, local, doubleFree>>, UNCHANGED Kept
  PROVE  /\ ControlInv' /\ HeapOk' /\ LenInv' /\ DOMAIN heap' = DOMAIN heap
         /\ heap'[n] = object /\ \A m \in DOMAIN heap \ {n} : heap'[m] = heap[m]
<1>1. /\ DOMAIN heap' = DOMAIN heap /\ heap'[n] = object
      /\ \A m \in DOMAIN heap \ {n} : heap'[m] = heap[m]
      /\ heap' = [m \in DOMAIN heap |-> heap'[m]]
  BY DEF IInv, HeapOk, HeapInv
<1>2. UNCHANGED <<call, ret, len, before, got>>
  BY DEF Kept
<1>3. ~At("commit") /\ ~At("commit")'
  <2>1. Fail => ~At("commit")'
    BY <1>2, AfterFail
  <2> QED
    BY <1>2, <2>1, Moves DEF IInv, At
<1>4. HeapOk'
  <2>1. \A m \in DOMAIN heap :
           /\ heap'[m] \in Objects /\ heap'[m].kind = heap[m].kind
           /\ heap[m].kind = "EVP_PKEY" => heap'[m].ec = heap[m].ec
    BY <1>1 DEF IInv, HeapOk, HeapInv
  <2>2. ctx \in Contexts /\ own \in Contexts
    BY DEF IInv, HeapOk, PointerInv
  <2> QED
    BY <1>1, <1>3, <2>1, <2>2, Rewritten DEF IInv
<1>5. ControlInv'
  <2>1. CASE Done
    <3>1. g \notin Creates /\ g \notin {"cleanup", "free_own", "commit"}
      BY DEF Creates
    <3> QED
      BY <1>2, <2>1, <3>1, ControlDone DEF IInv, CoordSteps
  <2>2. CASE Fail
    <3>1. local.pkey = NULL /\ local.x = NULL /\ local.y = NULL
      BY NoPkey, NoCoordinates DEF IInv
    <3> QED
      BY <1>2, <2>2, <3>1, ControlFail DEF IInv
  <2> QED
    BY <2>1, <2>2
<1>6. LenInv'
  BY <1>2, LenKept
<1> QED
  BY <1>1, <1>4, <1>5, <1>6

LEMMA SetPrivateKeyStep ==
  ASSUME IInv, SetPrivateKey
  PROVE  IInv'
<1> DEFINE e == local.ec_key
           b == heap[local.priv_bn].value
<1>1. At("set_private") /\ UNCHANGED <<ctx, own, local, doubleFree, call, ret, len, before, got>>
  BY DEF SetPrivateKey, Kept
<1>2. CASE UNCHANGED heap /\ Fail
  BY <1>1, <1>2, FailQuiet DEF Kept, CoordSteps
<1>3. CASE heap' = [heap EXCEPT ![e].priv = b] /\ Done
  <2>1. local.ec_key # NULL /\ local.priv_bn # NULL /\ call.fn \in TakesPrivate
    <3>1. Runs(call.fn, "set_private") /\ call.fn \in DOMAIN Steps
          /\ \A v \in Pointers : local[v] # NULL <=> v \in Holding(call.fn, "set_private")
      BY <1>1, AtStep DEF IInv, CoordSteps
    <3> QED
      BY <3>1 DEF Runs, Holding, Pointers
  <2>2. /\ e \in DOMAIN heap /\ heap[e].kind = "EC_KEY" /\ b \in PrivateKeys
        /\ \A v \in Pointers : v # "ec_key" /\ local[v] # NULL => local[v] # e
        /\ \A v \in Pointers : local[v] # NULL => local[v] \in DOMAIN heap
    BY <2>1 DEF IInv, HeapOk, PointerInv, KeyValueInv, IsObject, Kind, Pointers
  <2>3. heap[e].pub = None
    BY <1>1 DEF IInv, KeyValueInv
  <2> DEFINE object == [heap[e] EXCEPT !.priv = b]
  <2>4. heap[e] \in EcKeys
    BY <2>2 DEF IInv, HeapOk, HeapInv, Objects, EcKeys
  <2>5. object \in EcKeys /\ object.priv = b /\ object.pub = None /\ object.kind = "EC_KEY"
    BY <2>2, <2>3, <2>4 DEF EcKeys
  <2>6. object \in Objects /\ heap' = [heap EXCEPT ![e] = object]
    BY <1>3, <2>5 DEF Objects, EcKeys
  <2> HIDE DEF e, b, object
  <2>7. /\ ControlInv' /\ HeapOk' /\ LenInv' /\ DOMAIN heap' = DOMAIN heap
        /\ heap'[e] = object /\ \A m \in DOMAIN heap \ {e} : heap'[m] = heap[m]
    BY <1>1, <1>3, <2>2, <2>5, <2>6, Written DEF Kept
  <2>8. ViewInv' /\ GotInv' /\ FlagsAgree'
    <3>1. KeyOf(ctx)' = KeyOf(ctx) /\ KeyOf(own)' = KeyOf(own)
      <4>1. \A n \in DOMAIN heap : (\A v \in Pointers : local[v] # n) => heap'[n] = heap[n]
        BY <2>7 DEF Pointers, e
      <4> QED
        BY <1>1, <4>1, KeysKept DEF IInv
    <3> QED
      BY <1>1, <1>3, <3>1, ContextsKept DEF IInv, ViewInv
  <2>9. KeyValueInv'
    <3>1. \A n \in DOMAIN heap : heap'[n].kind = "EC_KEY" => SoundKey(heap'[n])
      BY <2>5, <2>7 DEF IInv, KeyValueInv, SoundKey
    <3>2. \A v \in Pointers : v # "ec_key" /\ local[v] # NULL => heap'[local[v]] = heap[local[v]]
      BY <2>2, <2>7
    <3>3. ~At("priv_bn")' /\ ~At("set_private")' /\ ~At("set_public")'
      BY <1>1, <1>3, Moves DEF IInv
    <3>4. call.fn \notin TakesPublic
      BY <2>1 DEF TakesPrivate, TakesPublic
    <3> QED
      BY <1>1, <2>7, <3>1, <3>2, <3>3, <3>4 DEF IInv, KeyValueInv, Pointers
  <2> QED
    BY <2>7, <2>8, <2>9 DEF IInv
<1> QED
  BY <1>2, <1>3 DEF SetPrivateKey

\* The EC_KEY a function works on, and its point.
LEMMA WorkKeyObject ==
  ASSUME IInv, NEW g \in {"mul", "set_public"}, At(g)
  PROVE  /\ WorkKey \in DOMAIN heap /\ heap[WorkKey].kind = "EC_KEY" /\ heap[WorkKey] \in EcKeys
         /\ local.pub_point \in DOMAIN heap /\ heap[local.pub_point].kind = "other"
         /\ local.pub_point # NULL
         /\ \A v \in Pointers \ {"pub_point"} : local[v] # local.pub_point
         /\ heap[local.pub_point].value \in PublicKeys
         /\ IF call.fn = "sm2_derive_public_key"
            THEN ctx.pkey # NULL /\ WorkKey = heap[ctx.pkey].ec /\ ~Standalone /\ own = Fresh
            ELSE local.ec_key # NULL /\ WorkKey = local.ec_key
<1>1. /\ Runs(call.fn, g) /\ call.fn \in DOMAIN Steps
      /\ \A v \in Pointers : local[v] # NULL <=> v \in Holding(call.fn, g)
      /\ call.fn = "sm2_derive_public_key" => ctx.pkey # NULL
      /\ ~Standalone => own = Fresh
  BY AtStep DEF IInv, CoordSteps
<1>2. call.fn = "sm2_derive_public_key" => ~Standalone
  BY DEF Standalone, SelfContained
<1>3. /\ local.pub_point # NULL
      /\ call.fn # "sm2_derive_public_key" => local.ec_key # NULL
  BY <1>1 DEF Runs, Holding, Pointers, TakesPrivate, TakesPublic, Steps
<1>4. /\ local.pub_point \in DOMAIN heap /\ heap[local.pub_point].kind = "other"
      /\ \A v \in Pointers \ {"pub_point"} : local[v] # local.pub_point
      /\ heap[local.pub_point].value \in PublicKeys
  BY <1>3 DEF IInv, HeapOk, PointerInv, KeyValueInv, IsObject, Kind, Pointers
<1>5. WorkKey \in DOMAIN heap /\ heap[WorkKey].kind = "EC_KEY"
  <2>1. CASE call.fn = "sm2_derive_public_key"
    BY <1>1, <2>1, KeyObjects DEF IInv, WorkKey
  <2>2. CASE call.fn # "sm2_derive_public_key"
    BY <1>3, <2>2 DEF IInv, HeapOk, PointerInv, IsObject, Kind, Pointers, WorkKey
  <2> QED
    BY <2>1, <2>2
<1>6. heap[WorkKey] \in EcKeys
  BY <1>5 DEF IInv, HeapOk, HeapInv, Objects, EcKeys
<1> QED
  BY <1>1, <1>2, <1>3, <1>4, <1>5, <1>6 DEF WorkKey

LEMMA MulStep ==
  ASSUME IInv, Mul
  PROVE  IInv'
<1> DEFINE q == local.pub_point
           k == heap[WorkKey].priv
           b == IF k = None THEN Infinity ELSE Pub(k)
<1>1. At("mul") /\ UNCHANGED <<ctx, own, local, doubleFree, call, ret, len, before, got>>
  BY DEF Mul, Kept
<1>2. CASE UNCHANGED heap /\ Fail
  BY <1>1, <1>2, FailQuiet DEF Kept, CoordSteps
<1>3. CASE heap' = [heap EXCEPT ![q].value = b] /\ Done
  <2>1. /\ WorkKey \in DOMAIN heap /\ heap[WorkKey].kind = "EC_KEY" /\ heap[WorkKey] \in EcKeys
        /\ q \in DOMAIN heap /\ heap[q].kind = "other"
        /\ \A v \in Pointers \ {"pub_point"} : local[v] # q
        /\ IF call.fn = "sm2_derive_public_key"
            THEN ctx.pkey # NULL /\ WorkKey = heap[ctx.pkey].ec /\ ~Standalone /\ own = Fresh
            ELSE local.ec_key # NULL /\ WorkKey = local.ec_key
    BY <1>1, WorkKeyObject
  <2>2. b \in PublicKeys /\ b \in Values /\ (k # None => b = Pub(k))
    <3>1. k \in PrivateKeys \cup {None}
      BY <2>1 DEF EcKeys
    <3>2. k \in PrivateKeys \ {Zero} => Pub(k) \in Points
      BY DEF Points
    <3> QED
      BY <3>1, <3>2, KeyAssumption DEF PublicKeys, Values
  <2> DEFINE object == [heap[q] EXCEPT !.value = b]
  <2>3. heap[q] \in [kind : {"other"}, value : Values]
    BY <2>1 DEF IInv, HeapOk, HeapInv, Objects, Values
  <2>4. object \in [kind : {"other"}, value : Values] /\ object.value = b /\ object.kind = "other"
    BY <2>2, <2>3
  <2>5. object \in Objects /\ heap' = [heap EXCEPT ![q] = object]
    BY <1>3, <2>4 DEF Objects, Values
  <2>6. \A v \in Pointers : local[v] # NULL => local[v] \in DOMAIN heap
    BY DEF IInv, HeapOk, PointerInv, IsObject
  <2> HIDE DEF q, k, b, object
  <2>7. /\ ControlInv' /\ HeapOk' /\ LenInv' /\ DOMAIN heap' = DOMAIN heap
        /\ heap'[q] = object /\ \A m \in DOMAIN heap \ {q} : heap'[m] = heap[m]
    <3>1. /\ q \in DOMAIN heap /\ object.kind = heap[q].kind /\ heap[q].kind # "EVP_PKEY"
          /\ object \in Objects /\ heap' = [heap EXCEPT ![q] = object]
      BY <2>1, <2>4, <2>5
    <3> QED
      BY <1>1, <1>3, <3>1, Written DEF Kept
  <2>8. ViewInv' /\ GotInv' /\ FlagsAgree'
    <3>1. KeyOf(ctx)' = KeyOf(ctx) /\ KeyOf(own)' = KeyOf(own)
      <4>1. \A n \in DOMAIN heap : (\A v \in Pointers : local[v] # n) => heap'[n] = heap[n]
        BY <2>7 DEF Pointers, q
      <4> QED
        BY <1>1, <4>1, KeysKept DEF IInv
    <3> QED
      BY <1>1, <1>3, <3>1, ContextsKept DEF IInv, ViewInv
  <2>9. KeyValueInv'
    <3>1. \A n \in DOMAIN heap : heap'[n].kind = "EC_KEY" => SoundKey(heap'[n])
      BY <2>4, <2>7 DEF IInv, KeyValueInv
    <3>2. \A v \in Pointers \ {"pub_point"} : local[v] # NULL => heap'[local[v]] = heap[local[v]]
      BY <2>1, <2>6, <2>7
    <3>3. ~At("priv_bn")' /\ ~At("set_private")'
      BY <1>1, <1>3, Moves DEF IInv
    <3>4. heap'[local'.pub_point].value = b
      BY <1>1, <2>4, <2>7 DEF q
    <3>5. WorkKey' = WorkKey /\ heap'[WorkKey] = heap[WorkKey]
      <4>1. heap'[WorkKey] = heap[WorkKey]
        BY <2>1, <2>7
      <4>2. call.fn = "sm2_derive_public_key" => heap'[ctx.pkey] = heap[ctx.pkey]
        <5>1. call.fn = "sm2_derive_public_key" => ctx.pkey \in DOMAIN heap /\ ctx.pkey # q
          BY <2>1, KeyObjects DEF IInv, q, Pointers
        <5> QED
          BY <2>7, <5>1
      <4> QED
        BY <1>1, <4>1, <4>2 DEF WorkKey
    <3>6. heap'[WorkKey'].priv # None => heap'[local'.pub_point].value = Pub(heap'[WorkKey'].priv)
      BY <2>2, <3>4, <3>5 DEF k
    <3> QED
      BY <1>1, <2>2, <2>7, <3>1, <3>2, <3>3, <3>4, <3>6 DEF IInv, KeyValueInv, Pointers
  <2> QED
    BY <2>7, <2>8, <2>9 DEF IInv
<1> QED
  BY <1>2, <1>3 DEF Mul

LEMMA SetPublicKeyStep ==
  ASSUME IInv, SetPublicKey
  PROVE  IInv'
<1> DEFINE w == WorkKey
           k == heap[w].priv
<1>1. At("set_public") /\ UNCHANGED <<ctx, own, local, doubleFree, call, ret, len, before, got>>
  BY DEF SetPublicKey, Kept
<1>2. /\ w \in DOMAIN heap /\ heap[w].kind = "EC_KEY" /\ heap[w] \in EcKeys
      /\ \A v \in Pointers : local[v] = w => v = "ec_key" \/ w = NULL
      /\ heap[local.pub_point].value \in PublicKeys
      /\ IF call.fn = "sm2_derive_public_key"
         THEN ctx.pkey # NULL /\ w = heap[ctx.pkey].ec /\ ~Standalone /\ own = Fresh
         ELSE local.ec_key # NULL /\ w = local.ec_key
  <2>1. /\ WorkKey \in DOMAIN heap /\ heap[WorkKey].kind = "EC_KEY" /\ heap[WorkKey] \in EcKeys
        /\ heap[local.pub_point].value \in PublicKeys
        /\ IF call.fn = "sm2_derive_public_key"
           THEN ctx.pkey # NULL /\ WorkKey = heap[ctx.pkey].ec /\ ~Standalone /\ own = Fresh
           ELSE local.ec_key # NULL /\ WorkKey = local.ec_key
    BY <1>1, WorkKeyObject
  <2>2. \A v \in Pointers : local[v] = WorkKey => v = "ec_key" \/ WorkKey = NULL
    BY <2>1 DEF IInv, HeapOk, PointerInv, IsObject, Kind, Pointers
  <2> QED
    BY <2>1, <2>2
<1>3. k # None => heap[local.pub_point].value = Pub(k)
  BY <1>1 DEF IInv, KeyValueInv
<1>4. PICK x \in PublicKeys \cup {None} :
        /\ heap' = [heap EXCEPT ![w].pub = x]
        /\ (Done /\ (k # None => x = Pub(k))) \/ (Fail /\ x = None)
  <2>1. CASE heap' = [heap EXCEPT ![w].pub = heap[local.pub_point].value] /\ Done
    BY <1>2, <1>3, <2>1
  <2>2. CASE heap' = [heap EXCEPT ![w].pub = None] /\ Fail
    BY <2>2
  <2> QED
    BY <2>1, <2>2 DEF SetPublicKey
<1> DEFINE object == [heap[w] EXCEPT !.pub = x]
<1>5. object \in EcKeys /\ object.pub = x /\ object.priv = k /\ object.kind = "EC_KEY"
  BY <1>2, <1>4 DEF EcKeys, PublicKeys
<1>6. object \in Objects /\ heap' = [heap EXCEPT ![w] = object]
  BY <1>4, <1>5 DEF Objects, EcKeys
<1>7. w = WorkKey /\ object = [heap[w] EXCEPT !.pub = x] /\ k = heap[w].priv
  OBVIOUS
<1> HIDE DEF w, k, object
<1>8. /\ ControlInv' /\ HeapOk' /\ LenInv' /\ DOMAIN heap' = DOMAIN heap
      /\ heap'[w] = object /\ \A m \in DOMAIN heap \ {w} : heap'[m] = heap[m]
  <2>1. /\ w \in DOMAIN heap /\ object.kind = heap[w].kind /\ heap[w].kind # "EVP_PKEY"
        /\ object \in Objects /\ heap' = [heap EXCEPT ![w] = object]
    BY <1>2, <1>5, <1>6
  <2>2. Done \/ Fail
    BY <1>4
  <2> QED
    BY <1>1, <2>1, <2>2, Written DEF Kept
<1>9. KeyValueInv'
  <2>1. \A n \in DOMAIN heap : heap'[n].kind = "EC_KEY" => SoundKey(heap'[n])
    BY <1>4, <1>5, <1>8 DEF IInv, KeyValueInv, SoundKey
  <2>2. \A v \in Pointers \ {"ec_key"} : local[v] # NULL => heap'[local[v]] = heap[local[v]]
    <3>1. \A v \in Pointers : local[v] # NULL => local[v] \in DOMAIN heap
      BY DEF IInv, HeapOk, PointerInv, IsObject
    <3>2. w # NULL
      BY <1>2, SizeAssumption DEF IInv, HeapOk, HeapInv
    <3> QED
      BY <1>2, <1>8, <3>1, <3>2
  <2>3. ~At("priv_bn")' /\ ~At("set_private")' /\ ~At("set_public")'
    BY <1>1, <1>4, Moves DEF IInv
  <2>4. local.ec_key # NULL => heap'[local.ec_key].priv = heap[local.ec_key].priv
    <3>1. local.ec_key # NULL => local.ec_key \in DOMAIN heap
      BY DEF IInv, HeapOk, PointerInv, IsObject, Pointers
    <3> QED
      BY <1>5, <1>7, <1>8, <3>1
  <2> QED
    BY <1>1, <1>8, <2>1, <2>2, <2>3, <2>4 DEF IInv, KeyValueInv, Pointers
<1>10. ViewInv' /\ GotInv' /\ FlagsAgree'
  <2>1. CASE call.fn # "sm2_derive_public_key"
    <3>1. KeyOf(ctx)' = KeyOf(ctx) /\ KeyOf(own)' = KeyOf(own)
      <4>1. \A n \in DOMAIN heap : (\A v \in Pointers : local[v] # n) => heap'[n] = heap[n]
        BY <1>2, <1>8, <2>1 DEF Pointers
      <4> QED
        BY <1>1, <4>1, KeysKept DEF IInv
    <3> QED
      BY <1>1, <1>4, <3>1, ContextsKept DEF IInv, ViewInv
  <2>2. CASE call.fn = "sm2_derive_public_key"
    <3>1. /\ KeyOf(ctx) = heap[w] /\ ctx.pkey \in DOMAIN heap /\ ctx.pkey # w
      BY <1>2, <2>2, KeyObjects DEF IInv
    <3>2. KeyOf(ctx)' = object /\ KeyOf(own)' = KeyOf(own)
      BY <1>1, <1>2, <1>8, <2>2, <3>1 DEF KeyOf, Fresh
    <3>3. object = [KeyOf(ctx) EXCEPT !.pub = x] /\ object.priv = KeyOf(ctx).priv
      BY <1>5, <1>7, <3>1
    <3>4. GotInv' /\ FlagsAgree'
      BY <1>1, <3>2, <3>3 DEF IInv, GotInv, FlagsAgree
    <3>5. View(ctx) = before
      BY <1>1, <2>2 DEF IInv, ViewInv
    <3>6. View(ctx)' = [before EXCEPT !.key.pub = x]
      BY <1>1, <3>2, <3>3, <3>5 DEF View
    <3>7. At("derived")' \/ x = None
      <4>1. CASE Fail /\ x = None
        BY <4>1
      <4>2. CASE Done
        <5>1. Follows(call.fn, "set_public", Head(todo')) /\ ~Idle'
          <6>1. /\ \A h : At(h)' => Follows(call.fn, "set_public", h)
                /\ ~Idle'
            BY <1>1, <4>2, AfterDone DEF IInv
          <6> QED
            BY <6>1 DEF At, Idle
        <5> QED
          BY <2>2, <5>1 DEF Follows, At, Idle
      <4> QED
        BY <1>4, <4>1, <4>2
    <3>8. ~(At("point_new") \/ At("mul") \/ At("set_public"))'
      BY <1>1, <1>4, <2>2, Moves DEF IInv
    <3>9. ~Standalone
      BY <1>2, <2>2
    <3> QED
      BY <1>1, <2>2, <3>4, <3>6, <3>7, <3>8, <3>9 DEF IInv, ViewInv, Standalone
  <2> QED
    BY <2>1, <2>2
<1> QED
  BY <1>8, <1>9, <1>10 DEF IInv

LEMMA AssignStep ==
  ASSUME IInv, Assign
  PROVE  IInv'
<1>1. At("assign") /\ UNCHANGED <<ctx, own, call, ret, len, before, got>>
  BY DEF Assign, Kept
<1>2. /\ local.pkey # NULL /\ local.ec_key # NULL
      /\ local.pkey \in DOMAIN heap /\ heap[local.pkey].kind = "EVP_PKEY"
      /\ \A v \in Pointers \ {"pkey"} : local[v] # NULL =>
           local[v] \in DOMAIN heap /\ local[v] # local.pkey
      /\ local \in [Pointers -> Nat \cup {NULL}]
  <2>1. /\ Runs(call.fn, "assign") /\ call.fn \in DOMAIN Steps
        /\ \A v \in Pointers : local[v] # NULL <=> v \in Holding(call.fn, "assign")
    BY <1>1, AtStep DEF IInv, CoordSteps
  <2>2. local.pkey # NULL /\ local.ec_key # NULL
    BY <2>1 DEF Runs, Holding, Pointers
  <2> QED
    BY <2>2 DEF IInv, HeapOk, PointerInv, IsObject, Kind, Pointers
<1>3. CASE /\ heap' = [heap EXCEPT ![local.pkey].ec = local.ec_key] /\ Done
           /\ UNCHANGED <<local, doubleFree>>
  <2>1. At("commit")'
    <3>1. /\ \A h : At(h)' => Follows(call.fn, "assign", h)
          /\ ~Idle'
      BY <1>1, <1>3, AfterDone DEF IInv
    <3>2. Follows(call.fn, "assign", Head(todo')) /\ ~Idle'
      BY <3>1 DEF At, Idle
    <3> QED
      BY <3>2 DEF Follows, At, Idle
  <2>2. HeapOk'
    BY <1>1, <1>2, <1>3, <2>1, Assigned DEF IInv
  <2>3. /\ DOMAIN heap' = DOMAIN heap /\ heap'[local.pkey].kind = "EVP_PKEY"
        /\ \A n \in DOMAIN heap : n # local.pkey => heap'[n] = heap[n]
    <3>1. heap[local.pkey] \in [kind : {"EVP_PKEY"}, ec : Nat \cup {NULL}]
      BY <1>2 DEF IInv, HeapOk, HeapInv, Objects
    <3>2. heap'[local.pkey] = [heap[local.pkey] EXCEPT !.ec = local.ec_key]
      BY <1>2, <1>3 DEF IInv, HeapOk, HeapInv
    <3> QED
      BY <1>2, <1>3, <3>1, <3>2 DEF IInv, HeapOk, HeapInv
  <2>4. ControlInv'
    <3>1. "assign" \notin Creates
      BY DEF Creates
    <3> QED
      BY <1>1, <1>3, <3>1, ControlDone DEF IInv, CoordSteps
  <2>5. ViewInv' /\ GotInv' /\ FlagsAgree'
    <3>1. KeyOf(ctx)' = KeyOf(ctx) /\ KeyOf(own)' = KeyOf(own)
      BY <1>1, <2>3, KeysKept DEF IInv, Pointers
    <3> QED
      BY <1>1, <1>3, <3>1, ContextsKept DEF IInv, ViewInv
  <2>6. LenInv'
    BY <1>1, <1>3, LenKept
  <2>7. KeyValueInv'
    <3>1. ~At("priv_bn")' /\ ~At("set_private")' /\ ~At("set_public")'
      BY <1>1, <1>3, Moves DEF IInv
    <3>2. \A n \in DOMAIN heap' : heap'[n].kind = "EC_KEY" => SoundKey(heap'[n])
      BY <2>3 DEF IInv, KeyValueInv
    <3>3. \A v \in Pointers \ {"pkey"} : local[v] # NULL => heap'[local[v]] = heap[local[v]]
      BY <1>2, <2>3
    <3> QED
      BY <1>1, <1>3, <3>1, <3>2, <3>3 DEF IInv, KeyValueInv, Pointers
  <2> QED
    BY <2>2, <2>4, <2>5, <2>6, <2>7 DEF IInv
<1>4. CASE Free({local.pkey}) /\ local' = [local EXCEPT !["pkey"] = NULL] /\ Fail
  <2>1. ~At("commit")'
    BY <1>1, <1>4, AfterFail
  <2>2. HeapOk'
    BY <1>1, <1>2, <1>4, <2>1, AssignFailed DEF IInv
  <2>3. /\ local'["pkey"] = NULL /\ \A v \in Pointers \ {"pkey"} : local'[v] = local[v]
    BY <1>2, <1>4 DEF Pointers
  <2>4. /\ DOMAIN heap' = DOMAIN heap \ {local.pkey}
        /\ \A n \in DOMAIN heap : n # local.pkey => heap'[n] = heap[n]
    <3>1. heap[local.pkey].ec = NULL /\ {local.pkey} \subseteq DOMAIN heap
      BY <1>1, <1>2 DEF IInv, HeapOk, KeyInv, At
    <3>2. heap' = [n \in DOMAIN heap \ {local.pkey} |-> heap[n]]
      BY <1>4, <3>1, FreePlain DEF IInv
    <3> QED
      BY <3>2
  <2>5. ControlInv'
    <3>1. local.x = NULL /\ local.y = NULL
      BY <1>1, NoCoordinates DEF IInv
    <3>2. local'.x = NULL /\ local'.y = NULL
      BY <2>3, <3>1 DEF Pointers
    <3> QED
      BY <1>1, <1>4, <2>3, <3>2, ControlFail DEF IInv
  <2>6. ViewInv' /\ GotInv' /\ FlagsAgree'
    <3>1. KeyOf(ctx)' = KeyOf(ctx) /\ KeyOf(own)' = KeyOf(own)
      BY <1>1, <2>4, KeysKept DEF IInv, Pointers
    <3> QED
      BY <1>1, <1>4, <3>1, ContextsKept DEF IInv, ViewInv
  <2>7. LenInv'
    BY <1>1, <1>4, LenKept
  <2>8. KeyValueInv'
    <3>1. ~At("priv_bn")' /\ ~At("set_private")' /\ ~At("set_public")'
      BY <1>1, <1>4, Moves DEF IInv
    <3>2. \A n \in DOMAIN heap' : heap'[n].kind = "EC_KEY" => SoundKey(heap'[n])
      BY <2>4 DEF IInv, KeyValueInv
    <3>3. \A v \in Pointers \ {"pkey"} : local[v] # NULL => heap'[local[v]] = heap[local[v]]
      BY <1>2, <2>4
    <3> QED
      BY <1>1, <2>3, <3>1, <3>2, <3>3 DEF IInv, KeyValueInv, Pointers
  <2> QED
    BY <2>2, <2>5, <2>6, <2>7, <2>8 DEF IInv
<1> QED
  BY <1>3, <1>4 DEF Assign

LEMMA KeygenStep ==
  ASSUME IInv, Keygen
  PROVE  IInv'
<1>1. At("keygen") /\ UNCHANGED <<ctx, own, doubleFree, call, ret, len, before, got>>
  BY DEF Keygen, Kept
<1>2. CASE Fail /\ UNCHANGED <<heap, local>>
  BY <1>1, <1>2, FailQuiet DEF Kept, CoordSteps
<1>3. CASE ~(Fail /\ UNCHANGED <<heap, local>>)
  <2> DEFINE e == Address
             withKey(d) == Allocated(e, EcKey(d, Pub(d)))
             q(d) == CHOOSE n \in 1 .. Cardinality(DOMAIN heap) + 2 : n \notin DOMAIN withKey(d)
  <2>1. PICK d \in PrivateKeys \ {Zero} :
          /\ heap' = [n \in DOMAIN withKey(d) \cup {q(d)} |->
                        IF n = q(d) THEN Pkey(e) ELSE withKey(d)[n]]
          /\ local' = [local EXCEPT !["pkey"] = q(d)]
          /\ Done
    BY <1>3 DEF Keygen
  <2> DEFINE k == EcKey(d, Pub(d))
             h == withKey(d)
             p == q(d)
  <2>2. e \in Nat \ DOMAIN heap
    BY AddressFresh DEF IInv, HeapOk
  <2>3. k \in EcKeys /\ SoundKey(k) /\ k.kind = "EC_KEY"
    BY DEF EcKey, EcKeys, SoundKey
  <2>4. /\ DOMAIN h = DOMAIN heap \cup {e} /\ h[e] = k
        /\ \A n \in DOMAIN heap : h[n] = heap[n] /\ n # e
    BY <2>2 DEF Allocated
  <2>5. p \in Nat \ (DOMAIN heap \cup {e})
    <3> DEFINE c == Cardinality(DOMAIN heap)
    <3>1. c \in Nat /\ IsFiniteSet(DOMAIN heap)
      BY FS_CardinalityType DEF IInv, HeapOk, HeapInv
    <3>2. IsFiniteSet(DOMAIN heap \cup {e}) /\ Cardinality(DOMAIN heap \cup {e}) = c + 1
      BY <2>2, <3>1, FS_AddElement
    <3>3. c + 2 \in Nat /\ c + 2 > Cardinality(DOMAIN heap \cup {e})
      BY <3>1, <3>2
    <3>4. \E n \in 1 .. c + 2 : n \notin DOMAIN heap \cup {e}
      BY <3>2, <3>3, AFreeNumber
    <3>5. \E n \in 1 .. c + 2 : n \notin DOMAIN h
      BY <2>4, <3>4
    <3>6. p \in 1 .. c + 2 /\ p \notin DOMAIN h
      BY <3>5
    <3> QED
      BY <2>4, <3>1, <3>6
  <2>6. /\ heap' = [n \in DOMAIN h \cup {p} |-> IF n = p THEN Pkey(e) ELSE h[n]]
        /\ local' = [local EXCEPT !["pkey"] = p] /\ Done
    BY <2>1
  <2> HIDE DEF e, k, h, p, withKey, q
  <2>7. /\ DOMAIN heap' = DOMAIN heap \cup {e, p} /\ heap' = [n \in DOMAIN heap' |-> heap'[n]]
        /\ heap'[e] = k /\ heap'[p] = Pkey(e) /\ \A n \in DOMAIN heap : heap'[n] = heap[n]
    <3>1. DOMAIN heap' = DOMAIN h \cup {p}
      BY <2>6
    <3>2. \A n \in DOMAIN heap' : heap'[n] = IF n = p THEN Pkey(e) ELSE h[n]
      BY <2>6
    <3>3. heap' = [n \in DOMAIN heap' |-> heap'[n]]
      BY <2>6
    <3>4. p # e /\ \A n \in DOMAIN heap : n # p
      BY <2>5
    <3> QED
      BY <2>4, <3>1, <3>2, <3>3, <3>4
  <2>8. /\ local.pkey = NULL /\ local.ec_key = NULL /\ local.priv_bn = NULL /\ local.pub_point = NULL
        /\ call.fn = "sm2_generate_keypair"
    <3>1. /\ Runs(call.fn, "keygen")
          /\ \A v \in Pointers : local[v] # NULL <=> v \in Holding(call.fn, "keygen")
      BY <1>1, AtStep DEF IInv, CoordSteps
    <3> QED
      BY <3>1 DEF Runs, Holding, Pointers, TakesPrivate, TakesPublic
  <2>9. At("commit")' /\ ~At("commit")
    <3>1. /\ \A g : At(g)' => Follows(call.fn, "keygen", g)
          /\ ~Idle'
      BY <1>1, <2>6, AfterDone DEF IInv
    <3>2. Follows(call.fn, "keygen", Head(todo')) /\ ~Idle'
      BY <3>1 DEF At, Idle
    <3> QED
      BY <1>1, <3>2 DEF Follows, At, Idle
  <2>10. HeapOk'
    BY <1>1, <2>2, <2>3, <2>5, <2>6, <2>7, <2>8, <2>9, Generated DEF IInv, EcKeys
  <2>11. /\ local'["pkey"] = p /\ p # NULL
         /\ \A v \in Pointers \ {"pkey"} : local'[v] = local[v]
    BY <2>5, <2>6, SizeAssumption DEF IInv, HeapOk, PointerInv, Pointers
  <2>12. ControlInv'
    <3>1. \A v \in Pointers :
            local'[v] # NULL <=> local[v] # NULL \/ ("keygen" \in Creates /\ v = Made("keygen"))
      BY <2>8, <2>11 DEF Creates, Made
    <3> QED
      BY <1>1, <2>6, <3>1, ControlDone DEF IInv, CoordSteps
  <2>13. ViewInv' /\ GotInv' /\ FlagsAgree'
    <3>1. KeyOf(ctx)' = KeyOf(ctx) /\ KeyOf(own)' = KeyOf(own)
      BY <1>1, <2>7, KeysKept DEF IInv
    <3> QED
      BY <1>1, <2>6, <3>1, ContextsKept DEF IInv, ViewInv
  <2>14. LenInv'
    BY <1>1, <2>6, LenKept
  <2>15. KeyValueInv'
    <3>1. ~At("priv_bn")' /\ ~At("set_private")' /\ ~At("set_public")'
      BY <2>9 DEF At
    <3>2. \A n \in DOMAIN heap' : heap'[n].kind = "EC_KEY" => SoundKey(heap'[n])
      BY <2>3, <2>7 DEF IInv, KeyValueInv, Pkey
    <3> QED
      BY <2>8, <2>11, <3>1, <3>2 DEF KeyValueInv, Pointers
  <2> QED
    BY <2>10, <2>12, <2>13, <2>14, <2>15 DEF IInv
<1> QED
  BY <1>2, <1>3

\* After the last OpenSSL call of a setter there is only the clean-up.
LEMMA LastCleanup ==
  ASSUME IInv, NEW g \in {"commit", "derived"}, At(g), Done, call' = call, ~Standalone
  PROVE  At("cleanup")' /\ Len(todo') <= 2 /\ ~Idle'
<1>1. /\ Program(call.fn, todo') /\ ~Idle'
      /\ \A h : At(h)' => Follows(call.fn, g, h)
  BY AfterDone DEF IInv
<1>2. At("cleanup")'
  <2>1. Follows(call.fn, g, Head(todo'))
    BY <1>1 DEF At, Idle
  <2> QED
    BY <1>1, <2>1 DEF Follows, At, Idle
<1>3. ASSUME NEW s, Program(call.fn, s), s # <<>>, Head(s) = "cleanup"
      PROVE  Len(s) = 1
  <2>1. /\ Tail(s) # <<>> => Follows(call.fn, "cleanup", Head(Tail(s)))
        /\ Len(Tail(s)) = Len(s) - 1 /\ Len(s) \in Nat \ {0}
    BY <1>3, ProgramTail
  <2>2. \A h : ~Follows(call.fn, "cleanup", h)
    BY DEF Follows, Standalone
  <2>3. Tail(s) = <<>>
    BY <2>1, <2>2
  <2>4. Len(Tail(s)) = 0
    BY <2>3, EmptySeq
  <2> DEFINE n == Len(s)
             r == Len(Tail(s))
  <2>5. r = n - 1 /\ n \in Nat \ {0} /\ r = 0
    BY <2>1, <2>4
  <2> HIDE DEF n, r
  <2>6. n = 1
    BY <2>5
  <2> QED
    BY <2>6 DEF n
<1>4. todo' # <<>> /\ Head(todo') = "cleanup"
  BY <1>2 DEF At
<1>5. Len(todo') = 1
  BY <1>1, <1>3, <1>4
<1> QED
  BY <1>1, <1>2, <1>5

LEMMA CommitStep ==
  ASSUME IInv, Commit
  PROVE  IInv'
<1> DEFINE q == local.pkey
           t == Target
           new == [pkey |-> local.pkey,
                   has_private_key |-> IF call.fn \in TakesPublic
                                       THEN Target.has_private_key ELSE 1,
                   has_public_key |-> 1]
           d == IF Standalone THEN ctx ELSE own
<1>1. /\ At("commit") /\ Done /\ UNCHANGED <<call, len, before>>
      /\ Free({t.pkey} \ {NULL}) /\ local' = HandOver
      /\ got' = IF Standalone THEN got ELSE [priv |-> None, pub |-> None]
      /\ IF Standalone THEN own' = new /\ ctx' = ctx /\ ret' = ret
         ELSE ctx' = new /\ ret' = 0 /\ own' = own
  BY DEF Commit
<1>2. /\ q # NULL /\ call.fn # "sm2_derive_public_key"
      /\ call.fn \in TakesPublic => local.ec_key # NULL
      /\ ~Standalone => own = Fresh
  <2>1. /\ Runs(call.fn, "commit") /\ call.fn \in DOMAIN Steps
        /\ \A v \in Pointers : local[v] # NULL <=> v \in Holding(call.fn, "commit")
        /\ ~Standalone => own = Fresh
    BY <1>1, AtStep DEF IInv, CoordSteps
  <2> QED
    BY <2>1 DEF Runs, Holding, Pointers
<1>3. /\ t \in {ctx, own} /\ d \in {ctx, own} /\ {t, d} = {ctx, own}
      /\ t.pkey # NULL => t.pkey # d.pkey
  BY DEF Target, IInv, HeapOk, PointerInv
<1>4. new \in Contexts /\ new.pkey = q /\ new.has_public_key = 1
      /\ (call.fn \notin TakesPublic => new.has_private_key = 1)
  <2>1. q \in Nat \cup {NULL} /\ Target.has_private_key \in {0, 1}
    BY DEF IInv, HeapOk, PointerInv, Pointers, Contexts, Target
  <2> QED
    BY <2>1 DEF Contexts
<1>5. t = Target /\ d = (IF Standalone THEN ctx ELSE own)
  OBVIOUS
<1> HIDE DEF t, new, d
<1>6. \A h : At(h)' => h = "cleanup"
  <2>1. \A h : At(h)' => Follows(call.fn, "commit", h)
    BY <1>1, AfterDone DEF IInv
  <2> QED
    BY <2>1 DEF Follows
<1>7. HeapOk'
  <2>1. ctx' \in Contexts /\ own' \in Contexts
    BY <1>1, <1>4 DEF IInv, HeapOk, PointerInv
  <2>2. \/ ctx'.pkey = local.pkey /\ own'.pkey = d.pkey
        \/ ctx'.pkey = d.pkey /\ own'.pkey = local.pkey
    BY <1>1, <1>4, <1>5
  <2>3. ~At("commit")'
    BY <1>6
  <2> QED
    BY <1>1, <1>2, <1>3, <2>1, <2>2, <2>3, Committed DEF IInv
<1> DEFINE gone == IF t.pkey = NULL THEN {} ELSE {t.pkey, heap[t.pkey].ec}
<1>8. gone = IF t.pkey = NULL THEN {} ELSE {t.pkey, heap[t.pkey].ec}
  OBVIOUS
<1> HIDE DEF gone
<1>9. /\ DOMAIN heap' = DOMAIN heap \ gone
      /\ \A n \in DOMAIN heap \ gone : heap'[n] = heap[n]
  <2>1. heap' = [n \in DOMAIN heap \ gone |-> heap[n]]
    BY <1>1, <1>3, <1>8, FreeKey DEF IInv
  <2> QED
    BY <2>1
<1>10. /\ \A u \in Pointers : local[u] # NULL => local[u] \in DOMAIN heap \ gone
       /\ d.pkey # NULL => d.pkey \in DOMAIN heap \ gone
       /\ \A n \in DOMAIN heap \ gone : heap[n].kind = "EVP_PKEY" /\ heap[n].ec # NULL =>
            heap[n].ec \in DOMAIN heap \ gone
  <2>1. HeapOk
    BY DEF IInv
  <2>2. Apart(gone, d)
    BY <1>3, <1>8, <2>1, KeyAlone
  <2> QED
    BY <2>2 DEF Apart
<1>11. /\ q \in DOMAIN heap \ gone /\ heap[q].kind = "EVP_PKEY" /\ heap[q].ec # NULL
       /\ local.ec_key # NULL => heap[q].ec = local.ec_key
  <2>1. q \in DOMAIN heap \ gone /\ heap[q].kind = "EVP_PKEY"
    BY <1>2, <1>10 DEF Pointers, IInv, HeapOk, PointerInv, IsObject, Kind
  <2> QED
    BY <1>1, <2>1 DEF IInv, HeapOk, KeyInv
<1>12. d.pkey # NULL => heap'[d.pkey] = heap[d.pkey] /\ heap'[heap[d.pkey].ec] = heap[heap[d.pkey].ec]
  <2>1. d.pkey # NULL => heap[d.pkey].kind = "EVP_PKEY" /\ heap[d.pkey].ec # NULL
    BY <1>3 DEF IInv, HeapOk, PointerInv, IsObject
  <2> QED
    BY <1>9, <1>10, <2>1
<1>13. heap'[q] = heap[q] /\ heap'[heap[q].ec] = heap[heap[q].ec]
  BY <1>9, <1>10, <1>11
<1>14. ControlInv'
  <2>1. local'.pkey = NULL /\ local'.x = NULL /\ local'.y = NULL
    <3>1. local.x = NULL /\ local.y = NULL
      BY <1>1, NoCoordinates DEF IInv
    <3> QED
      BY <1>1, <3>1 DEF HandOver, Pointers, IInv, HeapOk, PointerInv
  <2>2. ctx.pkey # NULL => ctx'.pkey # NULL
    BY <1>1, <1>2, <1>4
  <2>3. "commit" \notin {"cleanup", "free_own"} \cup CoordSteps
    BY DEF CoordSteps
  <2> QED
    BY <1>1, <2>1, <2>2, <2>3, ControlDone DEF IInv
<1>15. KeyValueInv'
  <2>1. \A n \in DOMAIN heap' : heap'[n].kind = "EC_KEY" => SoundKey(heap'[n])
    BY <1>9 DEF IInv, KeyValueInv
  <2>2. /\ local'.ec_key = NULL
        /\ \A v \in {"priv_bn", "pub_point"} : local'[v] = local[v]
    BY <1>1 DEF HandOver, Pointers, IInv, HeapOk, PointerInv
  <2>3. \A v \in {"priv_bn", "pub_point"} : local[v] # NULL => heap'[local[v]] = heap[local[v]]
    BY <1>9, <1>10 DEF Pointers
  <2>4. ~At("priv_bn")' /\ ~At("set_private")' /\ ~At("set_public")'
    BY <1>6
  <2> QED
    BY <2>1, <2>2, <2>3, <2>4 DEF IInv, KeyValueInv
<1>16. LenInv'
  <2>1. CASE Standalone
    <3>1. ret' = ret /\ "commit" \notin {"cleanup", "free_own", "room"}
      BY <1>1, <2>1
    <3> QED
      BY <1>1, <3>1, LenKept
  <2>2. CASE ~Standalone
    <3>1. At("cleanup")' /\ Len(todo') <= 2 /\ ~Idle' /\ ~At("op")'
      BY <1>1, <1>6, <2>2, LastCleanup
    <3> QED
      BY <1>1, <2>2, <3>1 DEF LenInv, Standalone, SelfContained
  <2> QED
    BY <2>1, <2>2
\* The key that was committed, in the state after.
<1>17. ASSUME NEW c, c = new
       PROVE  /\ c.has_public_key = 1 /\ c.pkey # NULL
              /\ heap'[heap'[c.pkey].ec].priv # None => c.has_private_key = 1
  <2>1. c.pkey = q /\ heap'[heap'[q].ec] = heap[heap[q].ec]
    BY <1>4, <1>13, <1>17
  <2>2. call.fn \in TakesPublic => heap[heap[q].ec].priv = None
    BY <1>2, <1>11 DEF IInv, KeyValueInv
  <2> QED
    BY <1>2, <1>4, <1>17, <2>1, <2>2
<1>18. CASE Standalone
  <2>1. /\ ctx' = ctx /\ own' = new /\ ret' = ret /\ got' = got /\ d = ctx
    BY <1>1, <1>5, <1>18
  <2>2. KeyOf(ctx)' = KeyOf(ctx)
    BY <1>12, <2>1 DEF KeyOf
  <2>3. FlagsAgree'
    <3>1. KeyOf(own)' = heap'[heap'[own'.pkey].ec]
      BY <1>17, <2>1 DEF KeyOf
    <3> QED
      BY <1>17, <2>1, <2>2, <3>1 DEF IInv, FlagsAgree
  <2>4. GotInv'
    BY <2>1, <2>2 DEF IInv, GotInv
  <2>5. ViewInv'
    <3>1. View(ctx)' = View(ctx)
      BY <2>1, <2>2 DEF View
    <3> QED
      BY <1>1, <1>2, <1>18, <2>1, <3>1 DEF IInv, ViewInv, Standalone
  <2> QED
    BY <1>7, <1>14, <1>15, <1>16, <2>3, <2>4, <2>5 DEF IInv
<1>19. CASE ~Standalone
  <2>1. /\ ctx' = new /\ own' = Fresh /\ own = Fresh /\ ret' = 0
        /\ got' = [priv |-> None, pub |-> None]
    BY <1>1, <1>2, <1>19
  <2>2. KeyOf(own)' = EcKey(None, None)
    BY <2>1 DEF KeyOf, Fresh
  <2>3. FlagsAgree'
    <3>1. KeyOf(ctx)' = heap'[heap'[ctx'.pkey].ec]
      BY <1>17, <2>1 DEF KeyOf
    <3>2. own'.pkey = NULL /\ own'.has_public_key = 0 /\ own'.has_private_key = 0
          /\ KeyOf(own)'.priv = None
      BY <2>1, <2>2 DEF Fresh, EcKey
    <3> QED
      BY <1>17, <2>1, <3>1, <3>2 DEF FlagsAgree
  <2>4. GotInv'
    BY <2>1 DEF GotInv
  <2>5. ViewInv'
    BY <1>1, <1>2, <1>19, <2>1 DEF IInv, ViewInv, Standalone
  <2> QED
    BY <1>7, <1>14, <1>15, <1>16, <2>3, <2>4, <2>5 DEF IInv
<1> QED
  BY <1>18, <1>19

LEMMA DerivedStep ==
  ASSUME IInv, Derived
  PROVE  IInv'
<1>1. /\ At("derived") /\ Done /\ ctx' = [ctx EXCEPT !.has_public_key = 1] /\ ret' = 0
      /\ got' = [got EXCEPT !.pub = None]
      /\ UNCHANGED <<own, heap, local, call, len, doubleFree, before>>
  BY DEF Derived
<1>2. call.fn = "sm2_derive_public_key" /\ ctx.pkey # NULL
  BY <1>1, AtStep DEF IInv, Runs
<1>3. ~Standalone
  BY <1>2 DEF Standalone, SelfContained
<1>4. ctx' \in Contexts /\ ctx'.pkey = ctx.pkey /\ ctx'.has_public_key = 1
      /\ ctx'.has_private_key = ctx.has_private_key /\ own \in Contexts
  BY <1>1 DEF IInv, HeapOk, PointerInv, Contexts
<1>5. At("cleanup")' /\ Len(todo') <= 2 /\ ~Idle'
  BY <1>1, <1>3, LastCleanup
<1>6. ControlInv'
  <2>1. "derived" \notin Creates
    BY DEF Creates
  <2> QED
    BY <1>1, <1>4, <2>1, ControlDone DEF IInv, CoordSteps
<1>7. HeapOk'
  <2>1. ~At("commit")' /\ ~At("commit")
    BY <1>1, <1>5 DEF At
  <2> QED
    BY <1>1, <1>4, <2>1, Untouched DEF IInv
<1>8. KeyValueInv'
  BY <1>1, ValuesKept
<1>9. LenInv'
  BY <1>1, <1>2, <1>3, <1>5 DEF LenInv, Standalone, At
<1>10. KeyOf(ctx)' = KeyOf(ctx) /\ KeyOf(own)' = KeyOf(own)
  BY <1>1, <1>4 DEF KeyOf
<1>11. FlagsAgree'
  BY <1>1, <1>2, <1>4, <1>10 DEF IInv, FlagsAgree
<1>12. GotInv'
  BY <1>1, <1>10 DEF IInv, GotInv
<1>13. ViewInv'
  BY <1>1, <1>3, <1>5 DEF IInv, ViewInv, Standalone, At
<1> QED
  BY <1>6, <1>7, <1>8, <1>9, <1>11, <1>12, <1>13 DEF IInv

LEMMA CleanupStep ==
  ASSUME IInv, Cleanup
  PROVE  IInv'
<1> DEFINE some == Pointers \ Coordinates
           gone == {local[v] : v \in some} \ {NULL}
<1>1. /\ At("cleanup") /\ Done /\ Free(gone) /\ local' = NoLocals
      /\ UNCHANGED <<ctx, own, call, ret, len, before, got>>
  BY DEF Cleanup, Kept
<1>2. local.pkey = NULL /\ \A v \in Pointers : local'[v] = NULL
  BY <1>1, NoPkey DEF IInv, NoLocals
<1>0. local' = [v \in Pointers |-> IF v \in some THEN NULL ELSE local[v]]
  <2>1. local.x = NULL /\ local.y = NULL
    BY <1>1, NoCoordinates DEF IInv
  <2> QED
    BY <1>1, <2>1 DEF NoLocals, Coordinates, Pointers
<1>3. /\ Program(call.fn, todo') /\ \A h : At(h)' => Follows(call.fn, "cleanup", h)
      /\ Idle' => ~Standalone
  BY <1>1, AfterDone DEF IInv
<1>4. \A h : At(h)' => h \in {"pctx_new", "mdctx_new", "free_own"}
  BY <1>3 DEF Follows
<1>5. HeapOk'
  <2>1. ~At("commit") /\ ~At("commit")'
    BY <1>1, <1>4 DEF At
  <2> QED
    BY <1>0, <1>1, <1>2, <2>1, FrameFreed DEF IInv
<1>6. /\ DOMAIN heap' = DOMAIN heap \ gone
      /\ \A n \in DOMAIN heap \ gone : heap'[n] = heap[n]
  <2>1. gone \subseteq DOMAIN heap /\ \A n \in gone : heap[n].kind # "EVP_PKEY"
    BY <1>2 DEF IInv, HeapOk, PointerInv, IsObject, Kind, Pointers
  <2> HIDE DEF gone
  <2>2. heap' = [n \in DOMAIN heap \ gone |-> heap[n]]
    BY <1>1, <2>1, FreePlain DEF IInv
  <2> QED
    BY <2>2
<1>7. ControlInv'
  <2>1. /\ call.fn \in DOMAIN Steps /\ ~Idle
        /\ call.fn \in TakesPrivate => call.key \in PrivateKeys
        /\ call.fn \in TakesPublic => call.key \in Points
        /\ call.fn = "sm2_derive_public_key" => ctx.pkey # NULL
        /\ ~Standalone => own = Fresh
    BY <1>1, AtStep DEF IInv
  <2>2. ~Idle' => Holding(call.fn, Head(todo')) = {}
    <3>1. ~Idle' => Head(todo') \in {"pctx_new", "mdctx_new", "free_own"}
      BY <1>4 DEF At, Idle
    <3> QED
      BY <2>1, <3>1, HoldingFacts
  <2>3. ~At("cleanup")'
    BY <1>4
  <2> QED
    BY <1>1, <1>2, <1>3, <2>1, <2>2, <2>3 DEF ControlInv, Standalone
<1>8. KeyValueInv'
  <2>1. ~At("priv_bn")' /\ ~At("set_private")' /\ ~At("set_public")'
    BY <1>4
  <2>2. local'.priv_bn = NULL /\ local'.pub_point = NULL /\ local'.ec_key = NULL
    BY <1>2 DEF Pointers
  <2> QED
    BY <1>6, <2>1, <2>2 DEF IInv, KeyValueInv
<1>9. ViewInv' /\ GotInv' /\ FlagsAgree'
  <2>1. KeyOf(ctx)' = KeyOf(ctx) /\ KeyOf(own)' = KeyOf(own)
    <3>1. \A n \in DOMAIN heap : (\A v \in Pointers : local[v] # n) => heap'[n] = heap[n]
      BY <1>6
    <3> QED
      BY <1>1, <3>1, KeysKept DEF IInv
  <2> QED
    BY <1>1, <2>1, ContextsKept DEF IInv, ViewInv
<1>10. LenInv'
  <2>1. ~At("op")'
    BY <1>4
  <2>2. ASSUME ~Idle', ret # -1 PROVE (At("cleanup")' \/ At("free_own")') /\ Len(todo') <= 2
    <3>1. Len(todo) <= 2 /\ Program(call.fn, todo) /\ todo # <<>> /\ todo' = Tail(todo)
      BY <1>1, <2>2 DEF IInv, LenInv, ControlInv, At, Idle, Done
    <3>2. Tail(todo) # <<>> /\ Len(Tail(todo)) = Len(todo) - 1 /\ Len(todo) \in Nat \ {0}
      BY <2>2, <3>1, ProgramTail DEF Idle
    <3>3. Head(Tail(todo)) \in {"free_own", "cleanup"}
      BY <3>1, <3>2, ProgramTail
    <3>4. Len(todo') <= 2
      BY <3>1, <3>2
    <3> QED
      BY <3>1, <3>2, <3>3, <3>4 DEF At
  <2> QED
    BY <1>1, <2>1, <2>2 DEF IInv, LenInv, Standalone
<1> QED
  BY <1>5, <1>7, <1>8, <1>9, <1>10 DEF IInv

LEMMA FreeOwnStep ==
  ASSUME IInv, FreeOwn
  PROVE  IInv'
<1>1. /\ At("free_own") /\ Done /\ Free({own.pkey} \ {NULL}) /\ own' = Fresh
      /\ UNCHANGED <<ctx, local, call, ret, len, before, got>>
  BY DEF FreeOwn, Kept, Emptied
<1>2. /\ Program(call.fn, todo') /\ \A h : At(h)' => Follows(call.fn, "free_own", h)
  BY <1>1, AfterDone DEF IInv
<1>3. (\A h : ~At(h)') /\ Idle'
  BY <1>2 DEF Follows, At, Idle
<1>4. local = NoLocals /\ \A v \in Pointers : local[v] = NULL
  <2>1. \A v \in Pointers : local[v] # NULL <=> v \in Holding(call.fn, "free_own")
    BY <1>1, AtStep DEF IInv, CoordSteps
  <2>2. Holding(call.fn, "free_own") = {}
    BY DEF Holding, CoordSteps
  <2>3. \A v \in Pointers : local[v] = NULL
    BY <2>1, <2>2
  <2>4. local \in [Pointers -> Nat \cup {NULL}]
    BY DEF IInv, HeapOk, PointerInv
  <2> QED
    BY <2>3, <2>4 DEF NoLocals
<1>5. Fresh \in Contexts /\ Fresh.pkey = NULL /\ ctx \in Contexts
  BY DEF Fresh, Contexts, IInv, HeapOk, PointerInv
<1>6. own.pkey # NULL => own.pkey # ctx.pkey
  BY DEF IInv, HeapOk, PointerInv
<1>7. HeapOk'
  <2> DEFINE c == own
             d == ctx
  <2>1. ~At("commit") /\ ~At("commit")'
    BY <1>1, <1>3 DEF At
  <2>2. c \in {ctx, own} /\ d \in {ctx, own} /\ {c, d} = {ctx, own}
    OBVIOUS
  <2>3. ctx'.pkey = d.pkey /\ own'.pkey = NULL /\ ctx' \in Contexts /\ own' \in Contexts
    BY <1>1, <1>5
  <2> QED
    BY <1>1, <1>6, <2>1, <2>2, <2>3, ContextFreed DEF IInv
<1> DEFINE gone == IF own.pkey = NULL THEN {} ELSE {own.pkey, heap[own.pkey].ec}
<1>8. gone = IF own.pkey = NULL THEN {} ELSE {own.pkey, heap[own.pkey].ec}
  OBVIOUS
<1> HIDE DEF gone
<1>9. /\ DOMAIN heap' = DOMAIN heap \ gone
      /\ \A n \in DOMAIN heap \ gone : heap'[n] = heap[n]
  <2>1. heap' = [n \in DOMAIN heap \ gone |-> heap[n]]
    BY <1>1, <1>8, FreeKey DEF IInv
  <2> QED
    BY <2>1
<1>10. Apart(gone, ctx)
  BY <1>6, <1>8, KeyAlone DEF IInv
<1>11. KeyOf(ctx)' = KeyOf(ctx)
  <2>1. ctx.pkey # NULL => ctx.pkey \in DOMAIN heap \ gone /\ heap[ctx.pkey].ec \in DOMAIN heap \ gone
    BY <1>10, KeyObjects DEF Apart, IInv, HeapOk, PointerInv, IsObject
  <2> QED
    BY <1>1, <1>9, <2>1 DEF KeyOf
<1>12. ControlInv'
  BY <1>1, <1>2, <1>3, <1>4 DEF ControlInv
<1>13. KeyValueInv'
  <2>1. local'.priv_bn = NULL /\ local'.pub_point = NULL /\ local'.ec_key = NULL
    BY <1>1, <1>4 DEF Pointers
  <2> QED
    BY <1>3, <1>9, <2>1 DEF IInv, KeyValueInv
<1>14. GotInv' /\ ViewInv'
  <2>1. View(ctx)' = View(ctx)
    BY <1>1, <1>11 DEF View
  <2>2. ~At("derived")
    BY <1>1 DEF At
  <2> QED
    BY <1>1, <1>3, <1>11, <2>1, <2>2 DEF IInv, GotInv, ViewInv, Standalone
<1>15. FlagsAgree'
  <2>1. KeyOf(own)'.priv = None
    BY <1>1, <1>5 DEF KeyOf, EcKey
  <2> QED
    BY <1>1, <1>11, <2>1 DEF IInv, FlagsAgree, Fresh
<1>16. LenInv'
  BY <1>1, <1>3 DEF IInv, LenInv, Standalone
<1> QED
  BY <1>7, <1>12, <1>13, <1>14, <1>15, <1>16 DEF IInv

LEMMA CheckSteps ==
  ASSUME IInv, KeygenInit \/ OpInit
  PROVE  IInv'
<1>1. PICK g \in {"keygen_init", "op_init"} : Check(g)
  BY DEF KeygenInit, OpInit
<1>2. /\ At(g) /\ (Done \/ Fail)
      /\ UNCHANGED <<ctx, own, heap, local, doubleFree, call, ret, len, before, got>>
  BY <1>1 DEF Check, Kept
<1>3. LenInv' /\ len \in Nat
  BY <1>2, LenKept DEF IInv, ViewInv
<1> QED
  BY <1>2, <1>3, Quiet DEF CoordSteps

LEMMA OpStep ==
  ASSUME IInv, Op
  PROVE  IInv'
<1>1. At("op") /\ UNCHANGED <<ctx, own, heap, local, call, doubleFree, before, got>>
  BY DEF Op
<1>2. CASE Fail /\ UNCHANGED <<len, ret>>
  <2>1. LenInv' /\ len \in Nat
    BY <1>1, <1>2, LenKept DEF IInv, ViewInv
  <2> QED
    BY <1>1, <1>2, <2>1, Quiet DEF CoordSteps
<1>3. CASE ~(Fail /\ UNCHANGED <<len, ret>>)
  <2>1. /\ len' \in Nat /\ ret' = 0 /\ Done
        /\ call.fn = "sm2_sign" => len' <= len
    BY <1>1, <1>3, SizeAssumption DEF Op, Finish, IInv, ViewInv
  <2>2. At("cleanup")' /\ ~At("op")'
    <3>1. /\ \A h : At(h)' => Follows(call.fn, "op", h)
          /\ ~Idle'
      BY <1>1, <2>1, AfterDone DEF IInv
    <3>2. Follows(call.fn, "op", Head(todo'))
      BY <3>1 DEF At, Idle
    <3> QED
      BY <3>1, <3>2 DEF Follows, At, Idle
  <2>3. Len(todo') <= 2
    <3>1. Program(call.fn, todo) /\ todo # <<>> /\ Head(todo) = "op" /\ todo' = Tail(todo)
      BY <1>1, <2>1 DEF IInv, ControlInv, At, Done
    <3>2. Len(todo) = 3 /\ Len(Tail(todo)) = Len(todo) - 1
      BY <3>1, ProgramTail
    <3> QED
      BY <3>1, <3>2
  <2>4. call.fn = "sm2_sign" => len <= call.capacity /\ call.capacity \in Nat /\ len \in Nat
    BY <1>1 DEF IInv, LenInv, ViewInv, Standalone, SelfContained
  <2>5. LenInv'
    BY <1>1, <2>1, <2>2, <2>3, <2>4 DEF IInv, LenInv, Standalone
  <2> QED
    BY <1>1, <2>1, <2>5, Quiet
<1> QED
  BY <1>2, <1>3

LEMMA QueryStep ==
  ASSUME IInv, Query
  PROVE  IInv'
<1>1. /\ At("query") /\ UNCHANGED <<ctx, own, heap, local, call, ret, doubleFree, before, got>>
  BY DEF Query
<1>2. call.fn = "sm2_sign" /\ ret = -1
  <2>1. Runs(call.fn, "query")
    BY <1>1, AtStep DEF IInv
  <2> QED
    BY <1>1, <2>1 DEF Runs, IInv, LenInv, At, Idle
<1>3. len' \in Nat /\ (Done \/ Fail)
  BY SizeAssumption DEF Query
<1>4. ~At("op")'
  BY <1>1, <1>2, <1>3, Moves DEF IInv
<1>5. LenInv'
  BY <1>1, <1>2, <1>4 DEF IInv, LenInv, Standalone
<1> QED
  BY <1>1, <1>3, <1>5, Quiet DEF CoordSteps

LEMMA CheckRoomStep ==
  ASSUME IInv, CheckRoom
  PROVE  IInv'
<1>1. /\ At("room") /\ UNCHANGED <<ctx, own, heap, local, doubleFree, call, ret, len, before, got>>
      /\ (Done /\ len <= call.capacity) \/ Fail
  BY DEF CheckRoom, Kept
<1>2. LenInv'
  <2>1. CASE Fail
    BY <1>1, <2>1, LenKept
  <2>2. CASE Done /\ len <= call.capacity
    <3>1. ret = -1
      BY <1>1 DEF IInv, LenInv, At, Idle
    <3> QED
      BY <1>1, <2>2, <3>1 DEF IInv, LenInv, Standalone
  <2> QED
    BY <1>1, <2>1, <2>2
<1> QED
  BY <1>1, <1>2, Quiet DEF IInv, ViewInv, CoordSteps

\* Between calls the frame is empty.
LEMMA IdleFacts ==
  ASSUME IInv, Idle
  PROVE  /\ local = NoLocals /\ \A v \in Pointers : local[v] = NULL
         /\ own = Fresh /\ Fresh \in Contexts /\ Fresh.pkey = NULL
         /\ \A h : ~At(h)
  BY DEF IInv, ControlInv, Idle, At, NoLocals, Fresh, Contexts

LEMMA InvokeStep ==
  ASSUME IInv, NEW fn \in DOMAIN Steps, NEW key, NEW capacity \in Nat,
         Invoke(fn, key, capacity),
         fn \in TakesPrivate => key \in PrivateKeys, fn \in TakesPublic => key \in Points,
         fn = "sm2_derive_public_key" => ctx.pkey # NULL
  PROVE  IInv'
<1>1. /\ Idle /\ call'.fn = fn /\ call'.key = key /\ call'.capacity = capacity
      /\ len' = capacity /\ before' = View(ctx) /\ ret' = -1 /\ todo' = Steps[fn]
      /\ own' = Fresh /\ UNCHANGED <<ctx, heap, local, doubleFree, got>>
  BY DEF Invoke
<1>2. /\ local = NoLocals /\ \A v \in Pointers : local[v] = NULL
      /\ own = Fresh /\ Fresh \in Contexts /\ Fresh.pkey = NULL
      /\ \A h : ~At(h)
  BY <1>1, IdleFacts
<1>3. /\ Program(fn, Steps[fn]) /\ Steps[fn] # <<>>
      /\ Head(Steps[fn]) =
           IF fn \in TakesPrivate \cup TakesPublic THEN "new_key"
           ELSE IF fn = "sm2_derive_public_key" THEN "point_new" ELSE "pctx_new"
  BY StepsProgram
<1>4. \A h : At(h)' => h = Head(Steps[fn])
  BY <1>1 DEF At
<1>5. Head(Steps[fn]) \in {"new_key", "point_new", "pctx_new"}
  BY <1>3
<1>6. ControlInv'
  <2>1. Holding(fn, Head(Steps[fn])) = {}
    BY <1>3, HoldingFacts
  <2>2. ~Idle' /\ ~At("cleanup")'
    BY <1>1, <1>3, <1>4, <1>5 DEF Idle
  <2> QED
    BY <1>1, <1>2, <1>3, <2>1, <2>2 DEF ControlInv
<1>7. HeapOk'
  <2>1. ~At("commit") /\ ~At("commit")' /\ ctx \in Contexts
    BY <1>2, <1>4, <1>5 DEF IInv, HeapOk, PointerInv
  <2> QED
    BY <1>1, <1>2, <2>1, Untouched DEF IInv
<1>8. KeyValueInv'
  <2>1. ~At("priv_bn")' /\ ~At("set_private")' /\ ~At("set_public")'
    BY <1>4, <1>5
  <2>2. local'.priv_bn = NULL /\ local'.pub_point = NULL /\ local'.ec_key = NULL
    BY <1>1, <1>2 DEF Pointers
  <2> QED
    BY <1>1, <2>1, <2>2 DEF IInv, KeyValueInv
<1>9. KeyOf(ctx)' = KeyOf(ctx) /\ KeyOf(own)' = KeyOf(own) /\ View(ctx)' = View(ctx)
  BY <1>1, <1>2 DEF KeyOf, View
<1>10. GotInv' /\ FlagsAgree'
  BY <1>1, <1>2, <1>9 DEF IInv, GotInv, FlagsAgree
<1>11. ViewInv'
  BY <1>1, <1>9 DEF ViewInv
<1>12. LenInv'
  BY <1>1, <1>4, <1>5 DEF LenInv
<1> QED
  BY <1>6, <1>7, <1>8, <1>10, <1>11, <1>12 DEF IInv

LEMMA AnswerStep ==
  ASSUME IInv,
         NEW fn \in {"sm2_derive_public_key", "sm2_get_private_key", "sm2_get_public_key"},
         NEW results \in SUBSET {0, -1}, Answer(fn, results), GotInv'
  PROVE  IInv'
<1>1. /\ Idle /\ call'.fn = fn /\ before' = View(ctx) /\ len' = 0 /\ ret' \in {0, -1}
      /\ UNCHANGED <<ctx, own, heap, local, todo, doubleFree>>
  BY DEF Answer
<1>2. /\ local = NoLocals /\ \A v \in Pointers : local[v] = NULL
      /\ own = Fresh /\ \A h : ~At(h)
  BY <1>1, IdleFacts
<1>3. Idle' /\ \A h : ~At(h)'
  BY <1>1 DEF Idle, At
<1>4. ControlInv'
  <2>1. Program(fn, todo')
    BY <1>1, FailProgram DEF Idle
  <2> QED
    BY <1>1, <1>2, <1>3, <2>1 DEF ControlInv
<1>5. HeapOk'
  BY <1>1, <1>2, <1>3, Untouched DEF IInv, HeapOk, PointerInv
<1>6. KeyValueInv'
  <2>1. local'.priv_bn = NULL /\ local'.pub_point = NULL /\ local'.ec_key = NULL
    BY <1>1, <1>2 DEF Pointers
  <2> QED
    BY <1>1, <1>3, <2>1 DEF IInv, KeyValueInv
<1>7. View(ctx)' = View(ctx) /\ FlagsAgree'
  BY <1>1 DEF KeyOf, View, IInv, FlagsAgree
<1>8. ViewInv'
  BY <1>1, <1>3, <1>7 DEF ViewInv
<1>9. LenInv'
  BY <1>1, <1>3 DEF LenInv, Standalone, SelfContained
<1> QED
  BY <1>4, <1>5, <1>6, <1>7, <1>8, <1>9 DEF IInv

LEMMA GetterSteps ==
  ASSUME IInv, GetPrivateKey \/ GetPublicKey
  PROVE  IInv'
<1>1. CASE GetPrivateKey
  <2> DEFINE results == IF HasPrivate /\ KeyOf(ctx).priv # None THEN {0, -1} ELSE {-1}
  <2>1. /\ Answer("sm2_get_private_key", results) /\ results \in SUBSET {0, -1}
        /\ got' = IF ret' = 0 THEN [got EXCEPT !.priv = KeyOf(ctx).priv] ELSE got
    BY <1>1 DEF GetPrivateKey
  <2>2. KeyOf(ctx)' = KeyOf(ctx)
    BY <2>1 DEF Answer, KeyOf
  <2> HIDE DEF results
  <2>3. GotInv'
    <3>1. CASE ret' = 0
      <4>1. got' = [priv |-> KeyOf(ctx).priv, pub |-> got.pub]
        BY <2>1, <3>1 DEF IInv, GotInv
      <4> QED
        BY <2>2, <4>1 DEF IInv, GotInv
    <3>2. CASE ret' # 0
      BY <2>1, <2>2, <3>2 DEF IInv, GotInv
    <3> QED
      BY <3>1, <3>2
  <2> QED
    BY <2>1, <2>3, AnswerStep
<1>2. CASE GetPublicKey
  <2> DEFINE results == IF HasPublic /\ KeyOf(ctx).pub \notin {None, Infinity} THEN {0, -1} ELSE {-1}
  <2>1. /\ Answer("sm2_get_public_key", results) /\ results \in SUBSET {0, -1}
        /\ got' = IF ret' = 0 THEN [got EXCEPT !.pub = KeyOf(ctx).pub] ELSE got
    BY <1>2 DEF GetPublicKey
  <2>2. KeyOf(ctx)' = KeyOf(ctx)
    BY <2>1 DEF Answer, KeyOf
  <2>3. ret' = 0 => ctx.pkey # NULL /\ KeyOf(ctx).pub # None
    BY <2>1 DEF Answer, HasPublic
  <2> HIDE DEF results
  <2>4. ret' = 0 => SoundKey(KeyOf(ctx))
    BY <2>3, KeyObjects DEF IInv, KeyValueInv
  <2>5. GotInv'
    <3>1. CASE ret' = 0
      <4>1. got' = [priv |-> got.priv, pub |-> KeyOf(ctx).pub]
        BY <2>1, <3>1 DEF IInv, GotInv
      <4> QED
        BY <2>2, <2>3, <2>4, <3>1, <4>1 DEF IInv, GotInv, SoundKey
    <3>2. CASE ret' # 0
      BY <2>1, <2>2, <3>2 DEF IInv, GotInv
    <3> QED
      BY <3>1, <3>2
  <2> QED
    BY <2>1, <2>5, AnswerStep
<1> QED
  BY <1>1, <1>2

LEMMA FreeContextStep ==
  ASSUME IInv, FreeContext
  PROVE  IInv'
<1>1. /\ Idle /\ Free({ctx.pkey} \ {NULL}) /\ ctx' = Fresh /\ call'.fn = "sm2_free"
      /\ got' = [priv |-> None, pub |-> None] /\ ret' = 0 /\ len' = 0
      /\ UNCHANGED <<own, local, todo>>
  BY DEF FreeContext, Emptied
<1>2. /\ local = NoLocals /\ \A v \in Pointers : local[v] = NULL
      /\ own = Fresh /\ Fresh \in Contexts /\ Fresh.pkey = NULL
      /\ \A h : ~At(h)
  BY <1>1, IdleFacts
<1>3. Idle' /\ \A h : ~At(h)'
  BY <1>1 DEF Idle, At
<1>4. ctx.pkey # NULL => ctx.pkey # own.pkey
  BY DEF IInv, HeapOk, PointerInv
<1>5. HeapOk'
  <2> DEFINE c == ctx
             d == own
  <2>1. c \in {ctx, own} /\ d \in {ctx, own} /\ {c, d} = {ctx, own}
    OBVIOUS
  <2>2. ctx'.pkey = NULL /\ own'.pkey = d.pkey /\ ctx' \in Contexts /\ own' \in Contexts
    BY <1>1, <1>2
  <2> QED
    BY <1>1, <1>2, <1>3, <1>4, <2>1, <2>2, ContextFreed DEF IInv
<1>6. \A n \in DOMAIN heap' : n \in DOMAIN heap /\ heap'[n] = heap[n]
  BY <1>1 DEF Free
<1>7. ControlInv'
  <2>1. Program("sm2_free", todo')
    BY <1>1, FailProgram DEF Idle
  <2> QED
    BY <1>1, <1>2, <1>3, <2>1 DEF ControlInv
<1>8. KeyValueInv'
  <2>1. local'.priv_bn = NULL /\ local'.pub_point = NULL /\ local'.ec_key = NULL
    BY <1>1, <1>2 DEF Pointers
  <2> QED
    BY <1>3, <1>6, <2>1 DEF IInv, KeyValueInv
<1>9. KeyOf(ctx)'.priv = None /\ KeyOf(own)'.priv = None
  BY <1>1, <1>2 DEF KeyOf, EcKey
<1>10. GotInv' /\ FlagsAgree'
  BY <1>1, <1>2, <1>9 DEF GotInv, FlagsAgree, Fresh
<1>11. ViewInv' /\ LenInv'
  BY <1>1, <1>3 DEF ViewInv, LenInv, Standalone, SelfContained
<1> QED
  BY <1>5, <1>7, <1>8, <1>10, <1>11 DEF IInv

LEMMA ClientStep ==
  ASSUME IInv, Client
  PROVE  IInv'
<1>1. CASE Invoke("sm2_generate_keypair", None, 0)
  <2>1. /\ "sm2_generate_keypair" \in DOMAIN Steps /\ 0 \in Nat
        /\ "sm2_generate_keypair" \notin TakesPrivate \cup TakesPublic
    BY DEF Steps, TakesPrivate, TakesPublic
  <2> QED
    BY <1>1, <2>1, InvokeStep
<1>2. ASSUME NEW d \in PrivateKeys, Invoke("sm2_set_private_key", d, 0) PROVE IInv'
  <2>1. "sm2_set_private_key" \in DOMAIN Steps /\ 0 \in Nat /\ "sm2_set_private_key" \notin TakesPublic
    BY DEF Steps, TakesPublic
  <2> QED
    BY <1>2, <2>1, InvokeStep
<1>3. ASSUME NEW q \in Points, Invoke("sm2_set_public_key", q, 0) PROVE IInv'
  <2>1. "sm2_set_public_key" \in DOMAIN Steps /\ 0 \in Nat /\ "sm2_set_public_key" \notin TakesPrivate
    BY DEF Steps, TakesPrivate
  <2> QED
    BY <1>3, <2>1, InvokeStep
<1>4. CASE CallDerive
  <2>1. CASE HasPrivate /\ Invoke("sm2_derive_public_key", None, 0)
    <3>1. /\ "sm2_derive_public_key" \in DOMAIN Steps /\ 0 \in Nat
          /\ "sm2_derive_public_key" \notin TakesPrivate \cup TakesPublic
      BY DEF Steps, TakesPrivate, TakesPublic
    <3>2. ctx.pkey # NULL
      BY <2>1 DEF HasPrivate
    <3> QED
      BY <2>1, <3>1, <3>2, InvokeStep
  <2>2. CASE Answer("sm2_derive_public_key", {-1}) /\ UNCHANGED got
    <3>1. KeyOf(ctx)' = KeyOf(ctx)
      BY <2>2 DEF Answer, KeyOf
    <3>2. GotInv'
      BY <2>2, <3>1 DEF IInv, GotInv
    <3>3. {-1} \in SUBSET {0, -1}
      OBVIOUS
    <3> QED
      BY <2>2, <3>2, <3>3, AnswerStep
  <2> QED
    BY <1>4, <2>1, <2>2 DEF CallDerive
<1>5. ASSUME NEW fn \in TakesPrivate \cap SelfContained, NEW d \in PrivateKeys, NEW n \in Capacities,
             Invoke(fn, d, n)
      PROVE  IInv'
  <2>1. fn \in DOMAIN Steps /\ n \in Nat /\ fn \notin TakesPublic /\ fn # "sm2_derive_public_key"
    BY SizeAssumption DEF Steps, TakesPrivate, TakesPublic, SelfContained
  <2> QED
    BY <1>5, <2>1, InvokeStep
<1>6. ASSUME NEW fn \in TakesPublic \cap SelfContained, NEW q \in Points, NEW n \in Capacities,
             Invoke(fn, q, n)
      PROVE  IInv'
  <2>1. fn \in DOMAIN Steps /\ n \in Nat /\ fn \notin TakesPrivate /\ fn # "sm2_derive_public_key"
    BY SizeAssumption DEF Steps, TakesPrivate, TakesPublic, SelfContained
  <2> QED
    BY <1>6, <2>1, InvokeStep
<1> QED
  BY <1>1, <1>2, <1>3, <1>4, <1>5, <1>6, GetterSteps, FreeContextStep DEF Client

LEMMA InitInv ==
  ASSUME Init
  PROVE  IInv
<1>1. DOMAIN heap = {}
  BY DEF Init
<1>2. HeapInv
  BY <1>1, FS_EmptySet DEF Init, HeapInv
<1>3. \A v \in Pointers : local[v] = NULL
  BY DEF Init, NoLocals
<1>4. Idle /\ \A h : ~At(h)
  BY DEF Init, Idle, At
<1>5. ctx = Fresh /\ own = Fresh /\ Fresh \in Contexts /\ Fresh.pkey = NULL
  BY DEF Init, Fresh, Contexts
<1>6. PointerInv /\ KeyInv /\ OwnedInv
  <2>1. local \in [Pointers -> Nat \cup {NULL}]
    BY DEF Init, NoLocals
  <2> QED
    BY <1>1, <1>3, <1>5, <2>1 DEF Init, PointerInv, KeyInv, OwnedInv
<1>7. ControlInv
  <2>1. Program("sm2_init", todo)
    BY FailProgram DEF Init
  <2> QED
    BY <1>4, <1>5, <2>1 DEF Init, ControlInv
<1>8. KeyValueInv
  BY <1>1, <1>3, <1>4 DEF KeyValueInv, Pointers
<1>9. KeyOf(ctx) = EcKey(None, None) /\ KeyOf(own) = EcKey(None, None) /\ View(ctx) = before
  BY <1>5 DEF Init, KeyOf, View
<1>10. ViewInv /\ LenInv /\ GotInv
  BY <1>4, <1>9 DEF Init, ViewInv, LenInv, GotInv, Standalone, SelfContained
<1>11. FlagsAgree
  BY <1>5, <1>9 DEF FlagsAgree, Fresh, EcKey
<1> QED
  BY <1>2, <1>6, <1>7, <1>8, <1>10, <1>11 DEF IInv, HeapOk

LEMMA StepInv ==
  ASSUME IInv, [Next]_vars
  PROVE  IInv'
<1>1. CASE UNCHANGED vars
  <2>1. /\ UNCHANGED <<ctx, own, heap, local, todo, call, ret, len, doubleFree, before, got>>
        /\ \A h : At(h)' <=> At(h)
        /\ Idle' <=> Idle
    BY <1>1 DEF vars, At, Idle
  <2>2. ControlInv' /\ HeapOk'
    BY <2>1 DEF IInv, ControlInv, HeapOk, HeapInv, PointerInv, KeyInv, OwnedInv, Owned, Held,
                IsObject, Standalone
  <2>3. KeyValueInv' /\ LenInv'
    BY <2>1 DEF IInv, KeyValueInv, LenInv, WorkKey, Standalone
  <2>4. KeyOf(ctx)' = KeyOf(ctx) /\ KeyOf(own)' = KeyOf(own) /\ View(ctx)' = View(ctx)
    BY <2>1 DEF KeyOf, View
  <2>5. ViewInv' /\ GotInv' /\ FlagsAgree'
    BY <2>1, <2>4 DEF IInv, ViewInv, GotInv, FlagsAgree, Standalone
  <2> QED
    BY <2>2, <2>3, <2>5 DEF IInv
<1>2. CASE Next
  <2>1. CASE Idle /\ Client
    BY <2>1, ClientStep
  <2>2. CASE NewKey \/ PrivBn \/ PointNew \/ PkeyNew \/ PctxNew \/ MdctxNew
    BY <2>2, CreateSteps
  <2>3. CASE SetPrivateKey
    BY <2>3, SetPrivateKeyStep
  <2>4. CASE Mul
    BY <2>4, MulStep
  <2>5. CASE SetPublicKey
    BY <2>5, SetPublicKeyStep
  <2>6. CASE Assign
    BY <2>6, AssignStep
  <2>7. CASE Keygen
    BY <2>7, KeygenStep
  <2>8. CASE Commit
    BY <2>8, CommitStep
  <2>9. CASE Derived
    BY <2>9, DerivedStep
  <2>10. CASE Cleanup
    BY <2>10, CleanupStep
  <2>11. CASE KeygenInit \/ OpInit
    BY <2>11, CheckSteps
  <2>12. CASE Op
    BY <2>12, OpStep
  <2>13. CASE Query
    BY <2>13, QueryStep
  <2>14. CASE CheckRoom
    BY <2>14, CheckRoomStep
  <2>15. CASE FreeOwn
    BY <2>15, FreeOwnStep
  <2>16. CASE XNew \/ YNew \/ FromBytes
    BY <2>16, CoordinateSteps
  <2>17. CASE FreeXY
    BY <2>17, FreeXYStep
  <2> QED
    BY <1>2, <2>1, <2>2, <2>3, <2>4, <2>5, <2>6, <2>7, <2>8, <2>9, <2>10, <2>11, <2>12, <2>13,
       <2>14, <2>15, <2>16, <2>17 DEF Next
<1> QED
  BY <1>1, <1>2

LEMMA AlwaysIInv == Spec => []IInv
<1>1. Init => IInv
  BY InitInv
<1>2. IInv /\ [Next]_vars => IInv'
  BY StepInv
<1> QED
  BY <1>1, <1>2, PTL DEF Spec

-----------------------------------------------------------------------------
(* What it means for the functions *)

\* Contexts, pointers, objects and results have their types; in particular no
\* EC_KEY is ever given a public key that is no point of the curve, whichever
\* of the four functions took the bytes.
THEOREM ContextTypeCorrect == Spec => []TypeOK
<1>1. IInv => TypeOK
  BY DEF IInv, HeapOk, HeapInv, PointerInv, OwnedInv, ViewInv, TypeOK
<1> QED
  BY <1>1, AlwaysIInv, PTL

\* After every OpenSSL call, failed ones included, the live objects are exactly
\* those a pointer of the frame or a context leads to, and nothing was freed
\* twice: no way out of a function of sm2_openssl.c leaks or leaves a dangling
\* pointer.
THEOREM ContextHeapOwned == Spec => []HeapOwned
<1>1. ASSUME IInv PROVE HeapOwned
  <2>1. ASSUME NEW n \in Held \ {NULL} PROVE n \in DOMAIN heap
    BY <1>1, <2>1 DEF IInv, HeapOk, PointerInv, IsObject, Held
  <2>2. ASSUME NEW m \in DOMAIN heap, heap[m].kind = "EVP_PKEY", heap[m].ec # NULL
        PROVE  heap[m].ec \in DOMAIN heap
    BY <1>1, <2>2 DEF IInv, HeapOk, KeyInv, IsObject
  <2>3. ASSUME NEW n \in DOMAIN heap PROVE n \in Reach(Held \ {NULL})
    <3>1. n # NULL
      BY <1>1, SizeAssumption DEF IInv, HeapOk, HeapInv
    <3>2. CASE n \in Held
      BY <3>1, <3>2 DEF Reach
    <3>3. CASE n \notin Held
      <4>1. PICK m \in Held \ {NULL} : heap[m].kind = "EVP_PKEY" /\ heap[m].ec = n
        BY <1>1, <3>3 DEF IInv, HeapOk, OwnedInv, Owned
      <4>2. m \in DOMAIN heap
        BY <2>1
      <4> QED
        BY <3>1, <4>1, <4>2 DEF Reach
    <3> QED
      BY <3>2, <3>3
  <2>4. ASSUME NEW n \in Reach(Held \ {NULL}) PROVE n \in DOMAIN heap
    BY <2>1, <2>2 DEF Reach
  <2>5. ~doubleFree
    BY <1>1 DEF IInv, HeapOk, OwnedInv
  <2>6. DOMAIN heap = Reach(Held \ {NULL})
    BY <2>3, <2>4
  <2> QED
    BY <2>5, <2>6 DEF HeapOwned
<1>2. IInv => HeapOwned
  BY <1>1
<1> QED
  BY <1>2, AlwaysIInv, PTL

\* The flags of a context say what it holds, wherever a setter, a generation or
\* a derivation is.
THEOREM ContextFlagsAgree == Spec => []FlagsAgree
<1>1. IInv => FlagsAgree
  BY DEF IInv
<1> QED
  BY <1>1, AlwaysIInv, PTL

\* A call that fails at any OpenSSL call, and every call with a context of its
\* own, leaves the key and the flags of the client's context as they were (a
\* derivation may cost the public key), a failed encryption or decryption leaves
\* *output_len, and a signature that was made fits its buffer.
THEOREM ContextAllOrNothing == Spec => []AllOrNothing
<1>1. IInv => AllOrNothing
  <2> SUFFICES ASSUME IInv, Idle PROVE AllOrNothing
    BY DEF AllOrNothing
  <2>1. ~At("derived")
    BY DEF Idle, At
  <2> QED
    BY <2>1 DEF IInv, ViewInv, LenInv, AllOrNothing
<1> QED
  BY <1>1, AlwaysIInv, PTL

\* The private and the public key that the getters return for one key of a
\* context belong together, whatever was called, and failed, before or between.
THEOREM ContextPairMatches == Spec => []PairMatches
<1>1. IInv => PairMatches
  BY DEF IInv, GotInv, PairMatches
<1> QED
  BY <1>1, AlwaysIInv, PTL

=============================================================================

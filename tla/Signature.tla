------------------------------ MODULE Signature ------------------------------
(***************************************************************************)
(* crypto_sign_digest: a nonce is drawn from a deterministic chain, the    *)
(* digest is signed with it, the DER encoding the SDK returns is rewritten *)
(* as the recovery byte and two numbers of fixed width, and the loop goes  *)
(* round until that compact form is canonical for Hive.                    *)
(*                                                                         *)
(* The curve is the SDK's: which numbers a nonce gives is left open.  So   *)
(* is the nonce itself, which is only known by its place in the chain; that *)
(* rng_rfc6979 writes one byte past V when it appends 0 or 1 to it, into   *)
(* whatever the compiler put there, makes no difference to that.  The      *)
(* width of the numbers is a parameter, 32 in the code.                    *)
(***************************************************************************)
EXTENDS Integers, Sequences

CONSTANTS
  N,           \* bytes of a number of the curve
  Nonces,      \* candidates for a nonce, from the highest byte on
  Numbers,     \* numbers of a signature
  Order,       \* SECP256K1_N
  MaxChain,    \* bound: nonces drawn
  MaxRounds    \* bound: rounds of the loop

Byte == 0 .. 255
Zero == [i \in 1 .. N |-> 0]

ASSUME SignatureAssumption ==
  /\ N \in Nat /\ N >= 2
  /\ Nonces \subseteq [1 .. N -> Byte]
  /\ Numbers \subseteq [1 .. N -> Byte] \ {Zero}
  /\ Order \in [1 .. N -> Byte]
  /\ MaxChain \in Nat /\ MaxRounds \in Nat

VARIABLES
  phase,   \* "nonce", "sign", or how the function ended
  keyed,   \* is x, the private key, still to be worked into the chain?
  chain,   \* the place in the chain of nonces; the setup begins it anew
  nonce,   \* the last candidate
  used,    \* the places whose nonces signed, one for each round
  r, s,    \* the numbers of the last signature, and the parity
  parity,  \*   of the point: what cx_ecdsa_sign computed
  sig      \* the compact signature: sig[i] of the code is sig[i + 1] here

vars == <<phase, keyed, chain, nonce, used, r, s, parity, sig>>

\* a < b, the highest byte first
Less(a, b) == \E i \in 1 .. N : a[i] < b[i] /\ \A j \in 1 .. i - 1 : a[j] = b[j]

-----------------------------------------------------------------------------
(* rng_rfc6979                                                             *)

\* Mistaken: every byte has to be lower.
EveryByteBelow(t) == \A i \in 1 .. N : t[i] < Order[i]

\* "Check T is < n": the loop finds a byte that is lower
Found(t) == \E i \in 1 .. N : t[i] < Order[i]

\* One candidate: the first one sets the chain up, the others go on with it.
Draw ==
  /\ phase = "nonce" /\ chain < MaxChain
  /\ chain' = IF keyed THEN 1 ELSE chain + 1
  /\ keyed' = FALSE
  /\ nonce' \in Nonces
  /\ phase' = IF Found(nonce') THEN "sign" ELSE "nonce"
  /\ UNCHANGED <<used, r, s, parity, sig>>

-----------------------------------------------------------------------------
(* cx_ecdsa_sign: the DER encoding of a signature                          *)

\* A number without its leading zeros, and with one if it would be negative
Integer(x) ==
  LET first == CHOOSE i \in 1 .. N : x[i] # 0 /\ \A j \in 1 .. i - 1 : x[j] = 0
      digits == SubSeq(x, first, N)
  IN IF digits[1] >= 128 THEN <<0>> \o digits ELSE digits

Der(a, b) ==
  LET R == Integer(a)
      S == Integer(b)
  IN <<48, Len(R) + Len(S) + 4, 2, Len(R)>> \o R \o <<2, Len(S)>> \o S

-----------------------------------------------------------------------------
(* signature.c                                                             *)

\* The value of the integer at offset o of der, counted as in the code
At(der, i) == der[i + 1]

\* Mistaken: the zero before a high bit is not looked for.
NeverPadded(der, o) == FALSE

Padded(der, o) == At(der, o + 2) = 0

Length(der, o) == At(der, o + 1) - (IF Padded(der, o) THEN 1 ELSE 0)
Start(der, o) == o + (IF Padded(der, o) THEN 3 ELSE 2)

\* Mistaken: numbers of full width begin a byte late.
OneLate(length) == IF length < N - 1 THEN N - length ELSE 2

\* The first byte of the number: zeros are written while length + delta < N,
\* from delta = 1 on.
Delta(length) == IF length < N - 1 THEN N - length ELSE 1

\* The compact form after one number is written behind its byte "base"; what
\* it does not cover stays.
Written(out, base, der, o) ==
  LET length == Length(der, o)
      delta == Delta(length)
  IN [i \in DOMAIN out |->
        LET k == i - 1 - base
        IN IF k \in 1 .. delta - 1 THEN 0
           ELSE IF k \in delta .. delta + length - 1
                THEN At(der, Start(der, o) + k - delta)
           ELSE out[i]]

\* signature_from_der, whose lengths the SDK keeps within N
FromDer(der, odd, out) ==
  LET first == [out EXCEPT ![1] = 27 + 4 + (IF odd THEN 1 ELSE 0)]
      second == Start(der, 2) + Length(der, 2)
  IN Written(Written(first, 0, der, 2), N, der, second)

FitsIn(der, o) == Length(der, o) \in 0 .. N

\* signature_check_canonical, of two numbers
Canonical(x, y) ==
  /\ x[1] < 128 /\ ~(x[1] = 0 /\ x[2] < 128)
  /\ y[1] < 128 /\ ~(y[1] = 0 /\ y[2] < 128)

-----------------------------------------------------------------------------
(* crypto_sign_digest                                                      *)

\* Mistaken: each round gives the key to the generator.
EveryRound(round) == TRUE

\* Only the first round gives the key to the generator.
KeyGiven(round) == round = 0

\* A round: sign with the nonce, rewrite the signature, check it.
Round ==
  /\ phase = "sign" /\ Len(used) < MaxRounds
  /\ used' = Append(used, chain)
  /\ r' \in Numbers /\ s' \in Numbers /\ parity' \in BOOLEAN
  /\ LET der == Der(r', s')
         second == Start(der, 2) + Length(der, 2)
     IN IF FitsIn(der, 2) /\ FitsIn(der, second)
        THEN /\ sig' = FromDer(der, parity', sig)
             /\ phase' = IF Canonical(SubSeq(sig', 2, N + 1), SubSeq(sig', N + 2, 2 * N + 1))
                         THEN "done" ELSE "nonce"
        ELSE sig' = sig /\ phase' = "invalid"
  /\ keyed' = KeyGiven(Len(used'))
  /\ nonce' = Zero  \* the signature is written over it
  /\ UNCHANGED chain

\* A nonce that is not below the order is one the SDK may refuse.
Refused ==
  /\ phase = "sign" /\ ~Less(nonce, Order)
  /\ phase' = "thrown"
  /\ UNCHANGED <<keyed, chain, nonce, used, r, s, parity, sig>>

Init ==
  /\ phase = "nonce" /\ keyed = KeyGiven(0) /\ chain = 0
  /\ nonce = Zero
  /\ used = <<>>
  /\ r = Zero /\ s = Zero /\ parity = FALSE
  /\ sig = [i \in 1 .. 2 * N + 1 |-> 0]

Next == Draw \/ Round \/ Refused

Spec == Init /\ [][Next]_vars

-----------------------------------------------------------------------------
(* What must hold                                                          *)

\* A signature of the SDK always has a compact form: its numbers fit.
TypeOK ==
  /\ phase \in {"nonce", "sign", "done", "thrown"}
  /\ keyed \in BOOLEAN /\ chain \in 0 .. MaxChain
  /\ nonce \in [1 .. N -> Byte]
  /\ used \in Seq(1 .. MaxChain)
  /\ sig \in [1 .. 2 * N + 1 -> Byte]

\* No two rounds sign with the nonce of the same place in the chain: a round
\* that repeats one repeats its signature, and never gets to a canonical one.
NoNonceRepeated == \A i, j \in DOMAIN used : i < j => used[i] < used[j]

Compact(odd, x, y) == <<27 + 4 + (IF odd THEN 1 ELSE 0)>> \o x \o y
Full(x, y) == x[1] # 0 /\ y[1] # 0

\* A signature whose numbers have no leading zero byte is returned as its
\* recovery byte and its two numbers, whatever the rounds before left in the
\* buffer; it is returned if and only if both numbers are canonical.
FullSignatureExact ==
  used # <<>> /\ Full(r, s) =>
    /\ sig = Compact(parity, r, s)
    /\ phase = "done" => Canonical(r, s)
    /\ phase = "nonce" /\ chain = used[Len(used)] => ~Canonical(r, s)

\* A candidate that the generator passes over is not below the order: the
\* chain is the one that Hive's other signers go along.
PassedOverIsAbove ==
  [][chain' # chain /\ phase' = "nonce" => ~Less(nonce', Order)]_vars

-----------------------------------------------------------------------------
(* What comments say and the code does not do                              *)

\* "Convert raw DER signature into compact signature": what is returned is
\* the signature that was computed.
ReturnedAsComputed == phase = "done" => sig = Compact(parity, r, s)
=============================================================================

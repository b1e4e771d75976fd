--------------------------- MODULE Signature_proofs ---------------------------
(***************************************************************************)
(* What holds of crypto_sign_digest for every width, curve and number of   *)
(* rounds.                                                                 *)
(*                                                                         *)
(* No round signs with the nonce of a place the chain had before.  The     *)
(* generator is set up anew whenever it is given the key, which puts the   *)
(* chain back to its first place: the argument is that the key is only     *)
(* given before anything was signed, and that a round leaves the phase in  *)
(* which it signs, so that the next one draws first.                       *)
(*                                                                         *)
(* A candidate that is passed over is above the order: it is below in no   *)
(* byte, and the first byte in which the two differ decides.               *)
(*                                                                         *)
(* A signature of full width is returned exactly.  DerReads finds the two  *)
(* numbers in the DER form by their lengths, each padded if its high bit   *)
(* is set; WrittenBytes says which bytes signature_from_der writes of a    *)
(* number and which it leaves, and RoundWrites puts the two together.  As  *)
(* every place is written when both numbers have full width, nothing of an *)
(* earlier round is left.                                                  *)
(***************************************************************************)
EXTENDS Signature, SequenceTheorems, Least, TLAPS

\* The places signed with lie behind, and all the way behind while a fresh
\* nonce waits to be used; the setup is still to come only before the first.
NonceInv ==
  /\ chain \in Nat /\ used \in Seq(Nat) /\ keyed \in BOOLEAN
  /\ keyed => used = <<>>
  /\ \A i \in DOMAIN used : used[i] <= chain
  /\ phase = "sign" => \A i \in DOMAIN used : used[i] < chain
  /\ NoNonceRepeated

\* Nothing is signed when the function begins.
LEMMA NonceInit == Init => NonceInv
BY DEF Init, NonceInv, NoNonceRepeated, KeyGiven

\* A draw goes on along the chain, or begins it when nothing is signed yet.
LEMMA NonceDraw == NonceInv /\ Draw => NonceInv'
<1> SUFFICES ASSUME NonceInv, Draw PROVE NonceInv'
  OBVIOUS
<1>1. chain' \in Nat /\ used' = used /\ keyed' = FALSE
  BY DEF NonceInv, Draw
<1>2. \A i \in DOMAIN used : used[i] < chain'
  <2>1. CASE keyed
    BY <2>1 DEF NonceInv
  <2>2. CASE ~keyed
    <3>1. chain' = chain + 1
      BY <2>2 DEF Draw
    <3>2. ASSUME NEW i \in DOMAIN used PROVE used[i] < chain + 1
      BY <3>2 DEF NonceInv
    <3> QED BY <3>1, <3>2
  <2> QED BY <2>1, <2>2
<1>3. \A i \in DOMAIN used' : used'[i] <= chain'
  <2>1. \A i \in DOMAIN used : used[i] \in Nat
    BY DEF NonceInv
  <2> QED BY <1>1, <1>2, <2>1
<1> QED BY <1>1, <1>2, <1>3 DEF NonceInv, NoNonceRepeated

\* A round uses the place up, and from then on no key is given.
LEMMA NonceRound == NonceInv /\ Round => NonceInv'
<1> SUFFICES ASSUME NonceInv, Round PROVE NonceInv'
  OBVIOUS
<1>1. /\ used' = Append(used, chain) /\ chain' = chain
      /\ phase = "sign" /\ phase' # "sign"
      /\ keyed' = KeyGiven(Len(used'))
  BY DEF Round
<1>2. used \in Seq(Nat) /\ chain \in Nat
  BY DEF NonceInv
<1>3. /\ used' \in Seq(Nat) /\ Len(used') = Len(used) + 1
      /\ DOMAIN used' = 1 .. Len(used) + 1
      /\ \A i \in DOMAIN used : used'[i] = used[i]
      /\ used'[Len(used) + 1] = chain
  BY <1>1, <1>2
<1>4. keyed' = FALSE
  <2>1. Len(used') # 0
    BY <1>1, <1>2
  <2>2. keyed' = (Len(used') = 0)
    BY <1>1, Zenon DEF KeyGiven
  <2> QED BY <2>1, <2>2, Zenon
<1>5. \A i \in DOMAIN used : used[i] < chain
  BY <1>1 DEF NonceInv
<1>6. \A i \in DOMAIN used' : used'[i] <= chain'
  BY <1>1, <1>2, <1>3, <1>5
<1>7. NoNonceRepeated'
  <2> SUFFICES ASSUME NEW i \in DOMAIN used', NEW j \in DOMAIN used', i < j
               PROVE used'[i] < used'[j]
    BY DEF NoNonceRepeated
  <2>1. i \in DOMAIN used
    BY <1>2, <1>3
  <2>2. CASE j \in DOMAIN used
    BY <1>3, <2>1, <2>2 DEF NonceInv, NoNonceRepeated
  <2>3. CASE j \notin DOMAIN used
    <3>1. j = Len(used) + 1
      BY <1>2, <1>3, <2>3
    <3> QED BY <1>3, <1>5, <2>1, <3>1
  <2> QED BY <2>2, <2>3
<1> QED BY <1>1, <1>2, <1>3, <1>4, <1>6, <1>7 DEF NonceInv

\* What is proved of one step
LEMMA NonceStep == NonceInv /\ [Next]_vars => NonceInv'
<1> SUFFICES ASSUME NonceInv, [Next]_vars PROVE NonceInv'
  OBVIOUS
<1>1. CASE Draw
  BY <1>1, NonceDraw
<1>2. CASE Round
  BY <1>2, NonceRound
<1>3. CASE Refused
  BY <1>3 DEF Refused, NonceInv, NoNonceRepeated
<1>4. CASE UNCHANGED vars
  BY <1>4 DEF vars, NonceInv, NoNonceRepeated
<1> QED BY <1>1, <1>2, <1>3, <1>4 DEF Next

\* crypto_sign_digest never signs twice with the nonce of one place in the
\* chain of rng_rfc6979, however many candidates and rounds it takes.
THEOREM NoncesFresh == Spec => []NoNonceRepeated
<1>1. NonceInv => NoNonceRepeated
  BY DEF NonceInv
<1> QED BY <1>1, NonceInit, NonceStep, PTL DEF Spec

-----------------------------------------------------------------------------
(* The candidates the generator passes over                                *)

\* A candidate is only passed over when it is not below the order.
THEOREM PassedOver == Spec => PassedOverIsAbove
<1> DEFINE A == chain' # chain /\ phase' = "nonce" => ~Less(nonce', Order)
<1>1. ASSUME Init PROVE chain \in Nat
  BY <1>1 DEF Init
<1>2. ASSUME [Next]_vars PROVE [A]_vars
  <2>1. CASE Draw
    BY <2>1 DEF Draw, Found, Less
  <2>2. CASE Round \/ Refused
    BY <2>2 DEF Round, Refused
  <2>3. CASE UNCHANGED vars
    BY <2>3
  <2> QED BY <1>2, <2>1, <2>2, <2>3 DEF Next
<1> QED BY <1>2, PTL DEF Spec, PassedOverIsAbove

-----------------------------------------------------------------------------
(* The encoding of a number, and the number that is read out of it         *)

\* What Integer makes of a number: its digits from the first one on that is
\* not zero, behind a zero if they would be negative.
Encoded(x, first) ==
  LET R == Integer(x)
      pad == IF R[1] = 0 THEN 1 ELSE 0
  IN /\ R \in Seq(Byte) /\ Len(R) = pad + N - first + 1
     /\ \A k \in 1 .. N - first + 1 : R[k + pad] = x[first + k - 1]

\* A number that is not zero has a digit that is not zero.
LEMMA FirstDigit ==
  ASSUME NEW x \in [1 .. N -> Byte] \ {Zero}
  PROVE  \E i \in 1 .. N : x[i] # 0 /\ \A j \in 1 .. i - 1 : x[j] = 0
<1> DEFINE T == {i \in 1 .. N : x[i] # 0}
<1>1. T # {}
  <2>1. \E i \in 1 .. N : x[i] # Zero[i]
    <3>1. SUFFICES ASSUME \A i \in 1 .. N : x[i] = 0 PROVE x = Zero
      BY DEF Zero
    <3>2. x = [i \in 1 .. N |-> x[i]]
      OBVIOUS
    <3>3. [i \in 1 .. N |-> x[i]] = [i \in 1 .. N |-> 0]
      BY <3>1
    <3> QED BY <3>2, <3>3 DEF Zero
  <2> QED BY <2>1 DEF Zero
<1>2. PICK i \in T : \A j \in T : i <= j
  <2>1. T \subseteq Nat
    BY SignatureAssumption
  <2> HIDE DEF T
  <2> QED BY <1>1, <2>1, LeastNumber
<1>3. ASSUME NEW j \in 1 .. i - 1 PROVE x[j] = 0
  <2>1. j \in 1 .. N /\ ~(i <= j)
    BY <1>2, <1>3, SignatureAssumption
  <2> QED BY <1>2, <2>1
<1> QED BY <1>2, <1>3

LEMMA IntegerEncodes ==
  ASSUME NEW x \in [1 .. N -> Byte] \ {Zero}
  PROVE  \E first \in 1 .. N : /\ Encoded(x, first)
                               /\ x[first] # 0
                               /\ \A j \in 1 .. first - 1 : x[j] = 0
<1> DEFINE P(i) == x[i] # 0 /\ \A j \in 1 .. i - 1 : x[j] = 0
           first == CHOOSE i \in 1 .. N : P(i)
           digits == SubSeq(x, first, N)
<1>1. first \in 1 .. N /\ P(first)
  <2>1. \E i \in 1 .. N : P(i)
    BY FirstDigit
  <2> HIDE DEF P
  <2> QED BY <2>1
<1>2. Integer(x) = IF digits[1] >= 128 THEN <<0>> \o digits ELSE digits
  BY DEF Integer
<1> HIDE DEF first
<1>3. /\ digits \in Seq(Byte) /\ Len(digits) = N - first + 1
      /\ \A k \in 1 .. N - first + 1 : digits[k] = x[first + k - 1]
  <2>1. \A i \in first .. N : x[i] \in Byte
    BY <1>1
  <2>2. N \in Int /\ first \in Int /\ first <= N
    BY <1>1, SignatureAssumption
  <2> QED BY <2>1, <2>2, SubSeqProperties
<1> HIDE DEF digits
<1>4. digits[1] = x[first]
  BY <1>1, <1>3, SignatureAssumption
<1>5. CASE digits[1] >= 128
  <2>1. Integer(x) = <<0>> \o digits
    BY <1>2, <1>5
  <2>2. <<0>> \in Seq(Byte) /\ Len(<<0>>) = 1 /\ <<0>>[1] = 0
    BY DEF Byte
  <2>3. /\ Integer(x) \in Seq(Byte) /\ Len(Integer(x)) = 1 + Len(digits)
        /\ \A i \in 1 .. 1 + Len(digits) :
             Integer(x)[i] = IF i <= 1 THEN <<0>>[i] ELSE digits[i - 1]
    BY <1>3, <2>1, <2>2, ConcatProperties
  <2>4. Integer(x)[1] = 0
    BY <1>1, <1>3, <2>2, <2>3, SignatureAssumption
  <2>5. ASSUME NEW k \in 1 .. N - first + 1
        PROVE  Integer(x)[k + 1] = x[first + k - 1]
    BY <1>1, <1>3, <2>3, SignatureAssumption
  <2>6. Encoded(x, first)
    BY <1>1, <1>3, <2>3, <2>4, <2>5, SignatureAssumption DEF Encoded
  <2> QED BY <1>1, <2>6
<1>6. CASE ~(digits[1] >= 128)
  <2>1. Integer(x) = digits
    BY <1>2, <1>6
  <2>2. Integer(x)[1] # 0
    BY <1>1, <1>4, <2>1
  <2>3. ASSUME NEW k \in 1 .. N - first + 1
        PROVE  Integer(x)[k + 0] = x[first + k - 1]
    BY <1>1, <1>3, <2>1, SignatureAssumption
  <2>4. Encoded(x, first)
    BY <1>1, <1>3, <2>1, <2>2, <2>3, SignatureAssumption DEF Encoded
  <2> QED BY <1>1, <2>4
<1> QED BY <1>5, <1>6

\* The parts of a sequence keep their elements.
LEMMA TwoParts ==
  ASSUME NEW a \in Seq(Nat), NEW b \in Seq(Nat)
  PROVE  /\ a \o b \in Seq(Nat) /\ Len(a \o b) = Len(a) + Len(b)
         /\ \A i \in 1 .. Len(a) : (a \o b)[i] = a[i]
         /\ \A i \in 1 .. Len(b) : (a \o b)[Len(a) + i] = b[i]
<1>1. /\ a \o b \in Seq(Nat) /\ Len(a \o b) = Len(a) + Len(b)
      /\ \A i \in 1 .. Len(a) + Len(b) :
           (a \o b)[i] = IF i <= Len(a) THEN a[i] ELSE b[i - Len(a)]
  BY ConcatProperties, Zenon
<1>2. Len(a) \in Nat /\ Len(b) \in Nat
  OBVIOUS
<1>3. ASSUME NEW i \in 1 .. Len(a) PROVE (a \o b)[i] = a[i]
  BY <1>1, <1>2
<1>4. ASSUME NEW i \in 1 .. Len(b) PROVE (a \o b)[Len(a) + i] = b[i]
  <2>1. /\ Len(a) + i \in 1 .. Len(a) + Len(b) /\ ~(Len(a) + i <= Len(a))
        /\ Len(a) + i - Len(a) = i
    BY <1>2
  <2> QED BY <1>1, <2>1
<1> QED BY <1>1, <1>3, <1>4

\* The four parts of e lie one behind the other.
Laid(e, a, b, c, d) ==
  /\ \A i \in 1 .. Len(a) : e[i] = a[i]
  /\ \A i \in 1 .. Len(b) : e[Len(a) + i] = b[i]
  /\ \A i \in 1 .. Len(c) : e[Len(a) + Len(b) + i] = c[i]
  /\ \A i \in 1 .. Len(d) : e[Len(a) + Len(b) + Len(c) + i] = d[i]

LEMMA FourParts ==
  ASSUME NEW a \in Seq(Nat), NEW b \in Seq(Nat), NEW c \in Seq(Nat), NEW d \in Seq(Nat),
         NEW e, e = a \o b \o c \o d
  PROVE  Laid(e, a, b, c, d)
<1>1. PICK ab \in Seq(Nat) : ab = a \o b
  BY TwoParts
<1>2. PICK abc \in Seq(Nat) : abc = ab \o c
  BY TwoParts
<1>3. e = abc \o d
  BY <1>1, <1>2
<1>4. /\ Len(ab) = Len(a) + Len(b)
      /\ \A i \in 1 .. Len(a) : ab[i] = a[i]
      /\ \A i \in 1 .. Len(b) : ab[Len(a) + i] = b[i]
  BY <1>1, TwoParts
<1>5. /\ Len(abc) = Len(ab) + Len(c)
      /\ \A i \in 1 .. Len(ab) : abc[i] = ab[i]
      /\ \A i \in 1 .. Len(c) : abc[Len(ab) + i] = c[i]
  BY <1>2, TwoParts
<1>6. /\ \A i \in 1 .. Len(abc) : e[i] = abc[i]
      /\ \A i \in 1 .. Len(d) : e[Len(abc) + i] = d[i]
  BY <1>3, TwoParts
<1>7. Len(a) \in Nat /\ Len(b) \in Nat /\ Len(c) \in Nat /\ Len(d) \in Nat
  OBVIOUS
<1>8. \A i \in 1 .. Len(ab) : i \in 1 .. Len(abc) /\ e[i] = ab[i]
  <2>1. ASSUME NEW i \in 1 .. Len(ab) PROVE i \in 1 .. Len(abc)
    BY <1>4, <1>5, <1>7
  <2> QED BY <1>5, <1>6, <2>1
<1>9. ASSUME NEW i \in 1 .. Len(a) PROVE e[i] = a[i]
  <2>1. i \in 1 .. Len(ab)
    BY <1>4, <1>7
  <2> QED BY <1>4, <1>8, <2>1
<1>10. ASSUME NEW i \in 1 .. Len(b) PROVE e[Len(a) + i] = b[i]
  <2>1. Len(a) + i \in 1 .. Len(ab)
    BY <1>4, <1>7
  <2> QED BY <1>4, <1>8, <2>1
<1>11. ASSUME NEW i \in 1 .. Len(c) PROVE e[Len(a) + Len(b) + i] = c[i]
  <2>1. Len(ab) + i \in 1 .. Len(abc) /\ Len(ab) + i = Len(a) + Len(b) + i
    BY <1>4, <1>5, <1>7
  <2>2. e[Len(ab) + i] = abc[Len(ab) + i]
    BY <1>6, <2>1
  <2> QED BY <1>5, <2>1, <2>2
<1>12. ASSUME NEW i \in 1 .. Len(d) PROVE e[Len(a) + Len(b) + Len(c) + i] = d[i]
  <2>1. Len(abc) + i = Len(a) + Len(b) + Len(c) + i
    BY <1>4, <1>5, <1>7
  <2> QED BY <1>6, <2>1
<1> QED BY <1>9, <1>10, <1>11, <1>12 DEF Laid

\* Where the two integers of an encoding lie, behind their lengths
Holds(der, R, S) ==
  /\ At(der, 3) = Len(R) /\ \A k \in 1 .. Len(R) : At(der, 3 + k) = R[k]
  /\ At(der, 5 + Len(R)) = Len(S)
  /\ \A k \in 1 .. Len(S) : At(der, 5 + Len(R) + k) = S[k]

LEMMA DerLayout ==
  ASSUME NEW R \in Seq(Nat), NEW S \in Seq(Nat), NEW der,
         der = <<48, Len(R) + Len(S) + 4, 2, Len(R)>> \o R \o <<2, Len(S)>> \o S
  PROVE  Holds(der, R, S)
<1>1. Len(R) \in Nat /\ Len(S) \in Nat
  OBVIOUS
<1>2. PICK H \in Seq(Nat) : /\ H = <<48, Len(R) + Len(S) + 4, 2, Len(R)>>
                            /\ Len(H) = 4 /\ H[4] = Len(R)
  <2> DEFINE G == <<48, Len(R) + Len(S) + 4, 2, Len(R)>>
  <2>1. G \in Seq(Nat) /\ Len(G) = 4 /\ G[4] = Len(R)
    BY <1>1
  <2> HIDE DEF G
  <2>2. \E H \in Seq(Nat) : H = G /\ Len(H) = 4 /\ H[4] = Len(R)
    BY <2>1
  <2> QED BY <2>2 DEF G
<1>3. PICK M \in Seq(Nat) : M = <<2, Len(S)>> /\ Len(M) = 2 /\ M[2] = Len(S)
  <2> DEFINE G == <<2, Len(S)>>
  <2>1. G \in Seq(Nat) /\ Len(G) = 2 /\ G[2] = Len(S)
    BY <1>1
  <2> HIDE DEF G
  <2>2. \E M \in Seq(Nat) : M = G /\ Len(M) = 2 /\ M[2] = Len(S)
    BY <2>1
  <2> QED BY <2>2 DEF G
<1>4. der = H \o R \o M \o S
  BY <1>2, <1>3
<1>5. /\ \A i \in 1 .. Len(H) : der[i] = H[i]
      /\ \A i \in 1 .. Len(R) : der[Len(H) + i] = R[i]
      /\ \A i \in 1 .. Len(M) : der[Len(H) + Len(R) + i] = M[i]
      /\ \A i \in 1 .. Len(S) : der[Len(H) + Len(R) + Len(M) + i] = S[i]
  <2>1. Laid(der, H, R, M, S)
    BY <1>4, FourParts, Zenon
  <2> QED BY <2>1 DEF Laid
<1>6. At(der, 3) = Len(R)
  BY <1>2, <1>5 DEF At
<1>7. ASSUME NEW k \in 1 .. Len(R) PROVE At(der, 3 + k) = R[k]
  <2>1. 3 + k + 1 = Len(H) + k
    BY <1>1, <1>2
  <2> QED BY <1>5, <2>1 DEF At
<1>8. At(der, 5 + Len(R)) = Len(S)
  <2>1. 5 + Len(R) + 1 = Len(H) + Len(R) + 2 /\ 2 \in 1 .. Len(M)
    BY <1>1, <1>2, <1>3
  <2> QED BY <1>3, <1>5, <2>1 DEF At
<1>9. ASSUME NEW k \in 1 .. Len(S) PROVE At(der, 5 + Len(R) + k) = S[k]
  <2>1. 5 + Len(R) + k + 1 = Len(H) + Len(R) + Len(M) + k
    BY <1>1, <1>2, <1>3
  <2> QED BY <1>5, <2>1 DEF At
<1> QED BY <1>6, <1>7, <1>8, <1>9 DEF Holds

\* What the code reads at the offset o of der is the number x, from its first
\* digit on, and the next integer begins at the offset "next".
Reads(der, o, x, first, next) ==
  /\ Length(der, o) = N - first + 1
  /\ Start(der, o) + Length(der, o) = next
  /\ \A k \in 1 .. N - first + 1 : At(der, Start(der, o) + k - 1) = x[first + k - 1]

\* An encoded number behind its length is read as what it was.
LEMMA EncodedReads ==
  ASSUME NEW x, NEW first \in 1 .. N, Encoded(x, first), NEW der, NEW o \in Nat,
         At(der, o + 1) = Len(Integer(x)),
         \A k \in 1 .. Len(Integer(x)) : At(der, o + 1 + k) = Integer(x)[k]
  PROVE  Reads(der, o, x, first, o + 2 + Len(Integer(x)))
<1> DEFINE R == Integer(x)
           pad == IF R[1] = 0 THEN 1 ELSE 0
<1>1. /\ Len(R) = pad + N - first + 1
      /\ \A k \in 1 .. N - first + 1 : R[k + pad] = x[first + k - 1]
  BY DEF Encoded
<1>2. pad \in {0, 1} /\ Len(R) \in Nat /\ 1 \in 1 .. Len(R)
  BY <1>1, SignatureAssumption
<1>3. At(der, o + 2) = R[1]
  <2>1. At(der, o + 1 + 1) = R[1]
    BY <1>2
  <2>2. o + 1 + 1 = o + 2
    OBVIOUS
  <2> QED BY <2>1, <2>2
<1>4. Length(der, o) = Len(R) - pad /\ Start(der, o) = o + 2 + pad
  BY <1>3, <1>2 DEF Length, Start, Padded
<1>5. \A k \in 1 .. Len(R) : At(der, o + 1 + k) = R[k]
  OBVIOUS
<1> HIDE DEF R, pad
<1>6. Length(der, o) = N - first + 1
  BY <1>1, <1>2, <1>4, SignatureAssumption
<1>7. Start(der, o) + Length(der, o) = o + 2 + Len(R)
  BY <1>2, <1>4
<1>8. ASSUME NEW k \in 1 .. N - first + 1
      PROVE  At(der, Start(der, o) + k - 1) = x[first + k - 1]
  <2>1. k + pad \in 1 .. Len(R) /\ o + 1 + (k + pad) = o + 2 + pad + k - 1
    BY <1>1, <1>2, SignatureAssumption
  <2>2. At(der, o + 2 + pad + k - 1) = R[k + pad]
    BY <1>5, <2>1
  <2> QED BY <1>1, <1>4, <2>2
<1> QED BY <1>6, <1>7, <1>8 DEF Reads, R

\* An encoding of two numbers is read as the two.
LEMMA DerReads ==
  ASSUME NEW x \in [1 .. N -> Byte] \ {Zero}, NEW y \in [1 .. N -> Byte] \ {Zero},
         NEW f \in 1 .. N, Encoded(x, f), NEW g \in 1 .. N, Encoded(y, g),
         NEW der, der = Der(x, y)
  PROVE  \E second, end \in Nat :
           /\ second = Start(der, 2) + Length(der, 2)
           /\ Reads(der, 2, x, f, second) /\ Reads(der, second, y, g, end)
<1>1. PICK R \in Seq(Nat) : R = Integer(x)
  <2>1. Integer(x) \in Seq(Byte) /\ Byte \subseteq Nat
    BY DEF Encoded, Byte
  <2> QED BY <2>1, SeqMonotonic
<1>2. PICK S \in Seq(Nat) : S = Integer(y)
  <2>1. Integer(y) \in Seq(Byte) /\ Byte \subseteq Nat
    BY DEF Encoded, Byte
  <2> QED BY <2>1, SeqMonotonic
<1>3. der = <<48, Len(R) + Len(S) + 4, 2, Len(R)>> \o R \o <<2, Len(S)>> \o S
  BY <1>1, <1>2 DEF Der
<1>4. /\ At(der, 3) = Len(R) /\ \A k \in 1 .. Len(R) : At(der, 3 + k) = R[k]
      /\ At(der, 5 + Len(R)) = Len(S)
      /\ \A k \in 1 .. Len(S) : At(der, 5 + Len(R) + k) = S[k]
  <2>1. Holds(der, R, S)
    BY <1>3, DerLayout, Zenon
  <2> QED BY <2>1 DEF Holds
<1>5. Len(R) \in Nat /\ Len(S) \in Nat
  OBVIOUS
<1>6. Reads(der, 2, x, f, 4 + Len(R))
  <2>1. At(der, 2 + 1) = Len(Integer(x))
    BY <1>1, <1>4
  <2>2. \A k \in 1 .. Len(Integer(x)) : At(der, 2 + 1 + k) = Integer(x)[k]
    BY <1>1, <1>4
  <2>3. Reads(der, 2, x, f, 2 + 2 + Len(Integer(x)))
    BY <2>1, <2>2, EncodedReads
  <2> QED BY <1>1, <2>3
<1>7. Reads(der, 4 + Len(R), y, g, 6 + Len(R) + Len(S))
  <2> DEFINE o == 4 + Len(R)
  <2>1. /\ o \in Nat /\ o + 1 = 5 + Len(R)
        /\ o + 2 + Len(S) = 6 + Len(R) + Len(S)
    BY <1>5
  <2>2. At(der, o + 1) = Len(Integer(y))
    BY <1>2, <1>4, <2>1
  <2>3. \A k \in 1 .. Len(Integer(y)) : At(der, o + 1 + k) = Integer(y)[k]
    BY <1>2, <1>4, <2>1
  <2> HIDE DEF o
  <2>4. Reads(der, o, y, g, o + 2 + Len(Integer(y)))
    BY <2>1, <2>2, <2>3, EncodedReads
  <2> QED BY <1>2, <2>1, <2>4 DEF o
<1>8. 4 + Len(R) = Start(der, 2) + Length(der, 2)
  BY <1>6 DEF Reads
<1>9. 4 + Len(R) \in Nat /\ 6 + Len(R) + Len(S) \in Nat
  BY <1>5
<1> QED BY <1>6, <1>7, <1>8, <1>9

\* The buffer with the number x behind its byte "base"
Placed(out, base, x) ==
  [i \in 1 .. 2 * N + 1 |-> IF i - 1 - base \in 1 .. N THEN x[i - 1 - base] ELSE out[i]]

\* The first number keeps its place when the second one is written.
LEMMA PlacedBehind ==
  ASSUME NEW out, NEW z, NEW k \in 1 .. N
  PROVE  /\ Placed(out, N, z)[1 + k] = out[1 + k]
         /\ Placed(out, N, z)[1 + N + k] = z[k]
<1>1. N \in Nat /\ N >= 2 /\ 1 + k \in 1 .. 2 * N + 1 /\ 1 + N + k \in 1 .. 2 * N + 1
  BY SignatureAssumption
<1>2. ASSUME NEW base, NEW i \in 1 .. 2 * N + 1
      PROVE  Placed(out, base, z)[i] =
               IF i - 1 - base \in 1 .. N THEN z[i - 1 - base] ELSE out[i]
  BY DEF Placed
<1>3. Placed(out, N, z)[1 + k] = out[1 + k]
  <2>1. ~(1 + k - 1 - N \in 1 .. N)
    BY <1>1
  <2> QED BY <1>1, <1>2, <2>1
<1>4. Placed(out, N, z)[1 + N + k] = z[k]
  <2>1. 1 + N + k - 1 - N = k
    BY <1>1
  <2> QED BY <1>1, <1>2, <2>1
<1> QED BY <1>3, <1>4

LEMMA BytesAreASequence ==
  ASSUME NEW n \in Nat, NEW f \in [1 .. n -> Byte]
  PROVE  f \in Seq(Byte) /\ Len(f) = n
OBVIOUS

\* A number of full width is written digit by digit, and nothing else changes.
LEMMA WrittenWhole ==
  ASSUME NEW x \in [1 .. N -> Byte], NEW der, NEW o \in Nat, NEW end, Reads(der, o, x, 1, end),
         NEW base \in {0, N}, NEW out \in [1 .. 2 * N + 1 -> Byte]
  PROVE  Written(out, base, der, o) = Placed(out, base, x)
<1>1. N \in Nat /\ N >= 2
  BY SignatureAssumption
<1>2. Length(der, o) = N
  BY <1>1 DEF Reads
<1>3. Delta(Length(der, o)) = 1
  BY <1>1, <1>2 DEF Delta
<1>4. ASSUME NEW k \in 1 .. N PROVE At(der, Start(der, o) + k - 1) = x[k]
  <2>1. k \in 1 .. N - 1 + 1 /\ 1 + k - 1 = k
    BY <1>1
  <2> QED BY <2>1 DEF Reads
<1>5. DOMAIN out = 1 .. 2 * N + 1
  OBVIOUS
<1>6. ASSUME NEW i \in 1 .. 2 * N + 1, NEW k \in Int, k = i - 1 - base
      PROVE  (IF k \in 1 .. 1 - 1 THEN 0
              ELSE IF k \in 1 .. 1 + N - 1 THEN At(der, Start(der, o) + k - 1)
              ELSE out[i]) = IF k \in 1 .. N THEN x[k] ELSE out[i]
  BY <1>1, <1>4
<1>7. Written(out, base, der, o) =
        [i \in 1 .. 2 * N + 1 |->
           IF i - 1 - base \in 1 .. 1 - 1 THEN 0
           ELSE IF i - 1 - base \in 1 .. 1 + N - 1
                THEN At(der, Start(der, o) + (i - 1 - base) - 1)
           ELSE out[i]]
  BY <1>2, <1>3, <1>5 DEF Written
<1>8. ASSUME NEW i \in 1 .. 2 * N + 1 PROVE i - 1 - base \in Int
  BY <1>1
<1> QED BY <1>6, <1>7, <1>8 DEF Placed

\* A piece of the buffer that holds the digits of a number is the number.
LEMMA Piece ==
  ASSUME NEW x \in [1 .. N -> Byte], NEW out \in [1 .. 2 * N + 1 -> Byte],
         NEW m \in 1 .. N + 2, NEW n \in Int, n = m + N - 1,
         \A k \in 1 .. N : out[m + k - 1] = x[k]
  PROVE  SubSeq(out, m, n) = x
<1>1. N \in Nat /\ N >= 2
  BY SignatureAssumption
<1>2. m \in Int /\ m <= n /\ n - m + 1 = N
  BY <1>1
<1>3. \A i \in m .. n : out[i] \in Byte
  BY <1>1
<1>4. /\ SubSeq(out, m, n) \in Seq(Byte)
      /\ Len(SubSeq(out, m, n)) = n - m + 1
      /\ \A i \in 1 .. n - m + 1 : SubSeq(out, m, n)[i] = out[m + i - 1]
  <2> HIDE DEF Byte
  <2> QED BY <1>2, <1>3, SubSeqProperties
<1>5. x \in Seq(Byte) /\ Len(x) = N
  BY <1>1
<1>6. Len(SubSeq(out, m, n)) = N /\ \A i \in 1 .. N : SubSeq(out, m, n)[i] = x[i]
  BY <1>2, <1>4
<1> HIDE DEF Byte
<1> QED BY <1>4, <1>5, <1>6, SeqEqual

\* Whatever is read of a number, bytes are written.
LEMMA WrittenBytes ==
  ASSUME NEW x \in [1 .. N -> Byte], NEW der, NEW o \in Nat, NEW first \in 1 .. N, NEW end,
         Reads(der, o, x, first, end),
         NEW base \in {0, N}, NEW out \in [1 .. 2 * N + 1 -> Byte]
  PROVE  Written(out, base, der, o) \in [1 .. 2 * N + 1 -> Byte]
<1> DEFINE length == Length(der, o)
           delta == Delta(length)
<1>1. N \in Nat /\ N >= 2 /\ length = N - first + 1 /\ length \in 1 .. N
  BY SignatureAssumption DEF Reads
<1> HIDE DEF length
<1>2. delta \in 1 .. N
  BY <1>1 DEF Delta
<1> HIDE DEF delta
<1>3. ASSUME NEW k \in delta .. delta + length - 1
      PROVE  At(der, Start(der, o) + k - delta) \in Byte
  <2>1. k - delta + 1 \in 1 .. N - first + 1 /\ first + (k - delta + 1) - 1 \in 1 .. N
    BY <1>1, <1>2
  <2>2. At(der, Start(der, o) + (k - delta + 1) - 1) = x[first + (k - delta + 1) - 1]
    BY <2>1 DEF Reads
  <2>3. x[first + (k - delta + 1) - 1] \in Byte
    BY <2>1
  <2>4. Start(der, o) + (k - delta + 1) - 1 = Start(der, o) + k - delta
    <3>1. Start(der, o) \in Int
      BY DEF Start
    <3> QED BY <1>1, <1>2, <3>1
  <2> QED BY <2>2, <2>3, <2>4
<1>4. ASSUME NEW i \in 1 .. 2 * N + 1 PROVE Written(out, base, der, o)[i] \in Byte
  <2>1. 0 \in Byte /\ out[i] \in Byte
    <3>1. 0 \in Byte
      BY DEF Byte
    <3> QED BY <3>1
  <2>2. i - 1 - base \in Int
    BY <1>1
  <2>3. Written(out, base, der, o)[i] =
          IF i - 1 - base \in 1 .. delta - 1 THEN 0
          ELSE IF i - 1 - base \in delta .. delta + length - 1
               THEN At(der, Start(der, o) + (i - 1 - base) - delta)
          ELSE out[i]
    BY DEF Written, length, delta
  <2> QED BY <1>3, <2>1, <2>2, <2>3
<1> QED BY <1>4 DEF Written

\* What a round makes of the buffer, for any two numbers the SDK computes:
\* they fit, bytes are written, and two numbers of full width are written as
\* they are.
LEMMA RoundWrites ==
  ASSUME NEW x \in Numbers, NEW y \in Numbers, NEW odd \in BOOLEAN,
         NEW out \in [1 .. 2 * N + 1 -> Byte], NEW der, der = Der(x, y),
         NEW second, second = Start(der, 2) + Length(der, 2)
  PROVE  /\ FitsIn(der, 2) /\ FitsIn(der, second)
         /\ FromDer(der, odd, out) \in [1 .. 2 * N + 1 -> Byte]
         /\ Full(x, y) =>
              /\ FromDer(der, odd, out) = Compact(odd, x, y)
              /\ SubSeq(FromDer(der, odd, out), 2, N + 1) = x
              /\ SubSeq(FromDer(der, odd, out), N + 2, 2 * N + 1) = y
<1>1. /\ N \in Nat /\ N >= 2
      /\ x \in [1 .. N -> Byte] \ {Zero} /\ y \in [1 .. N -> Byte] \ {Zero}
  BY SignatureAssumption
<1>2. PICK f \in 1 .. N : Encoded(x, f) /\ x[f] # 0 /\ \A j \in 1 .. f - 1 : x[j] = 0
  BY <1>1, IntegerEncodes
<1>3. PICK g \in 1 .. N : Encoded(y, g) /\ y[g] # 0 /\ \A j \in 1 .. g - 1 : y[j] = 0
  BY <1>1, IntegerEncodes
<1>4. PICK end \in Nat : /\ second \in Nat
                         /\ Reads(der, 2, x, f, second) /\ Reads(der, second, y, g, end)
  <2>1. \E n, e \in Nat : /\ n = Start(der, 2) + Length(der, 2)
                          /\ Reads(der, 2, x, f, n) /\ Reads(der, n, y, g, e)
    BY <1>1, <1>2, <1>3, DerReads
  <2> QED BY <2>1
<1>5. FitsIn(der, 2) /\ FitsIn(der, second)
  <2>1. Length(der, 2) = N - f + 1 /\ Length(der, second) = N - g + 1
    BY <1>4 DEF Reads
  <2> QED BY <1>1, <2>1 DEF FitsIn
<1> DEFINE head == 27 + 4 + (IF odd THEN 1 ELSE 0)
           first == [out EXCEPT ![1] = head]
           half == Written(first, 0, der, 2)
           whole == Written(half, N, der, second)
<1>6. FromDer(der, odd, out) = whole
  BY DEF FromDer
<1>7. head \in Byte
  BY DEF Byte
<1>8. first \in [1 .. 2 * N + 1 -> Byte]
  <2> HIDE DEF head
  <2> QED BY <1>7
<1> HIDE DEF head
<1>9. half \in [1 .. 2 * N + 1 -> Byte]
  <2>1. 0 \in {0, N} /\ 2 \in Nat
    BY <1>1
  <2> HIDE DEF first
  <2> QED BY <1>1, <1>4, <1>8, <2>1, WrittenBytes
<1>10. whole \in [1 .. 2 * N + 1 -> Byte]
  <2> HIDE DEF half
  <2> QED BY <1>1, <1>4, <1>9, WrittenBytes
<1>11. ASSUME Full(x, y)
       PROVE  /\ whole = Compact(odd, x, y)
              /\ SubSeq(whole, 2, N + 1) = x
              /\ SubSeq(whole, N + 2, 2 * N + 1) = y
  <2>1. f = 1 /\ g = 1
    <3>1. x[1] # 0 /\ y[1] # 0
      BY <1>11 DEF Full
    <3>2. ~(1 \in 1 .. f - 1) /\ ~(1 \in 1 .. g - 1)
      BY <1>2, <1>3, <3>1
    <3> QED BY <1>1, <3>2
  <2>2. Reads(der, 2, x, 1, second) /\ Reads(der, second, y, 1, end)
    BY <1>4, <2>1
  <2>3. half = Placed(first, 0, x)
    <3>1. 0 \in {0, N} /\ 2 \in Nat
      BY <1>1
    <3> HIDE DEF first
    <3>2. x \in [1 .. N -> Byte]
      BY <1>1
    <3>3. Written(first, 0, der, 2) = Placed(first, 0, x)
      BY <1>8, <2>2, <3>1, <3>2, WrittenWhole, Zenon
    <3> QED BY <3>3
  <2>4. whole = Placed(half, N, y)
    <3> HIDE DEF half
    <3>1. N \in {0, N} /\ y \in [1 .. N -> Byte]
      BY <1>1
    <3>2. Written(half, N, der, second) = Placed(half, N, y)
      BY <1>4, <1>9, <2>2, <3>1, WrittenWhole, Zenon
    <3> QED BY <3>2
  <2>5. whole[1] = head
    <3>1. /\ 1 \in 1 .. 2 * N + 1 /\ ~(1 - 1 - N \in 1 .. N) /\ ~(1 - 1 - 0 \in 1 .. N)
      BY <1>1
    <3>2. whole[1] = half[1]
      BY <2>4, <3>1 DEF Placed
    <3>3. half[1] = first[1]
      BY <2>3, <3>1 DEF Placed
    <3> QED BY <3>1, <3>2, <3>3
  <2>6. ASSUME NEW k \in 1 .. N PROVE whole[1 + k] = x[k]
    <3> HIDE DEF whole, half, first
    <3>1. Placed(half, N, y)[1 + k] = half[1 + k]
      BY PlacedBehind
    <3>2. Placed(first, 0, x)[1 + k] = x[k]
      <4>1. 1 + k \in 1 .. 2 * N + 1 /\ 1 + k - 1 - 0 = k
        BY <1>1
      <4> QED BY <4>1 DEF Placed
    <3> QED BY <2>3, <2>4, <3>1, <3>2, Zenon
  <2>7. ASSUME NEW k \in 1 .. N PROVE whole[1 + N + k] = y[k]
    <3> HIDE DEF half
    <3> QED BY <2>4, PlacedBehind
  <2> HIDE DEF whole
  <2>8. SubSeq(whole, 2, N + 1) = x
    <3>1. 2 \in 1 .. N + 2 /\ N + 1 \in Int /\ N + 1 = 2 + N - 1
      BY <1>1
    <3>2. \A k \in 1 .. N : whole[2 + k - 1] = x[k]
      <4>1. \A k \in 1 .. N : 2 + k - 1 = 1 + k
        BY <1>1
      <4> QED BY <2>6, <4>1
    <3> QED BY <1>1, <1>10, <3>1, <3>2, Piece
  <2>9. SubSeq(whole, N + 2, 2 * N + 1) = y
    <3>1. N + 2 \in 1 .. N + 2 /\ 2 * N + 1 \in Int /\ 2 * N + 1 = N + 2 + N - 1
      BY <1>1
    <3>2. \A k \in 1 .. N : whole[N + 2 + k - 1] = y[k]
      <4>1. \A k \in 1 .. N : N + 2 + k - 1 = 1 + N + k
        BY <1>1
      <4> QED BY <2>7, <4>1
    <3> QED BY <1>1, <1>10, <3>1, <3>2, Piece
  <2>10. whole = Compact(odd, x, y)
    <3>1. PICK h \in Seq(Nat) : h = <<head>> /\ Len(h) = 1 /\ h[1] = head
      <4> DEFINE G == <<head>>
      <4>1. G \in Seq(Nat) /\ Len(G) = 1 /\ G[1] = head
        BY <1>7 DEF Byte
      <4> HIDE DEF G
      <4>2. \E h \in Seq(Nat) : h = G /\ Len(h) = 1 /\ h[1] = head
        BY <4>1
      <4> QED BY <4>2 DEF G
    <3>2. x \in Seq(Nat) /\ Len(x) = N /\ y \in Seq(Nat) /\ Len(y) = N
      <4>1. x \in Seq(Byte) /\ Len(x) = N /\ y \in Seq(Byte) /\ Len(y) = N
        BY <1>1
      <4>2. Byte \subseteq Nat
        BY DEF Byte
      <4> QED BY <4>1, <4>2, SeqMonotonic
    <3>3. PICK hx \in Seq(Nat) : hx = h \o x
      BY <3>2, TwoParts
    <3>4. PICK hxy \in Seq(Nat) : hxy = hx \o y
      BY <3>2, TwoParts
    <3>5. /\ Len(hx) = 1 + N /\ hx[1] = head /\ \A k \in 1 .. N : hx[1 + k] = x[k]
      <4>1. /\ Len(h \o x) = Len(h) + Len(x)
            /\ \A i \in 1 .. Len(h) : (h \o x)[i] = h[i]
            /\ \A i \in 1 .. Len(x) : (h \o x)[Len(h) + i] = x[i]
        BY <3>1, <3>2, TwoParts, Zenon
      <4> QED BY <3>1, <3>2, <3>3, <4>1
    <3>6. /\ Len(hxy) = 1 + N + N
          /\ \A i \in 1 .. 1 + N : hxy[i] = hx[i]
          /\ \A k \in 1 .. N : hxy[1 + N + k] = y[k]
      <4>1. /\ Len(hx \o y) = Len(hx) + Len(y)
            /\ \A i \in 1 .. Len(hx) : (hx \o y)[i] = hx[i]
            /\ \A i \in 1 .. Len(y) : (hx \o y)[Len(hx) + i] = y[i]
        BY <3>2, TwoParts, Zenon
      <4> QED BY <3>2, <3>4, <3>5, <4>1
    <3>7. hxy = Compact(odd, x, y)
      BY <3>1, <3>3, <3>4 DEF Compact, head
    <3>8. ASSUME NEW i \in 1 .. 2 * N + 1 PROVE hxy[i] = whole[i]
      <4>1. CASE i = 1
        BY <1>1, <2>5, <3>5, <3>6, <4>1, SMTT(60)
      <4>2. CASE i \in 2 .. 1 + N
        <5>1. i - 1 \in 1 .. N /\ 1 + (i - 1) = i /\ i \in 1 .. 1 + N
          BY <1>1, <4>2
        <5> QED BY <2>6, <3>5, <3>6, <5>1
      <4>3. CASE i \in 2 + N .. 2 * N + 1
        <5>1. i - 1 - N \in 1 .. N /\ 1 + N + (i - 1 - N) = i
          BY <1>1, <4>3
        <5> QED BY <2>7, <3>6, <5>1
      <4> QED BY <1>1, <4>1, <4>2, <4>3
    <3>9. whole \in Seq(Nat) /\ Len(whole) = 2 * N + 1 /\ Len(hxy) = 2 * N + 1
      <4>1. whole \in Seq(Byte) /\ Len(whole) = 2 * N + 1 /\ 2 * N + 1 = 1 + N + N
        <5>1. 2 * N + 1 \in Nat
          BY <1>1
        <5> HIDE DEF whole
        <5>2. whole \in Seq(Byte) /\ Len(whole) = 2 * N + 1
          BY <1>10, <5>1, BytesAreASequence, Zenon
        <5> QED BY <1>1, <5>2
      <4>2. Byte \subseteq Nat
        BY DEF Byte
      <4> QED BY <3>6, <4>1, <4>2, SeqMonotonic
    <3> QED BY <3>7, <3>8, <3>9, SeqEqual
  <2> QED BY <2>8, <2>9, <2>10
<1> HIDE DEF whole
<1> QED BY <1>5, <1>6, <1>10, <1>11

\* Bytes are returned, and for numbers of full width the right ones; the
\* places in the chain that signed lie behind the one that is drawn next.
SignatureInv ==
  /\ TypeOK /\ NonceInv /\ FullSignatureExact
  /\ phase = "sign" => chain \in 1 .. MaxChain

LEMMA SignatureInit == Init => SignatureInv
<1> SUFFICES ASSUME Init PROVE SignatureInv
  OBVIOUS
<1>1. N \in Nat /\ MaxChain \in Nat
  BY SignatureAssumption
<1>2. TypeOK
  <2>1. nonce \in [1 .. N -> Byte]
    BY DEF Init, Zero, Byte
  <2>2. sig \in [1 .. 2 * N + 1 -> Byte]
    BY DEF Init, Byte
  <2>3. keyed \in BOOLEAN /\ used \in Seq(1 .. MaxChain)
    BY DEF Init, KeyGiven
  <2>4. phase = "nonce" /\ chain \in 0 .. MaxChain
    BY <1>1 DEF Init
  <2> QED BY <2>1, <2>2, <2>3, <2>4 DEF TypeOK
<1>3. used = <<>> /\ phase = "nonce"
  BY DEF Init
<1> QED BY <1>2, <1>3, NonceInit DEF SignatureInv, FullSignatureExact

LEMMA SignatureDraw == SignatureInv /\ Draw => SignatureInv'
<1> SUFFICES ASSUME SignatureInv, Draw PROVE SignatureInv'
  OBVIOUS
<1>1. NonceInv'
  BY NonceDraw DEF SignatureInv
<1>2. MaxChain \in Nat /\ Nonces \subseteq [1 .. N -> Byte]
  BY SignatureAssumption
<1>3. chain \in 0 .. MaxChain /\ chain < MaxChain /\ chain' \in 1 .. MaxChain
  BY <1>2 DEF SignatureInv, TypeOK, Draw
<1>4. TypeOK'
  <2>1. nonce' \in [1 .. N -> Byte]
    BY <1>2 DEF Draw
  <2>2. /\ phase' \in {"nonce", "sign"} /\ keyed' = FALSE
        /\ used' = used /\ sig' = sig
    BY DEF Draw
  <2>3. used \in Seq(1 .. MaxChain) /\ sig \in [1 .. 2 * N + 1 -> Byte]
    BY DEF SignatureInv, TypeOK
  <2>4. chain' \in 0 .. MaxChain
    BY <1>2, <1>3
  <2> QED BY <2>1, <2>2, <2>3, <2>4, Zenon DEF TypeOK
<1>5. FullSignatureExact'
  <2>1. SUFFICES ASSUME used # <<>>, Full(r, s)
                 PROVE  /\ sig = Compact(parity, r, s)
                        /\ ~(phase' = "done")
                        /\ ~(chain' = used[Len(used)])
    BY DEF FullSignatureExact, Draw
  <2>2. sig = Compact(parity, r, s)
    BY <2>1 DEF SignatureInv, FullSignatureExact
  <2>3. chain' = chain + 1
    BY <2>1 DEF SignatureInv, NonceInv, Draw
  <2>4. used \in Seq(Nat) /\ Len(used) \in DOMAIN used
    BY <2>1 DEF SignatureInv, NonceInv
  <2>5. used[Len(used)] <= chain /\ used[Len(used)] \in Nat
    BY <2>4 DEF SignatureInv, NonceInv
  <2>6. phase' # "done"
    BY DEF Draw
  <2> QED BY <1>3, <2>2, <2>3, <2>5, <2>6
<1> QED BY <1>1, <1>3, <1>4, <1>5 DEF SignatureInv

LEMMA SignatureRound == SignatureInv /\ Round => SignatureInv'
<1> SUFFICES ASSUME SignatureInv, Round PROVE SignatureInv'
  OBVIOUS
<1>1. NonceInv'
  BY NonceRound DEF SignatureInv
<1> DEFINE der == Der(r', s')
           second == Start(der, 2) + Length(der, 2)
           out == FromDer(der, parity', sig)
<1>2. /\ r' \in Numbers /\ s' \in Numbers /\ parity' \in BOOLEAN
      /\ sig \in [1 .. 2 * N + 1 -> Byte]
  BY DEF SignatureInv, TypeOK, Round
<1>3. /\ FitsIn(der, 2) /\ FitsIn(der, second)
      /\ out \in [1 .. 2 * N + 1 -> Byte]
      /\ Full(r', s') =>
           /\ out = Compact(parity', r', s')
           /\ SubSeq(out, 2, N + 1) = r'
           /\ SubSeq(out, N + 2, 2 * N + 1) = s'
  BY <1>2, RoundWrites
<1>4. /\ sig' = out
      /\ phase' = IF Canonical(SubSeq(out, 2, N + 1), SubSeq(out, N + 2, 2 * N + 1))
                  THEN "done" ELSE "nonce"
  BY <1>3 DEF Round
<1> HIDE DEF out
<1>5. TypeOK'
  <2>1. nonce' \in [1 .. N -> Byte]
    BY DEF Round, Zero, Byte
  <2>2. used' \in Seq(1 .. MaxChain)
    BY DEF SignatureInv, TypeOK, Round
  <2>3. keyed' \in BOOLEAN
    BY DEF Round, KeyGiven
  <2>4. chain' \in 0 .. MaxChain
    BY DEF SignatureInv, TypeOK, Round
  <2>5. phase' \in {"nonce", "done"}
    BY <1>4
  <2> QED BY <1>3, <1>4, <2>1, <2>2, <2>3, <2>4, <2>5 DEF TypeOK
<1>6. FullSignatureExact'
  <2>1. SUFFICES ASSUME Full(r', s')
                 PROVE  /\ sig' = Compact(parity', r', s')
                        /\ phase' = "done" => Canonical(r', s')
                        /\ phase' = "nonce" => ~Canonical(r', s')
    BY DEF FullSignatureExact, Full, Compact, Canonical
  <2> QED BY <1>3, <1>4, <2>1
<1>7. phase' # "sign"
  BY <1>4
<1> QED BY <1>1, <1>5, <1>6, <1>7 DEF SignatureInv

LEMMA SignatureStep == SignatureInv /\ [Next]_vars => SignatureInv'
<1> SUFFICES ASSUME SignatureInv, [Next]_vars PROVE SignatureInv'
  OBVIOUS
<1>1. CASE Draw
  BY <1>1, SignatureDraw
<1>2. CASE Round
  BY <1>2, SignatureRound
<1>3. CASE Refused
  <2>1. NonceInv'
    BY NonceStep DEF SignatureInv
  <2> QED BY <1>3, <2>1 DEF Refused, SignatureInv, TypeOK, FullSignatureExact
<1>4. CASE UNCHANGED vars
  <2>1. NonceInv'
    BY NonceStep DEF SignatureInv
  <2> QED BY <1>4, <2>1 DEF vars, SignatureInv, TypeOK, FullSignatureExact
<1> QED BY <1>1, <1>2, <1>3, <1>4 DEF Next

\* The loop of crypto_sign_digest never meets a signature it cannot rewrite,
\* and what it returns is bytes.
THEOREM SignatureTypes == Spec => []TypeOK
<1>1. SignatureInv => TypeOK
  BY DEF SignatureInv
<1> QED BY <1>1, SignatureInit, SignatureStep, PTL DEF Spec

\* signature_from_der returns a signature whose numbers are of full width as
\* it was computed, whatever an earlier round left in the buffer.
THEOREM FullSignaturesReturned == Spec => []FullSignatureExact
<1>1. SignatureInv => FullSignatureExact
  BY DEF SignatureInv
<1> QED BY <1>1, SignatureInit, SignatureStep, PTL DEF Spec
===============================================================================

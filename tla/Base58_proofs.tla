---------------------------- MODULE Base58_proofs ----------------------------
(***************************************************************************)
(* base58_encode and base58_decode, proved for every input of every length *)
(* that they take.  The encoder writes digits, and only into its buffer.   *)
(* The number of the bytes read so far is that of the digits so far, the   *)
(* byte on its way included, and 256^8 < 58^11, so that there is room for  *)
(* them all and the loop never ends before the digits do.  Digits of a     *)
(* number with no zero in front are unique: that makes them those of long  *)
(* division, and what is decoded from them the bytes of the input.         *)
(***************************************************************************)
EXTENDS Base58, Numbers, TLAPS

\* Bytes are numbers.
LEMMA BytesAreNumbers ==
  ASSUME NEW s \in Seq(0 .. 255)
  PROVE  s \in Seq(Nat)
<1>1. 0 .. 255 \subseteq Nat
  OBVIOUS
<1> QED BY <1>1, NumbersOf

\* There are no more zeros in front of a sequence than it is long; they are
\* zeros, and what comes behind them is not.
LEMMA ZeroCountOf ==
  ASSUME NEW s \in Seq(Nat)
  PROVE  /\ ZeroCount(s) \in 0 .. Len(s)
         /\ \A i \in 1 .. ZeroCount(s) : s[i] = 0
         /\ ZeroCount(s) < Len(s) => s[ZeroCount(s) + 1] # 0
<1> DEFINE T == {i \in DOMAIN s : s[i] # 0} \cup {Len(s) + 1}
<1>1. T \subseteq 1 .. Len(s) + 1 /\ T # {}
  OBVIOUS
<1>2. PICK x \in T : \A y \in T : x <= y
  <2>1. T \subseteq Nat
    BY <1>1
  <2> HIDE DEF T
  <2> QED BY <1>1, <2>1, LeastNumber
<1>3. Min(T) \in T /\ \A y \in T : Min(T) <= y
  <2> HIDE DEF T
  <2> QED BY <1>2 DEF Min
<1>4. ZeroCount(s) = Min(T) - 1
  BY DEF ZeroCount
<1>5. Len(s) \in Nat
  OBVIOUS
<1>6. PICK m \in 1 .. Len(s) + 1 : m = Min(T)
  <2> HIDE DEF T
  <2> QED BY <1>1, <1>3
<1>7. ASSUME NEW i \in 1 .. m - 1 PROVE s[i] = 0
  <2>1. i \in DOMAIN s /\ ~(m <= i)
    BY <1>5, <1>6
  <2>2. i \notin T
    <3> HIDE DEF T
    <3> QED BY <1>3, <1>6, <2>1
  <2> QED BY <2>1, <2>2
<1>8. m <= Len(s) => s[m] # 0
  <2>1. m \in T
    <3> HIDE DEF T
    <3> QED BY <1>3, <1>6
  <2> QED BY <1>5, <2>1
<1>9. ZeroCount(s) = m - 1 /\ (m - 1) + 1 = m
  BY <1>4, <1>6
<1> HIDE DEF T
<1>10. ZeroCount(s) \in 0 .. Len(s)
  BY <1>5, <1>9
<1>11. \A i \in 1 .. ZeroCount(s) : s[i] = 0
  BY <1>7, <1>9
<1>12. ZeroCount(s) < Len(s) => s[ZeroCount(s) + 1] # 0
  BY <1>5, <1>8, <1>9
<1> QED BY <1>10, <1>11, <1>12

\* The same for bytes
LEMMA ZeroCountIs ==
  ASSUME NEW s \in Seq(0 .. 255)
  PROVE  /\ ZeroCount(s) \in 0 .. Len(s)
         /\ \A i \in 1 .. ZeroCount(s) : s[i] = 0
         /\ ZeroCount(s) < Len(s) => s[ZeroCount(s) + 1] # 0
<1>1. s \in Seq(Nat)
  BY BytesAreNumbers
<1> QED BY <1>1, ZeroCountOf

\* There is room for one digit at least.
LEMMA OutputSizeType ==
  ASSUME input \in Seq(0 .. 255)
  PROVE  OutputSize \in Nat /\ OutputSize >= 1
<1>1. Len(input) - ZeroCount(input) \in Nat
  BY ZeroCountIs
<1> DEFINE n == Len(input) - ZeroCount(input)
<1>2. (n * 138) \div 100 \in Nat
  <2> HIDE DEF n
  <2> QED BY <1>1 DEF n
<1> QED BY <1>2 DEF OutputSize

\* The state of the encoder
EncodeInv ==
  /\ input \in Seq(0 .. 255)
  /\ phase \in {"bytes", "digits", "encoded", "decoding", "decoded", "refused"}
  /\ TypeOK

\* It holds to begin with.
LEMMA EncodeInit == Init => EncodeInv
<1> SUFFICES ASSUME Init PROVE EncodeInv
  OBVIOUS
<1>1. input \in Seq(0 .. 255)
  BY Base58Assumption DEF Init
<1>2. ZeroCount(input) \in 0 .. Len(input)
  BY <1>1, ZeroCountIs
<1>3. OutputSize \in Nat /\ OutputSize >= 1
  BY <1>1, OutputSizeType
<1>4. stop_at \in Places
  BY <1>3 DEF Init, Places
<1>5. buffer \in [Places -> Digit] /\ carry \in 0 .. 255
  BY DEF Init, Digit
<1>6. phase \in {"bytes", "refused"} /\ start_at \in 0 .. Len(input)
  BY <1>2 DEF Init
<1> QED BY <1>1, <1>4, <1>5, <1>6 DEF EncodeInv, TypeOK

\* A digit and a carry leave a digit and a carry.
LEMMA SumSplits ==
  ASSUME NEW c \in 0 .. 255, NEW d \in Digit
  PROVE  /\ (c + 256 * d) % 58 \in Digit
         /\ (c + 256 * d) \div 58 \in 0 .. 255
BY DEF Digit

\* One turn of the inner loop writes a digit, and goes on within the buffer.
LEMMA DigitStep == EncodeInv /\ NextDigit => EncodeInv'
<1> SUFFICES ASSUME EncodeInv, NextDigit PROVE EncodeInv'
  OBVIOUS
<1> DEFINE sum == carry + 256 * buffer[j]
<1>1. /\ input' = input /\ OutputSize' = OutputSize /\ Places' = Places
      /\ phase = "digits" /\ j \in Places /\ start_at < Len(input)
  BY DEF NextDigit, EncodeInv, TypeOK, OutputSize, Places
<1>2. OutputSize \in Nat /\ OutputSize >= 1
  BY OutputSizeType DEF EncodeInv
<1>3. buffer[j] \in Digit /\ carry \in 0 .. 255
  BY <1>1 DEF EncodeInv, TypeOK
<1>4. sum % 58 \in Digit /\ sum \div 58 \in 0 .. 255
  BY <1>3, SumSplits
<1>5. buffer' \in [Places -> Digit] /\ carry' \in 0 .. 255
  <2>1. buffer' = [buffer EXCEPT ![j] = sum % 58] /\ carry' = sum \div 58
    BY DEF NextDigit, LowDigit
  <2> HIDE DEF sum
  <2> QED BY <1>1, <1>4, <2>1 DEF EncodeInv, TypeOK
<1>6. Len(input) \in Nat /\ start_at \in 0 .. Len(input)
  BY <1>1 DEF EncodeInv, TypeOK
<1>7. \/ phase' = "digits" /\ j > 0 /\ j' = j - 1 /\ UNCHANGED <<start_at, stop_at>>
      \/ phase' = "bytes" /\ start_at' = start_at + 1 /\ stop_at' \in {j, Wrapped}
  BY <1>1 DEF NextDigit
<1>8. CASE phase' = "digits" /\ j > 0 /\ j' = j - 1 /\ UNCHANGED <<start_at, stop_at>>
  <2>1. j' \in Places
    BY <1>1, <1>2, <1>8 DEF Places
  <2> QED BY <1>1, <1>5, <1>8, <2>1 DEF EncodeInv, TypeOK
<1>9. CASE phase' = "bytes" /\ start_at' = start_at + 1 /\ stop_at' \in {j, Wrapped}
  <2>1. start_at' \in 0 .. Len(input)
    BY <1>1, <1>6, <1>9
  <2> QED BY <1>1, <1>5, <1>9, <2>1 DEF EncodeInv, TypeOK
<1> QED BY <1>7, <1>8, <1>9

\* Each step keeps it.
LEMMA EncodeStep == EncodeInv /\ [Next]_vars => EncodeInv'
<1> SUFFICES ASSUME EncodeInv, [Next]_vars PROVE EncodeInv'
  OBVIOUS
<1>1. OutputSize \in Nat /\ OutputSize >= 1
  BY OutputSizeType DEF EncodeInv
<1>2. Len(input) \in Nat
  BY DEF EncodeInv
<1>3. CASE NextByte
  <2>1. start_at \in 0 .. Len(input) /\ start_at < Len(input)
    BY <1>3 DEF NextByte, EncodeInv, TypeOK
  <2>2. start_at + 1 \in 1 .. Len(input)
    BY <1>2, <2>1
  <2>3. input[start_at + 1] \in 0 .. 255
    <3>1. input \in Seq(0 .. 255)
      BY DEF EncodeInv
    <3> QED BY <2>2, <3>1, ElementOfSeq
  <2>4. OutputSize - 1 \in Places
    BY <1>1 DEF Places
  <2> QED BY <1>3, <2>1, <2>3, <2>4 DEF NextByte, EncodeInv, TypeOK, Places, OutputSize
<1>4. CASE NextDigit
  BY <1>4, DigitStep
<1>5. CASE Finish
  BY <1>5 DEF Finish, EncodeInv, TypeOK, Places, OutputSize
<1>6. CASE StartDecoding
  BY <1>6 DEF StartDecoding, EncodeInv, TypeOK, Places, OutputSize
<1>7. CASE NextQuotient
  BY <1>7 DEF NextQuotient, EncodeInv, TypeOK, Places, OutputSize
<1>8. CASE FinishDecoding
  BY <1>8 DEF FinishDecoding, EncodeInv, TypeOK, Places, OutputSize
<1>9. CASE UNCHANGED vars
  BY <1>9 DEF vars, EncodeInv, TypeOK, Places, OutputSize
<1> QED BY <1>3, <1>4, <1>5, <1>6, <1>7, <1>8, <1>9 DEF Next

\* base58_encode writes digits, for each of which there is a character, at
\* places of its buffer, and a carry is never more than a byte: for all input.
THEOREM DigitsInPlace == Spec => []TypeOK
<1>1. EncodeInv => TypeOK
  BY DEF EncodeInv
<1> QED BY <1>1, EncodeInit, EncodeStep, PTL DEF Spec

-----------------------------------------------------------------------------

(* How far a number reaches: the room that there is                        *)

\* The last place that the digits of k bytes may come to, from the end on
Bound(k) == (11 * k) \div 8

\* Eight more bytes are eleven more digits.
LEMMA BoundGrows ==
  ASSUME NEW k \in Nat
  PROVE  /\ Bound(k) \in Nat /\ Bound(k) + 1 <= Bound(k + 1)
         /\ Bound(k) <= (k * 138) \div 100
         /\ k >= 8 => Bound(k) = Bound(k - 8) + 11
BY DEF Bound

\* More bytes are no fewer digits.
LEMMA BoundGrowsAll ==
  ASSUME NEW k \in Nat, NEW n \in Nat, k <= n
  PROVE  Bound(k) <= Bound(n)
BY DEF Bound

\* 256 to the eighth is less than 58 to the eleventh.
LEMMA EightBytes ==
  ASSUME NEW x \in [0 .. 8 -> Nat], \A i \in 1 .. 8 : x[i] <= 256 * x[i - 1] + 255,
         NEW y \in [0 .. 11 -> Nat], \A i \in 1 .. 11 : y[i] = 58 * y[i - 1],
         x[0] < y[0]
  PROVE  x[8] < y[11]
<1>1. /\ x[1] <= 256 * x[0] + 255 /\ x[2] <= 256 * x[1] + 255 /\ x[3] <= 256 * x[2] + 255
      /\ x[4] <= 256 * x[3] + 255 /\ x[5] <= 256 * x[4] + 255 /\ x[6] <= 256 * x[5] + 255
      /\ x[7] <= 256 * x[6] + 255 /\ x[8] <= 256 * x[7] + 255
  <2>1. \A i \in 0 .. 7 : i + 1 \in 1 .. 8 /\ (i + 1) - 1 = i
    OBVIOUS
  <2>2. \A i \in 0 .. 7 : x[i + 1] <= 256 * x[i] + 255
    BY <2>1
  <2> QED BY <2>2
<1>2. /\ y[1] = 58 * y[0] /\ y[2] = 58 * y[1] /\ y[3] = 58 * y[2] /\ y[4] = 58 * y[3]
      /\ y[5] = 58 * y[4] /\ y[6] = 58 * y[5] /\ y[7] = 58 * y[6] /\ y[8] = 58 * y[7]
      /\ y[9] = 58 * y[8] /\ y[10] = 58 * y[9] /\ y[11] = 58 * y[10]
  <2>1. \A i \in 0 .. 10 : i + 1 \in 1 .. 11 /\ (i + 1) - 1 = i
    OBVIOUS
  <2>2. \A i \in 0 .. 10 : y[i + 1] = 58 * y[i]
    BY <2>1
  <2> QED BY <2>2
<1>3. PICK x0 \in Nat : x0 = x[0]
  OBVIOUS
<1>9. PICK x4 \in Nat : x4 = x[4]
  OBVIOUS
<1>10. PICK x8 \in Nat : x8 = x[8]
  OBVIOUS
<1>4. PICK y0 \in Nat : y0 = y[0]
  OBVIOUS
<1>5. x8 + 1 <= 256 * 256 * 256 * 256 * (256 * 256 * 256 * 256 * (x0 + 1))
  <2>1. x4 + 1 <= 256 * 256 * 256 * 256 * (x0 + 1)
    <3>1. \A i \in 0 .. 8 : x[i] \in Nat
      OBVIOUS
    <3> QED BY <1>1, <1>3, <1>9, <3>1
  <2>2. x8 + 1 <= 256 * 256 * 256 * 256 * (x4 + 1)
    <3>1. \A i \in 0 .. 8 : x[i] \in Nat
      OBVIOUS
    <3> QED BY <1>1, <1>9, <1>10, <3>1
  <2> QED BY <2>1, <2>2
<1>6. y[11] = 58 * 58 * 58 * 58 * 58 * 58 * (58 * 58 * 58 * 58 * 58 * y0)
  <2>1. PICK y5 \in Nat : y5 = y[5]
    OBVIOUS
  <2>2. y5 = 58 * 58 * 58 * 58 * 58 * y0
    BY <1>2, <1>4, <2>1
  <2>3. y[11] = 58 * 58 * 58 * 58 * 58 * 58 * y5
    BY <1>2, <2>1
  <2> QED BY <2>2, <2>3
<1>7. x0 + 1 <= y0
  BY <1>3, <1>4
<1>8. 256 * 256 * 256 * 256 * (256 * 256 * 256 * 256 * (x0 + 1))
        <= 58 * 58 * 58 * 58 * 58 * 58 * (58 * 58 * 58 * 58 * 58 * y0)
  BY <1>7
<1> QED BY <1>5, <1>6, <1>8, <1>10

\* A number of k bytes is less than the power of 58 behind that place: 256 to
\* the eighth is less than 58 to the eleventh, and the fewer bytes are so each.
LEMMA BytesReach ==
  ASSUME NEW b \in Seq(0 .. 255), NEW w, Makes(w, 256, 0, b),
         NEW m \in Nat, NEW f, Powers(f, 58, m),
         NEW k \in 0 .. Len(b), Bound(k) + 1 <= m
  PROVE  w[k] < f[Bound(k) + 1]
<1> DEFINE Bad == {i \in 0 .. k : ~(w[i] < f[Bound(i) + 1])}
<1>0. /\ f[0] = 1 /\ (\A i \in 0 .. m : f[i] \in Nat) /\ \A i \in 1 .. m : f[i] = 58 * f[i - 1]
      /\ Len(b) \in Nat
  BY PowersAre
<1>1. /\ w[0] = 0
      /\ \A i \in 0 .. k : w[i] \in Nat
      /\ \A i \in 1 .. k : w[i] <= 256 * w[i - 1] + 255
  <2>1. w \in [0 .. Len(b) -> Nat] /\ w[0] = 0 /\ \A i \in 1 .. Len(b) : w[i] = 256 * w[i - 1] + b[i]
    BY DEF Makes
  <2>2. ASSUME NEW i \in 1 .. k PROVE w[i] <= 256 * w[i - 1] + 255
    <3>1. i \in 1 .. Len(b) /\ i - 1 \in 0 .. Len(b)
      BY <1>0
    <3>2. b[i] \in 0 .. 255 /\ w[i - 1] \in Nat
      BY <2>1, <3>1, ElementOfSeq
    <3>3. PICK x \in Nat : x = w[i - 1]
      BY <3>2
    <3>4. PICK y \in 0 .. 255 : y = b[i]
      BY <3>2
    <3>5. w[i] = 256 * x + y
      BY <2>1, <3>1, <3>3, <3>4
    <3>6. 256 * x + y <= 256 * x + 255
      OBVIOUS
    <3> QED BY <3>3, <3>5, <3>6
  <2>3. ASSUME NEW i \in 0 .. k PROVE w[i] \in Nat
    <3>1. i \in 0 .. Len(b)
      BY <1>0
    <3> QED BY <2>1, <3>1
  <2> QED BY <2>1, <2>2, <2>3
<1>2. ASSUME NEW i \in 0 .. k PROVE Bound(i) + 1 <= m /\ Bound(i) \in Nat
  BY DEF Bound
<1>3. Bad = {}
  <2> SUFFICES ASSUME Bad # {} PROVE FALSE
    OBVIOUS
  <2>1. PICK i \in Bad : \A h \in Bad : i <= h
    <3>1. Bad \subseteq Nat
      OBVIOUS
    <3> HIDE DEF Bad
    <3> QED BY <3>1, LeastNumber
  <2>2. i \in 0 .. k /\ ~(w[i] < f[Bound(i) + 1])
    BY <2>1
  <2>3. CASE i >= 8
    <3>1. i - 8 \in 0 .. k /\ ~(i <= i - 8)
      BY <2>2, <2>3
    <3>2. w[i - 8] < f[Bound(i - 8) + 1]
      BY <2>1, <3>1
    <3>3. Bound(i) = Bound(i - 8) + 11 /\ Bound(i - 8) \in Nat /\ Bound(i) + 1 <= m
      BY <1>2, <2>2, <2>3, <3>1, BoundGrows
    <3>4. PICK h \in Nat : h = Bound(i - 8) + 1
      BY <3>3
    <3> DEFINE x == [y \in 0 .. 8 |-> w[(i - 8) + y]]
               z == [y \in 0 .. 11 |-> f[h + y]]
    <3>5. x \in [0 .. 8 -> Nat] /\ \A y \in 1 .. 8 : x[y] <= 256 * x[y - 1] + 255
      <4>1. \A y \in 0 .. 8 : (i - 8) + y \in 0 .. k
        BY <2>2, <2>3
      <4>2. ASSUME NEW y \in 1 .. 8 PROVE x[y] <= 256 * x[y - 1] + 255
        <5>1. /\ (i - 8) + y \in 1 .. k /\ ((i - 8) + y) - 1 = (i - 8) + (y - 1)
              /\ y \in 0 .. 8 /\ y - 1 \in 0 .. 8
          <6>1. i \in 8 .. k
            BY <2>2, <2>3
          <6> HIDE DEF x, z
          <6> QED BY <6>1, SMTT(30)
        <5>2. w[(i - 8) + y] <= 256 * w[(i - 8) + (y - 1)] + 255
          BY <1>1, <5>1
        <5> QED BY <5>1, <5>2
      <4> QED BY <1>1, <4>1, <4>2
    <3>6. z \in [0 .. 11 -> Nat] /\ \A y \in 1 .. 11 : z[y] = 58 * z[y - 1]
      <4>3. h + 11 <= m
        BY <3>3, <3>4
      <4>1. \A y \in 0 .. 11 : h + y \in 0 .. m
        BY <4>3, SMTT(30)
      <4>2. ASSUME NEW y \in 1 .. 11 PROVE z[y] = 58 * z[y - 1]
        <5>1. h + y \in 1 .. m /\ (h + y) - 1 = h + (y - 1) /\ y \in 0 .. 11 /\ y - 1 \in 0 .. 11
          <6> HIDE DEF x, z
          <6> QED BY <4>3, SMTT(30)
        <5>2. f[h + y] = 58 * f[h + (y - 1)]
          BY <1>0, <5>1
        <5> QED BY <5>1, <5>2
      <4> QED BY <1>0, <4>1, <4>2
    <3>7. x[0] = w[i - 8] /\ x[8] = w[i] /\ z[0] = f[h] /\ z[11] = f[Bound(i) + 1]
      <4>1. (i - 8) + 0 = i - 8 /\ (i - 8) + 8 = i /\ h + 0 = h /\ h + 11 = Bound(i) + 1
        BY <2>2, <3>3, <3>4
      <4> QED BY <4>1
    <3> HIDE DEF x, z
    <3>8. x[8] < z[11]
      BY <3>2, <3>4, <3>5, <3>6, <3>7, EightBytes
    <3> QED BY <2>2, <3>7, <3>8
  <2>4. CASE i < 8
    <3>1. ASSUME NEW y \in 1 .. 7, y <= k, NEW c \in Nat, w[y - 1] <= c
          PROVE  w[y] <= 256 * c + 255
      <4>1. w[y - 1] \in Nat /\ w[y] \in Nat /\ w[y] <= 256 * w[y - 1] + 255
        <5>1. y \in 1 .. k /\ y \in 0 .. k /\ y - 1 \in 0 .. k
          BY <3>1
        <5> QED BY <1>1, <5>1
      <4>2. PICK x \in Nat, z \in Nat : x = w[y - 1] /\ z = w[y]
        BY <4>1
      <4>3. z <= 256 * x + 255 /\ x <= c
        BY <3>1, <4>1, <4>2
      <4>4. z <= 256 * c + 255
        BY <4>3
      <4> QED BY <4>2, <4>4
    <3>2. /\ w[0] <= 0 /\ (1 <= k => w[1] <= 255) /\ (2 <= k => w[2] <= 65535)
          /\ (3 <= k => w[3] <= 16777215) /\ (4 <= k => w[4] <= 4294967295)
          /\ (5 <= k => w[5] <= 1099511627775) /\ (6 <= k => w[6] <= 281474976710655)
          /\ (7 <= k => w[7] <= 72057594037927935)
      <4>1. w[0] <= 0
        BY <1>1
      <4>2. 1 <= k => w[1] <= 255
        BY <3>1, <4>1
      <4>3. 2 <= k => w[2] <= 65535
        BY <3>1, <4>2
      <4>4. 3 <= k => w[3] <= 16777215
        BY <3>1, <4>3
      <4>5. 4 <= k => w[4] <= 4294967295
        BY <3>1, <4>4
      <4>6. 5 <= k => w[5] <= 1099511627775
        BY <3>1, <4>5
      <4>7. 6 <= k => w[6] <= 281474976710655
        BY <3>1, <4>6
      <4>8. 7 <= k => w[7] <= 72057594037927935
        BY <3>1, <4>7
      <4> QED BY <4>1, <4>2, <4>3, <4>4, <4>5, <4>6, <4>7, <4>8
    <3>3. /\ (1 <= m => f[1] = 58) /\ (2 <= m => f[2] = 3364) /\ (3 <= m => f[3] = 195112)
          /\ (5 <= m => f[5] = 656356768) /\ (6 <= m => f[6] = 38068692544)
          /\ (7 <= m => f[7] = 2207984167552) /\ (9 <= m => f[9] = 7427658739644928)
          /\ (10 <= m => f[10] = 430804206899405824)
      <4>1. ASSUME NEW y \in 1 .. 10, y <= m PROVE f[y] = 58 * f[y - 1]
        BY <1>0, <4>1
      <4>2. 1 <= m => f[1] = 58
        BY <1>0, <4>1
      <4>3. 2 <= m => f[2] = 3364
        BY <4>1, <4>2
      <4>4. 3 <= m => f[3] = 195112
        BY <4>1, <4>3
      <4>5. 4 <= m => f[4] = 11316496
        BY <4>1, <4>4
      <4>6. 5 <= m => f[5] = 656356768
        BY <4>1, <4>5
      <4>7. 6 <= m => f[6] = 38068692544
        BY <4>1, <4>6
      <4>8. 7 <= m => f[7] = 2207984167552
        BY <4>1, <4>7
      <4>9. 8 <= m => f[8] = 128063081718016
        BY <4>1, <4>8
      <4>10. 9 <= m => f[9] = 7427658739644928
        BY <4>1, <4>9
      <4>11. 10 <= m => f[10] = 430804206899405824
        BY <4>1, <4>10
      <4> QED BY <4>2, <4>3, <4>4, <4>6, <4>7, <4>8, <4>10, <4>11
    <3>4. i \in 0 .. 7 /\ i <= k /\ Bound(i) + 1 <= m
      BY <1>2, <2>2, <2>4
    <3>5. /\ Bound(0) = 0 /\ Bound(1) = 1 /\ Bound(2) = 2 /\ Bound(3) = 4
          /\ Bound(4) = 5 /\ Bound(5) = 6 /\ Bound(6) = 8 /\ Bound(7) = 9
      BY DEF Bound
    <3>6. w[i] \in Nat
      BY <1>1, <2>2
    <3>7. i = 0 \/ i = 1 \/ i = 2 \/ i = 3 \/ i = 4 \/ i = 5 \/ i = 6 \/ i = 7
      BY <3>4
    <3>8. w[i] < f[Bound(i) + 1]
      <4>1. i = 0 => w[i] < f[Bound(i) + 1]
        BY <3>2, <3>3, <3>4, <3>5, <3>6, SMTT(30)
      <4>2. i = 1 => w[i] < f[Bound(i) + 1]
        BY <3>2, <3>3, <3>4, <3>5, <3>6, SMTT(30)
      <4>3. i = 2 => w[i] < f[Bound(i) + 1]
        BY <3>2, <3>3, <3>4, <3>5, <3>6, SMTT(30)
      <4>4. i = 3 => w[i] < f[Bound(i) + 1]
        BY <3>2, <3>3, <3>4, <3>5, <3>6, SMTT(30)
      <4>5. i = 4 => w[i] < f[Bound(i) + 1]
        BY <3>2, <3>3, <3>4, <3>5, <3>6, SMTT(30)
      <4>6. i = 5 => w[i] < f[Bound(i) + 1]
        BY <3>2, <3>3, <3>4, <3>5, <3>6, SMTT(30)
      <4>7. i = 6 => w[i] < f[Bound(i) + 1]
        BY <3>2, <3>3, <3>4, <3>5, <3>6, SMTT(30)
      <4>8. i = 7 => w[i] < f[Bound(i) + 1]
        BY <3>2, <3>3, <3>4, <3>5, <3>6, SMTT(30)
      <4> QED BY <3>7, <4>1, <4>2, <4>3, <4>4, <4>5, <4>6, <4>7, <4>8
    <3> QED BY <2>2, <3>8
  <2> QED BY <2>2, <2>3, <2>4
<1>4. k \in 0 .. k
  OBVIOUS
<1> QED BY <1>3, <1>4

-----------------------------------------------------------------------------
(* A byte on its way                                                       *)

\* What the inner loop keeps: p is what the digits of the bytes before make, up
\* to place a, and q what the digits of the bytes with this one do.  At the
\* place where they meet a byte's worth and the carry are between them.
Carried(p, q, a, c, d) ==
  /\ p \in [0 .. Len(d) -> Nat] /\ p[0] = 0
  /\ \A i \in 1 .. a : p[i] = 58 * p[i - 1] + d[i]
  /\ q \in [0 .. Len(d) -> Nat] /\ q[a] = 256 * p[a] + c
  /\ \A i \in a + 1 .. Len(d) : q[i] = 58 * q[i - 1] + d[i]

\* A byte begins at the last digit.
LEMMA CarriedStart ==
  ASSUME NEW d \in Seq(Digit), NEW p, Makes(p, 58, 0, d), NEW c \in Nat
  PROVE  \E q : Carried(p, q, Len(d), c, d) /\ q[Len(d)] = 256 * p[Len(d)] + c
<1> DEFINE q == [i \in 0 .. Len(d) |-> 256 * p[i] + c]
<1>1. Len(d) \in Nat /\ Len(d) \in 0 .. Len(d)
  OBVIOUS
<1>2. p \in [0 .. Len(d) -> Nat] /\ p[0] = 0 /\ \A i \in 1 .. Len(d) : p[i] = 58 * p[i - 1] + d[i]
  BY DEF Makes
<1>3. q \in [0 .. Len(d) -> Nat] /\ q[Len(d)] = 256 * p[Len(d)] + c
  BY <1>1, <1>2
<1>4. Len(d) + 1 .. Len(d) = {}
  BY <1>1
<1> HIDE DEF q
<1>5. Carried(p, q, Len(d), c, d)
  BY <1>2, <1>3, <1>4 DEF Carried
<1> QED BY <1>3, <1>5

\* A sum is the digit that is written and what is carried.
LEMMA SumIs ==
  ASSUME NEW x \in Nat, NEW c \in Nat, NEW b \in Nat, NEW y \in Nat, y = 58 * x + b,
         NEW u \in Nat, NEW v \in Nat,
         u = (c + 256 * b) \div 58, v = (c + 256 * b) % 58
  PROVE  256 * y + c = 58 * (256 * x + u) + v
<1>1. PICK s \in Nat : s = c + 256 * b
  OBVIOUS
<1>2. s = 58 * (s \div 58) + (s % 58)
  BY <1>1
<1>3. 256 * y + c = 58 * 256 * x + s
  BY <1>1
<1>4. s = 58 * u + v
  BY <1>1, <1>2
<1> QED BY <1>3, <1>4

\* A digit is a number.
LEMMA DigitType ==
  ASSUME NEW d \in Seq(Digit)
  PROVE  d \in Seq(Nat) /\ Len(d) \in Nat /\ \A i \in 1 .. Len(d) : d[i] \in 0 .. 57 /\ d[i] \in Nat
<1>1. \A i \in 1 .. Len(d) : d[i] \in Digit
  BY ElementOfSeq
<1>2. ASSUME NEW i \in 1 .. Len(d) PROVE d[i] \in 0 .. 57 /\ d[i] \in Nat
  <2>1. PICK x \in Digit : x = d[i]
    BY <1>1
  <2>2. x \in 0 .. 57 /\ x \in Nat
    BY DEF Digit
  <2> QED BY <2>1, <2>2
<1> QED BY <1>2

\* One turn of the inner loop
LEMMA CarriedOn ==
  ASSUME NEW d \in Seq(Digit), NEW a \in 1 .. Len(d), NEW c \in Nat, NEW p, NEW q,
         Carried(p, q, a, c, d),
         NEW e \in Seq(Digit), Len(e) = Len(d), \A i \in 1 .. Len(d) : i # a => e[i] = d[i],
         e[a] = (c + 256 * d[a]) % 58
  PROVE  \E r : /\ Carried(p, r, a - 1, (c + 256 * d[a]) \div 58, e)
                /\ r[Len(d)] = q[Len(d)]
<1>1. Len(d) \in Nat /\ a \in Nat /\ a - 1 \in 0 .. Len(d) /\ a - 1 # Len(d) /\ a \in 0 .. Len(d)
  OBVIOUS
<1>2. /\ p \in [0 .. Len(d) -> Nat] /\ p[0] = 0 /\ \A i \in 1 .. a : p[i] = 58 * p[i - 1] + d[i]
      /\ q \in [0 .. Len(d) -> Nat] /\ q[a] = 256 * p[a] + c
      /\ \A i \in a + 1 .. Len(d) : q[i] = 58 * q[i - 1] + d[i]
  BY DEF Carried
<1>3. PICK left \in Nat : left = (c + 256 * d[a]) \div 58
  <2>1. d[a] \in Nat
    BY DigitType
  <2>2. (c + 256 * d[a]) \div 58 \in Nat
    BY <2>1
  <2> QED BY <2>2
<1>4. PICK t \in Nat : t = 256 * p[a - 1] + left
  <2>1. p[a - 1] \in Nat
    BY <1>1, <1>2
  <2>2. 256 * p[a - 1] + left \in Nat
    BY <2>1
  <2> QED BY <2>2
<1> DEFINE r == [q EXCEPT ![a - 1] = t]
<1>5. r \in [0 .. Len(d) -> Nat] /\ r[a - 1] = t /\ r[Len(d)] = q[Len(d)] /\ r[a] = q[a]
  BY <1>1, <1>2
<1>6. \A i \in 0 .. Len(d) : i # a - 1 => r[i] = q[i]
  BY <1>2
<1> HIDE DEF r
<1>7. \A i \in 1 .. a - 1 : p[i] = 58 * p[i - 1] + e[i]
  BY <1>1, <1>2
<1>8. r[a] = 58 * r[a - 1] + e[a]
  <2>1. d[a] \in Nat
    BY DigitType
  <2>2. p[a - 1] \in Nat /\ p[a] \in Nat /\ p[a] = 58 * p[a - 1] + d[a]
    <3>1. a \in 1 .. a
      BY <1>1
    <3>2. p[a] = 58 * p[a - 1] + d[a]
      BY <1>2, <3>1
    <3> QED BY <1>1, <1>2, <3>2
  <2>3. PICK x \in Nat, y \in Nat : x = p[a - 1] /\ y = p[a]
    BY <2>2
  <2>4. PICK b \in Nat : b = d[a]
    BY <2>1
  <2>5. y = 58 * x + b
    BY <2>2, <2>3, <2>4
  <2>6. PICK v \in Nat : v = (c + 256 * b) % 58
    OBVIOUS
  <2>7. left = (c + 256 * b) \div 58
    BY <1>3, <2>4
  <2>8. 256 * y + c = 58 * (256 * x + left) + v
    BY <2>5, <2>6, <2>7, SumIs
  <2>9. e[a] = v
    BY <2>4, <2>6
  <2>10. r[a] = 256 * y + c /\ r[a - 1] = 256 * x + left
    BY <1>2, <1>4, <1>5, <2>3
  <2> QED BY <2>8, <2>9, <2>10
<1>9. ASSUME NEW i \in a .. Len(d) PROVE r[i] = 58 * r[i - 1] + e[i]
  <2>1. CASE i = a
    BY <1>8, <2>1
  <2>2. CASE i # a
    <3>1. /\ i \in a + 1 .. Len(d) /\ i \in 1 .. Len(d) /\ i \in 0 .. Len(d) /\ i # a - 1
          /\ i - 1 \in 0 .. Len(d) /\ i - 1 # a - 1
      BY <1>1, <2>2
    <3>2. r[i] = q[i] /\ r[i - 1] = q[i - 1] /\ e[i] = d[i]
      BY <1>6, <2>2, <3>1
    <3>3. q[i] = 58 * q[i - 1] + d[i]
      BY <1>2, <3>1
    <3> QED BY <3>2, <3>3
  <2> QED BY <2>1, <2>2
<1>10. (a - 1) + 1 = a
  BY <1>1
<1>11. Carried(p, r, a - 1, left, e)
  BY <1>2, <1>4, <1>5, <1>7, <1>9, <1>10 DEF Carried
<1> QED BY <1>3, <1>5, <1>11

\* A byte is through where nothing is carried and no digit is ahead.
LEMMA CarriedThrough ==
  ASSUME NEW d \in Seq(Digit), NEW a \in 0 .. Len(d), NEW p, NEW q,
         Carried(p, q, a, 0, d), \A i \in 1 .. a : d[i] = 0
  PROVE  \E r : Makes(r, 58, 0, d) /\ r[Len(d)] = q[Len(d)]
<1>1. Len(d) \in Nat /\ d \in Seq(Nat) /\ a \in Nat
  BY DigitType
<1>2. /\ p \in [0 .. Len(d) -> Nat] /\ p[0] = 0 /\ \A i \in 1 .. a : p[i] = 58 * p[i - 1] + d[i]
      /\ q \in [0 .. Len(d) -> Nat] /\ q[a] = 256 * p[a] + 0
      /\ \A i \in a + 1 .. Len(d) : q[i] = 58 * q[i - 1] + d[i]
  BY DEF Carried
<1>3. PICK r : Makes(r, 58, 0, d)
  BY <1>1, MakesExists
<1>4. \A i \in 0 .. a : r[i] = 0
  BY <1>1, <1>3, ZerosMakeZero
<1> DEFINE Bad == {i \in 0 .. a : p[i] # 0}
           Odd == {i \in a .. Len(d) : r[i] # q[i]}
<1>5. Bad = {}
  <2> SUFFICES ASSUME Bad # {} PROVE FALSE
    OBVIOUS
  <2>1. PICK k \in Bad : \A h \in Bad : k <= h
    <3>1. Bad \subseteq Nat
      BY <1>1
    <3> HIDE DEF Bad
    <3> QED BY <3>1, LeastNumber
  <2>2. k \in 0 .. a /\ p[k] # 0
    BY <2>1
  <2>3. k # 0
    BY <1>2, <2>2
  <2>4. k - 1 \in 0 .. a /\ ~(k <= k - 1) /\ k \in 1 .. a
    BY <2>2, <2>3
  <2>5. p[k - 1] = 0
    BY <2>1, <2>4
  <2>6. p[k] = 58 * 0 + 0
    BY <1>2, <2>4, <2>5
  <2> QED BY <2>2, <2>6
<1>6. Odd = {}
  <2> SUFFICES ASSUME Odd # {} PROVE FALSE
    OBVIOUS
  <2>1. PICK k \in Odd : \A h \in Odd : k <= h
    <3>1. Odd \subseteq Nat
      BY <1>1
    <3> HIDE DEF Odd
    <3> QED BY <3>1, LeastNumber
  <2>2. k \in a .. Len(d) /\ r[k] # q[k]
    BY <2>1
  <2>3. k # a
    <3>1. a \in 0 .. a /\ p[a] = 0
      BY <1>1, <1>5
    <3>2. r[a] = 0 /\ q[a] = 256 * 0 + 0
      BY <1>2, <1>4, <3>1
    <3> QED BY <2>2, <3>2
  <2>4. k - 1 \in a .. Len(d) /\ ~(k <= k - 1) /\ k \in a + 1 .. Len(d) /\ k \in 1 .. Len(d)
    BY <1>1, <2>2, <2>3
  <2>5. r[k - 1] = q[k - 1]
    BY <2>1, <2>4
  <2>6. r[k] = 58 * r[k - 1] + d[k] /\ q[k] = 58 * q[k - 1] + d[k]
    BY <1>2, <1>3, <2>4 DEF Makes
  <2> QED BY <2>2, <2>5, <2>6
<1>7. Len(d) \in a .. Len(d)
  BY <1>1
<1> QED BY <1>3, <1>6, <1>7

-----------------------------------------------------------------------------
(* What the encoder keeps                                                  *)

\* The bytes that are through, zeros in front apart
Done == start_at - ZeroCount(input)

\* The buffer, from place 1 on
Digits == [i \in 1 .. OutputSize |-> buffer[i - 1]]

\* The places that the bytes so far may have come to, and no further: the loop
\* goes on past the place of the byte before with something to carry only.
RoomInv ==
  /\ phase \in {"bytes", "digits"} =>
       /\ start_at >= ZeroCount(input)
       /\ stop_at \in Places
       /\ OutputSize - 1 - stop_at <= Bound(Done)
  /\ phase = "bytes" => carry = 0
  /\ phase = "digits" => OutputSize - 1 - j <= Bound(Done + 1) /\ (j < stop_at - 1 => carry > 0)

\* The digits are the number that the bytes so far are.
ValueInv ==
  /\ phase = "bytes" =>
       \E p, w : /\ Makes(w, 256, 0, input) /\ Makes(p, 58, 0, Digits)
                 /\ p[OutputSize] = w[start_at]
  /\ phase = "digits" =>
       \E p, q, w : /\ Makes(w, 256, 0, input) /\ Carried(p, q, j + 1, carry, Digits)
                    /\ q[OutputSize] = w[start_at + 1]

\* The digits are digits.
LEMMA DigitsAre ==
  ASSUME EncodeInv
  PROVE  /\ Digits \in Seq(Digit) /\ Len(Digits) = OutputSize
         /\ OutputSize \in Nat /\ OutputSize >= 1
         /\ \A i \in 1 .. OutputSize : Digits[i] = buffer[i - 1] /\ i - 1 \in Places
<1>1. OutputSize \in Nat /\ OutputSize >= 1
  BY OutputSizeType DEF EncodeInv
<1>2. \A i \in 1 .. OutputSize : i - 1 \in Places
  BY <1>1 DEF Places
<1>3. \A i \in 1 .. OutputSize : buffer[i - 1] \in Digit
  BY <1>2 DEF EncodeInv, TypeOK
<1>4. Digits \in Seq(Digit) /\ Len(Digits) = OutputSize
  BY <1>1, <1>3 DEF Digits
<1>5. \A i \in 1 .. OutputSize : Digits[i] = buffer[i - 1]
  BY DEF Digits
<1> QED BY <1>1, <1>2, <1>4, <1>5

\* There is a place for the digits of all bytes.
LEMMA RoomForAll ==
  ASSUME input \in Seq(0 .. 255), NEW s \in ZeroCount(input) .. Len(input)
  PROVE  /\ s - ZeroCount(input) \in Nat
         /\ Bound(s - ZeroCount(input)) \in Nat
         /\ Bound(s - ZeroCount(input)) <= OutputSize - 1
<1>1. Len(input) \in Nat /\ ZeroCount(input) \in 0 .. Len(input)
  BY ZeroCountIs
<1>2. PICK k \in Nat : k = s - ZeroCount(input)
  BY <1>1
<1>3. PICK n \in Nat : n = Len(input) - ZeroCount(input)
  BY <1>1
<1>4. k <= n
  BY <1>1, <1>2, <1>3
<1>5. Bound(k) \in Nat /\ Bound(n) \in Nat /\ Bound(k) <= Bound(n) /\ Bound(n) <= (n * 138) \div 100
  BY <1>4, BoundGrows, BoundGrowsAll
<1>6. OutputSize - 1 = (n * 138) \div 100
  <2>1. (n * 138) \div 100 \in Nat
    OBVIOUS
  <2>2. OutputSize = (n * 138) \div 100 + 1
    BY <1>3 DEF OutputSize
  <2> QED BY <2>1, <2>2
<1>7. (n * 138) \div 100 \in Nat
  OBVIOUS
<1> QED BY <1>2, <1>5, <1>6, <1>7

\* A number of so many bytes does not reach further.
LEMMA BytesReachNoFurther ==
  ASSUME input \in Seq(0 .. 255), NEW s \in ZeroCount(input) .. Len(input),
         NEW w, Makes(w, 256, 0, input),
         NEW n \in Nat, NEW q \in [0 .. n -> Nat], NEW a \in 0 .. n, q[a] >= 1,
         \A i \in a + 1 .. n : q[i] >= 58 * q[i - 1],
         q[n] = w[s]
  PROVE  n - a <= Bound(s - ZeroCount(input))
<1>1. Len(input) \in Nat
  OBVIOUS
<1>2. PICK z \in 0 .. Len(input) : z = ZeroCount(input)
  BY ZeroCountIs
<1>3. PICK k \in Nat : k = s - z
  BY <1>1, <1>2
<1>4. Bound(k) \in Nat
  BY BoundGrows
<1> DEFINE m == n + Bound(k) + 1
           b == SubSeq(input, z + 1, Len(input))
           v == [i \in 0 .. Len(input) - z |-> w[i + z]]
<1>5. m \in Nat /\ Bound(k) + 1 <= m /\ n - a <= m
  <2>1. PICK c \in Nat : c = Bound(k)
    BY <1>4
  <2>2. PICK l \in Nat : l = n + c + 1 /\ c + 1 <= l /\ n - a <= l
    <3>1. n + c + 1 \in Nat /\ c + 1 <= n + c + 1 /\ n - a <= n + c + 1
      OBVIOUS
    <3> QED BY <3>1
  <2> QED BY <2>1, <2>2
<1> HIDE DEF m
<1>6. PICK f : Powers(f, 58, m)
  BY <1>5, PowersExist
<1>7. Makes(v, 256, 0, b)
  <2>1. w[z] = 0
    <3>1. input \in Seq(Nat)
      BY BytesAreNumbers
    <3>2. z \in 0 .. z /\ \A i \in 1 .. z : input[i] = 0
      BY <1>2, ZeroCountIs
    <3> QED BY <3>1, <3>2, ZerosMakeZero, SMTT(60)
  <2>2. input \in Seq(Nat)
    BY BytesAreNumbers
  <2>3. Makes(v, 256, w[z], b)
    BY <1>2, <2>2, MakesBehind, ZenonT(30)
  <2> QED BY <2>1, <2>3
<1>8. k \in 0 .. Len(b) /\ b \in Seq(0 .. 255) /\ v[k] = w[s]
  <2>1. k \in 0 .. Len(input) - z /\ k + z = s
    BY <1>1, <1>2, <1>3
  <2>2. Len(b) = Len(input) - z
    BY <1>1, <1>2
  <2>3. b \in Seq(0 .. 255)
    BY <1>2, Behind
  <2> QED BY <2>1, <2>2, <2>3
<1> HIDE DEF b, v
<1>9. v[k] < f[Bound(k) + 1]
  BY <1>5, <1>6, <1>7, <1>8, BytesReach
<1>10. q[n] >= f[n - a]
  BY <1>5, <1>6, DigitsReach
<1> SUFFICES ASSUME ~(n - a <= Bound(k)) PROVE FALSE
  BY <1>2, <1>3
<1>11. n - a \in Nat /\ Bound(k) + 1 <= n - a
  BY <1>4
<1>15. PICK h \in Nat : h = Bound(k) + 1 /\ h <= n - a /\ n - a <= m /\ h <= m
  BY <1>4, <1>5, <1>11
<1>12. f[Bound(k) + 1] <= f[n - a]
  <2> DEFINE d == [i \in 1 .. m |-> 0]
  <2>1. d \in Seq(Nat) /\ Len(d) = m
    BY <1>5
  <2> HIDE DEF d
  <2>2. Makes(f, 58, 1, d)
    BY <1>6 DEF Powers, d
  <2>4. PICK g \in Nat : g = n - a
    BY <1>11
  <2>5. h \in 0 .. Len(d) /\ g \in h .. Len(d)
    BY <1>15, <2>1, <2>4, SMTT(30)
  <2>6. f[h] <= f[g]
    BY <2>1, <2>2, <2>5, MakesGrows, SMTT(30)
  <2> QED BY <1>15, <2>4, <2>6
<1>13. f[Bound(k) + 1] \in Nat /\ f[n - a] \in Nat
  <2>1. Bound(k) + 1 \in 0 .. m /\ n - a \in 0 .. m
    BY <1>5, <1>11, <1>15
  <2> QED BY <1>5, <1>6, <2>1, PowersAre
<1>14. q[n] \in Nat
  OBVIOUS
<1> QED BY <1>8, <1>9, <1>10, <1>12, <1>13, <1>14

\* The invariant of base58_encode
RoundInv == EncodeInv /\ RoomInv /\ ValueInv /\ NothingAhead

\* Nothing is written yet, and nothing is read but zeros.
LEMMA RoundInit == Init => RoundInv
<1> SUFFICES ASSUME Init PROVE RoundInv
  OBVIOUS
<1>1. EncodeInv
  BY EncodeInit
<1>2. input \in Seq(0 .. 255) /\ ZeroCount(input) \in 0 .. Len(input)
  BY <1>1, ZeroCountIs DEF EncodeInv
<1>3. OutputSize \in Nat /\ OutputSize >= 1
  BY <1>2, OutputSizeType
<1>4. NothingAhead
  BY DEF Init, NothingAhead, Places
<1>5. RoomInv
  <2>1. phase # "digits" /\ carry = 0 /\ start_at = ZeroCount(input) /\ stop_at = OutputSize - 1
    BY DEF Init
  <2>2. stop_at \in Places /\ OutputSize - 1 - stop_at = 0
    BY <1>3, <2>1 DEF Places
  <2>3. Bound(Done) = 0
    <3>1. Done = 0
      BY <1>2, <2>1 DEF Done
    <3> QED BY <3>1 DEF Bound
  <2> QED BY <1>2, <2>1, <2>2, <2>3 DEF RoomInv
<1>6. ValueInv
  <2>1. phase # "digits" /\ start_at = ZeroCount(input)
    BY DEF Init
  <2>2. input \in Seq(Nat)
    BY <1>2, BytesAreNumbers
  <2>3. PICK w : Makes(w, 256, 0, input)
    BY <2>2, MakesExists
  <2>4. w[start_at] = 0
    <3>1. \A i \in 1 .. ZeroCount(input) : input[i] = 0
      BY <1>2, ZeroCountIs
    <3>2. start_at \in 0 .. ZeroCount(input)
      BY <1>2, <2>1
    <3> QED BY <1>2, <2>2, <2>3, <3>1, <3>2, ZerosMakeZero
  <2>5. /\ Digits \in Seq(Nat) /\ Len(Digits) = OutputSize
        /\ \A i \in 1 .. OutputSize : Digits[i] = 0
    <3>1. Digits \in Seq(Digit) /\ Len(Digits) = OutputSize
      BY <1>1, DigitsAre
    <3>2. \A i \in 1 .. OutputSize : Digits[i] = buffer[i - 1] /\ i - 1 \in Places
      BY <1>1, DigitsAre
    <3>3. \A i \in Places : buffer[i] = 0
      BY DEF Init
    <3>4. Digits \in Seq(Nat)
      BY <3>1, DigitType
    <3> QED BY <3>1, <3>2, <3>3, <3>4
  <2>6. PICK p : Makes(p, 58, 0, Digits)
    BY <2>5, MakesExists
  <2>7. p[OutputSize] = 0
    <3>1. OutputSize \in 0 .. Len(Digits) /\ OutputSize \in 0 .. OutputSize
      BY <1>3, <2>5
    <3> QED BY <2>5, <2>6, <3>1, ZerosMakeZero
  <2> QED BY <2>1, <2>3, <2>4, <2>6, <2>7 DEF ValueInv
<1> QED BY <1>1, <1>4, <1>5, <1>6 DEF RoundInv

\* The next byte is added to the digits at the last place.
LEMMA ByteRound == RoundInv /\ NextByte => RoomInv' /\ ValueInv'
<1> SUFFICES ASSUME RoundInv, NextByte PROVE RoomInv' /\ ValueInv'
  OBVIOUS
<1>1. /\ phase = "bytes" /\ phase' = "digits" /\ start_at < Len(input)
      /\ carry' = input[start_at + 1] /\ j' = OutputSize - 1
      /\ UNCHANGED <<input, start_at, stop_at, buffer>>
  BY DEF NextByte
<1>2. OutputSize' = OutputSize /\ Places' = Places /\ Digits' = Digits /\ Done' = Done
  BY <1>1 DEF OutputSize, Places, Digits, Done
<1>3. /\ EncodeInv /\ RoomInv /\ ValueInv /\ input \in Seq(0 .. 255)
      /\ Digits \in Seq(Digit) /\ Len(Digits) = OutputSize /\ OutputSize \in Nat
  BY DigitsAre DEF RoundInv, EncodeInv
<1>4. Len(input) \in Nat /\ ZeroCount(input) \in 0 .. Len(input) /\ start_at \in 0 .. Len(input)
  BY <1>1, <1>3, ZeroCountIs DEF EncodeInv, TypeOK
<1>5. start_at >= ZeroCount(input) /\ stop_at \in Places /\ OutputSize - 1 - stop_at <= Bound(Done)
  BY <1>1, <1>3 DEF RoomInv
<1>6. RoomInv'
  <2>1. Done + 1 \in Nat
    BY <1>4, <1>5 DEF Done
  <2>2. Bound(Done + 1) \in Nat
    BY <2>1, BoundGrows
  <2>3. OutputSize - 1 - j' <= Bound(Done + 1)
    BY <1>1, <1>3, <2>2
  <2>4. ~(j' < stop_at - 1)
    BY <1>1, <1>3, <1>5 DEF Places
  <2>5. (Done + 1)' = Done + 1
    BY <1>2
  <2> QED BY <1>1, <1>2, <1>5, <2>3, <2>4 DEF RoomInv, Bound
<1>7. ValueInv'
  <2>1. PICK p, w : /\ Makes(w, 256, 0, input) /\ Makes(p, 58, 0, Digits)
                    /\ p[OutputSize] = w[start_at]
    BY <1>1, <1>3 DEF ValueInv
  <2>2. start_at + 1 \in 1 .. Len(input) /\ (start_at + 1) - 1 = start_at
    BY <1>1, <1>4
  <2>3. PICK c \in Nat : c = input[start_at + 1]
    <3>1. input[start_at + 1] \in 0 .. 255
      BY <1>3, <2>2, ElementOfSeq
    <3> QED BY <3>1
  <2>4. PICK q : /\ Carried(p, q, Len(Digits), c, Digits)
                 /\ q[Len(Digits)] = 256 * p[Len(Digits)] + c
    BY <1>3, <2>1, CarriedStart
  <2>5. w[start_at + 1] = 256 * w[start_at] + c
    BY <2>1, <2>2, <2>3 DEF Makes
  <2>6. q[OutputSize] = w[start_at + 1]
    BY <1>3, <2>1, <2>4, <2>5
  <2>7. j' + 1 = Len(Digits)
    BY <1>1, <1>3
  <2>8. Carried(p, q, j' + 1, carry', Digits')
    BY <1>1, <1>2, <2>3, <2>4, <2>7
  <2> QED BY <1>1, <1>2, <2>1, <2>6, <2>8 DEF ValueInv
<1> QED BY <1>6, <1>7

\* What the inner loop does at a place: with something left to carry there is
\* a place to the left of it; with nothing left it ends there if it may.
LEMMA PlaceLeft ==
  ASSUME RoundInv, NextDigit
  PROVE  /\ carry' \in Nat /\ Done + 1 \in Nat /\ Bound(Done + 1) \in Nat
         /\ stop_at \in Nat /\ stop_at >= 1 /\ OutputSize - stop_at <= Bound(Done + 1)
         /\ carry' > 0 => OutputSize - j <= Bound(Done + 1) /\ j > 0
         /\ \E p, q, w : /\ Makes(w, 256, 0, input) /\ Carried(p, q, j, carry', Digits')
                         /\ q[OutputSize] = w[start_at + 1]
<1>1. /\ phase = "digits" /\ buffer' = [buffer EXCEPT ![j] = LowDigit(carry + 256 * buffer[j])]
      /\ carry' = (carry + 256 * buffer[j]) \div 58 /\ input' = input
  BY DEF NextDigit
<1>2. /\ EncodeInv /\ RoomInv /\ ValueInv /\ input \in Seq(0 .. 255) /\ EncodeInv'
      /\ j \in Places /\ start_at < Len(input) /\ OutputSize' = OutputSize
  BY <1>1, DigitStep DEF RoundInv, EncodeInv, TypeOK, OutputSize
<1>3. /\ Digits \in Seq(Digit) /\ Len(Digits) = OutputSize /\ OutputSize \in Nat
      /\ \A i \in 1 .. OutputSize : Digits[i] = buffer[i - 1] /\ i - 1 \in Places
  BY <1>2, DigitsAre
<1>4. /\ Digits' \in Seq(Digit) /\ Len(Digits') = OutputSize
      /\ \A i \in 1 .. OutputSize : Digits'[i] = buffer'[i - 1]
  <2>1. Digits' = [i \in 1 .. OutputSize |-> buffer'[i - 1]]
    BY <1>2 DEF Digits
  <2>2. buffer' \in [Places -> Digit]
    BY <1>1, <1>2 DEF EncodeInv, TypeOK, Places
  <2>3. \A i \in 1 .. OutputSize : buffer'[i - 1] \in Digit
    BY <1>3, <2>2
  <2> QED BY <1>3, <2>1, <2>3
<1>5. j \in Nat /\ j + 1 \in 1 .. OutputSize /\ (j + 1) - 1 = j
  BY <1>2, <1>3 DEF Places
<1>6. carry \in Nat /\ carry' \in Nat
  BY <1>2 DEF EncodeInv, TypeOK
<1>7. Len(input) \in Nat /\ ZeroCount(input) \in 0 .. Len(input) /\ start_at \in 0 .. Len(input)
  BY <1>1, <1>2, ZeroCountIs DEF EncodeInv, TypeOK
<1>8. start_at >= ZeroCount(input) /\ stop_at \in Places /\ OutputSize - 1 - stop_at <= Bound(Done)
  BY <1>1, <1>2 DEF RoomInv
<1>9. start_at + 1 \in ZeroCount(input) .. Len(input) /\ Done \in Nat /\ Done + 1 \in Nat
      /\ (start_at + 1) - ZeroCount(input) = Done + 1
  BY <1>2, <1>7, <1>8 DEF Done
<1>10. /\ Bound(Done) \in Nat /\ Bound(Done + 1) \in Nat
       /\ Bound(Done) + 1 <= Bound(Done + 1) /\ Bound(Done + 1) <= OutputSize - 1
  BY <1>2, <1>9, BoundGrows, RoomForAll
<1>11. stop_at \in Nat /\ stop_at >= 1 /\ OutputSize - stop_at <= Bound(Done + 1)
  <2>1. stop_at \in Nat
    BY <1>3, <1>8 DEF Places
  <2> HIDE DEF Bound
  <2> QED BY <1>3, <1>8, <1>10, <2>1
<1>12. PICK p, r, w : /\ Makes(w, 256, 0, input) /\ Carried(p, r, j + 1, carry, Digits)
                      /\ r[OutputSize] = w[start_at + 1]
  BY <1>1, <1>2 DEF ValueInv
<1>13. PICK q : Carried(p, q, j, carry', Digits') /\ q[OutputSize] = r[OutputSize]
  <2> DEFINE a == j + 1
  <2>1. Digits[a] = buffer[j] /\ Digits'[a] = buffer'[j] /\ a - 1 = j
    BY <1>3, <1>4, <1>5
  <2>2. Digits'[a] = (carry + 256 * Digits[a]) % 58
    <3>1. buffer'[j] = LowDigit(carry + 256 * buffer[j])
      BY <1>1, <1>2 DEF EncodeInv, TypeOK
    <3> QED BY <2>1, <3>1 DEF LowDigit
  <2>3. \A i \in 1 .. Len(Digits) : i # a => Digits'[i] = Digits[i]
    <3>1. ASSUME NEW i \in 1 .. OutputSize, i # a PROVE Digits'[i] = Digits[i]
      <4>1. i - 1 \in Places /\ i - 1 # j
        BY <1>3, <1>5, <3>1, SMTT(30)
      <4>2. buffer'[i - 1] = buffer[i - 1]
        BY <1>1, <1>2, <4>1 DEF EncodeInv, TypeOK
      <4> QED BY <1>3, <1>4, <4>2
    <3> QED BY <1>3, <3>1
  <2>4. a \in 1 .. Len(Digits) /\ Len(Digits') = Len(Digits)
    BY <1>3, <1>4, <1>5
  <2>5. Carried(p, r, a, carry, Digits)
    BY <1>12
  <2> HIDE DEF a
  <2>6. \E t : /\ Carried(p, t, a - 1, (carry + 256 * Digits[a]) \div 58, Digits')
               /\ t[Len(Digits)] = r[Len(Digits)]
    <3>1. PICK d, e : d = Digits /\ e = Digits'
      OBVIOUS
    <3>2. PICK c \in Nat : c = carry
      BY <1>6
    <3>3. /\ d \in Seq(Digit) /\ e \in Seq(Digit) /\ Len(e) = Len(d) /\ a \in 1 .. Len(d)
          /\ \A i \in 1 .. Len(d) : i # a => e[i] = d[i]
          /\ e[a] = (c + 256 * d[a]) % 58 /\ Carried(p, r, a, c, d)
      BY <1>3, <1>4, <2>2, <2>3, <2>4, <2>5, <3>1, <3>2
    <3>4. \E t : /\ Carried(p, t, a - 1, (c + 256 * d[a]) \div 58, e)
                 /\ t[Len(d)] = r[Len(d)]
      BY <3>3, CarriedOn
    <3> QED BY <3>1, <3>2, <3>4
  <2> QED BY <1>1, <1>3, <2>1, <2>6
<1>14. ASSUME carry' > 0 PROVE OutputSize - j <= Bound(Done + 1) /\ j > 0
  <2>1. /\ p \in [0 .. OutputSize -> Nat] /\ q \in [0 .. OutputSize -> Nat]
        /\ q[j] = 256 * p[j] + carry'
        /\ \A i \in j + 1 .. OutputSize : q[i] = 58 * q[i - 1] + Digits'[i]
    BY <1>4, <1>13 DEF Carried
  <2>2. j \in 0 .. OutputSize
    BY <1>3, <1>5
  <2>3. q[j] >= 1
    <3>1. PICK x \in Nat : x = p[j]
      BY <2>1, <2>2
    <3> QED BY <1>6, <1>14, <2>1, <3>1
  <2>4. ASSUME NEW i \in j + 1 .. OutputSize PROVE q[i] >= 58 * q[i - 1]
    <3>1. i \in 1 .. OutputSize /\ i - 1 \in 0 .. OutputSize
      BY <1>3, <1>5
    <3>2. PICK x \in Nat : x = q[i - 1]
      BY <2>1, <3>1
    <3>3. PICK y \in Nat : y = Digits'[i]
      BY <1>4, <3>1, DigitType
    <3>4. q[i] = 58 * x + y
      BY <2>1, <3>2, <3>3
    <3> QED BY <3>2, <3>4
  <2>5. q[OutputSize] = w[start_at + 1]
    BY <1>12, <1>13
  <2>6. OutputSize - j <= Bound((start_at + 1) - ZeroCount(input))
    BY <1>2, <1>3, <1>9, <1>12, <2>1, <2>2, <2>3, <2>4, <2>5, BytesReachNoFurther
  <2>7. OutputSize - j <= Bound(Done + 1)
    BY <1>9, <2>6
  <2> QED BY <1>3, <1>5, <1>10, <2>7
<1> QED BY <1>6, <1>9, <1>10, <1>11, <1>12, <1>13, <1>14

\* The next place, or the next byte
LEMMA DigitRound == RoundInv /\ NextDigit => RoomInv' /\ ValueInv' /\ NothingAhead'
<1> SUFFICES ASSUME RoundInv, NextDigit PROVE RoomInv' /\ ValueInv' /\ NothingAhead'
  OBVIOUS
<1>1. /\ phase = "digits" /\ UNCHANGED input
      /\ OutputSize' = OutputSize /\ Places' = Places
  BY DEF NextDigit, OutputSize, Places
<1>2. /\ EncodeInv /\ EncodeInv' /\ NothingAhead /\ RoomInv /\ j \in Places /\ start_at < Len(input)
      /\ OutputSize \in Nat
  BY <1>1, DigitStep, DigitsAre DEF RoundInv, EncodeInv, TypeOK
<1>3. /\ carry' \in Nat /\ Done + 1 \in Nat /\ Bound(Done + 1) \in Nat
      /\ stop_at \in Nat /\ stop_at >= 1 /\ OutputSize - stop_at <= Bound(Done + 1)
      /\ carry' > 0 => OutputSize - j <= Bound(Done + 1) /\ j > 0
  BY PlaceLeft
<1>4. j \in Nat /\ j <= OutputSize - 1 /\ OutputSize - 1 - j <= Bound(Done + 1)
  BY <1>1, <1>2 DEF Places, RoomInv
<1>5. start_at \in Nat /\ ZeroCount(input) \in Nat /\ start_at >= ZeroCount(input)
  BY <1>1, <1>2, ZeroCountIs DEF RoomInv, EncodeInv, TypeOK
<1>6. PICK p, q, w : /\ Makes(w, 256, 0, input) /\ Carried(p, q, j, carry', Digits')
                     /\ q[OutputSize] = w[start_at + 1]
  BY PlaceLeft
<1>7. \A i \in Places : i # j => buffer'[i] = buffer[i]
  BY <1>2 DEF NextDigit, EncodeInv, TypeOK
<1>8. Ends(j, carry') <=> carry' = 0 /\ j <= stop_at - 1
  BY <1>3 DEF Ends
<1>9. \/ phase' = "digits" /\ ~Ends(j, carry') /\ j > 0 /\ j' = j - 1 /\ UNCHANGED <<start_at, stop_at>>
      \/ phase' = "bytes" /\ Ends(j, carry') /\ stop_at' = j /\ start_at' = start_at + 1
      \/ ~Ends(j, carry') /\ j = 0
  BY DEF NextDigit
<1>10. CASE phase' = "digits" /\ ~Ends(j, carry') /\ j > 0 /\ j' = j - 1 /\ UNCHANGED <<start_at, stop_at>>
  <2>1. Done' = Done /\ j' + 1 = j
    BY <1>1, <1>4, <1>10 DEF Done
  <2>2. OutputSize - 1 - j' <= Bound(Done + 1) /\ (j' < stop_at - 1 => carry' > 0)
    <3> HIDE DEF Bound
    <3>1. carry' > 0 \/ j >= stop_at
      BY <1>3, <1>4, <1>8, <1>10
    <3>2. OutputSize - 1 - j' = OutputSize - j
      BY <1>2, <1>4, <1>10
    <3>3. OutputSize - j <= Bound(Done + 1)
      BY <1>2, <1>3, <1>4, <3>1
    <3>4. j' < stop_at - 1 => ~(j >= stop_at)
      BY <1>3, <1>4, <1>10
    <3> QED BY <3>1, <3>2, <3>3, <3>4
  <2>3. RoomInv'
    <3>1. start_at' = start_at /\ stop_at' = stop_at
      BY <1>10
    <3>2. /\ start_at >= ZeroCount(input) /\ stop_at \in Places
          /\ OutputSize - 1 - stop_at <= Bound(Done)
      BY <1>1, <1>2 DEF RoomInv
    <3>3. ZeroCount(input)' = ZeroCount(input) /\ Bound(Done)' = Bound(Done)
          /\ Bound(Done + 1)' = Bound(Done + 1)
      BY <1>1, <2>1 DEF ZeroCount, Bound
    <3> QED BY <1>1, <1>10, <2>2, <3>1, <3>2, <3>3 DEF RoomInv
  <2>4. ValueInv'
    <3>1. start_at' = start_at
      BY <1>10
    <3> QED BY <1>1, <1>6, <1>10, <2>1, <3>1 DEF ValueInv
  <2>5. NothingAhead'
    <3>1. ASSUME NEW i \in Places, i < stop_at, i <= j - 1 PROVE buffer'[i] = 0
      <4>1. i <= j /\ i # j
        BY <1>2, <1>4, <3>1 DEF Places
      <4> QED BY <1>1, <1>2, <1>7, <3>1, <4>1 DEF NothingAhead
    <3> QED BY <1>1, <1>10, <3>1 DEF NothingAhead
  <2> QED BY <2>3, <2>4, <2>5
<1>11. CASE phase' = "bytes" /\ Ends(j, carry') /\ stop_at' = j /\ start_at' = start_at + 1
  <2>1. carry' = 0 /\ j < stop_at
    BY <1>3, <1>4, <1>8, <1>11
  <2>2. ASSUME NEW i \in Places, i < j PROVE buffer'[i] = 0
    <3>1. i < stop_at /\ i <= j /\ i # j
      BY <1>2, <1>3, <1>4, <2>1, <2>2 DEF Places
    <3> QED BY <1>1, <1>2, <1>7, <2>2, <3>1 DEF NothingAhead
  <2>3. Done' = Done + 1
    BY <1>1, <1>5, <1>11 DEF Done
  <2>4. RoomInv'
    <3>1. start_at' >= ZeroCount(input)
      BY <1>5, <1>11
    <3>2. ZeroCount(input)' = ZeroCount(input) /\ Bound(Done)' = Bound(Done + 1)
      BY <1>1, <2>3 DEF ZeroCount, Bound
    <3> QED BY <1>1, <1>2, <1>4, <1>11, <2>1, <3>1, <3>2 DEF RoomInv
  <2>5. ValueInv'
    <3>1. /\ Digits' \in Seq(Digit) /\ Len(Digits') = OutputSize
          /\ \A i \in 1 .. OutputSize : Digits'[i] = buffer'[i - 1] /\ i - 1 \in Places
      <4>1. \A i \in 1 .. OutputSize : i - 1 \in Places
        BY <1>2 DEF Places
      <4>2. Digits' = [i \in 1 .. OutputSize |-> buffer'[i - 1]]
        BY <1>1 DEF Digits
      <4>3. buffer' \in [Places -> Digit]
        BY <1>1, <1>2 DEF EncodeInv, TypeOK
      <4>4. \A i \in 1 .. OutputSize : buffer'[i - 1] \in Digit
        BY <4>1, <4>3
      <4> QED BY <1>2, <4>1, <4>2, <4>4
    <3>2. \A i \in 1 .. j : Digits'[i] = 0
      <4>1. ASSUME NEW i \in 1 .. j PROVE Digits'[i] = 0
        <5>1. i \in 1 .. OutputSize /\ i - 1 < j
          BY <1>2, <1>4
        <5> QED BY <2>2, <3>1, <5>1
      <4> QED BY <4>1
    <3>3. PICK d : d = Digits'
      OBVIOUS
    <3>4. /\ d \in Seq(Digit) /\ Len(d) = OutputSize /\ j \in 0 .. Len(d)
          /\ Carried(p, q, j, 0, d) /\ \A i \in 1 .. j : d[i] = 0
      BY <1>2, <1>4, <1>6, <2>1, <3>1, <3>2, <3>3
    <3>5. PICK r : Makes(r, 58, 0, d) /\ r[Len(d)] = q[Len(d)]
      BY <3>4, CarriedThrough
    <3>6. start_at' = start_at + 1 /\ phase' = "bytes"
      BY <1>11
    <3> QED BY <1>1, <1>6, <3>3, <3>4, <3>5, <3>6 DEF ValueInv
  <2>6. NothingAhead'
    BY <1>1, <1>11, <2>2 DEF NothingAhead
  <2> QED BY <2>4, <2>5, <2>6
<1>12. CASE ~Ends(j, carry') /\ j = 0
  BY <1>3, <1>8, <1>12
<1> QED BY <1>9, <1>10, <1>11, <1>12

\* Each step keeps it.
LEMMA RoundStep == RoundInv /\ [Next]_vars => RoundInv'
<1> SUFFICES ASSUME RoundInv, [Next]_vars PROVE RoundInv'
  OBVIOUS
<1>1. EncodeInv' /\ EncodeInv /\ NothingAhead /\ RoomInv /\ ValueInv
  BY EncodeStep DEF RoundInv
<1>2. ASSUME phase' \notin {"bytes", "digits"}, UNCHANGED <<input, buffer, stop_at>>,
             phase = "bytes" \/ phase \notin {"bytes", "digits"}
      PROVE  RoundInv'
  <2>1. RoomInv' /\ ValueInv'
    BY <1>2 DEF RoomInv, ValueInv
  <2>2. NothingAhead'
    BY <1>1, <1>2 DEF NothingAhead, Places, OutputSize
  <2> QED BY <1>1, <2>1, <2>2 DEF RoundInv
<1>3. CASE NextByte
  <2>1. UNCHANGED <<buffer, stop_at, input>> /\ Places' = Places /\ phase = "bytes"
    BY <1>3 DEF NextByte, Places, OutputSize
  <2>2. NothingAhead'
    BY <1>1, <2>1 DEF NothingAhead
  <2> QED BY <1>1, <1>3, <2>2, ByteRound DEF RoundInv
<1>4. CASE NextDigit
  BY <1>1, <1>4, DigitRound DEF RoundInv
<1>5. CASE Finish
  <2>1. phase' \in {"encoded", "refused"} /\ phase = "bytes" /\ UNCHANGED <<input, buffer, stop_at>>
    BY <1>5 DEF Finish
  <2> QED BY <1>2, <2>1
<1>6. CASE StartDecoding
  <2>1. phase' \in {"decoding", "refused"} /\ phase = "encoded" /\ UNCHANGED <<input, buffer, stop_at>>
    BY <1>6 DEF StartDecoding
  <2> QED BY <1>2, <2>1
<1>7. CASE NextQuotient
  <2>1. phase' = "decoding" /\ phase = "decoding" /\ UNCHANGED <<input, buffer, stop_at>>
    BY <1>7 DEF NextQuotient
  <2> QED BY <1>2, <2>1
<1>8. CASE FinishDecoding
  <2>1. phase' = "decoded" /\ phase = "decoding" /\ UNCHANGED <<input, buffer, stop_at>>
    BY <1>8 DEF FinishDecoding
  <2> QED BY <1>2, <2>1
<1>9. CASE UNCHANGED vars
  <2>1. NothingAhead'
    BY <1>1, <1>9 DEF vars, NothingAhead, Places, OutputSize
  <2>2. RoomInv'
    BY <1>1, <1>9 DEF vars, RoomInv, Done, Bound, ZeroCount, Places, OutputSize
  <2>3. ValueInv'
    <3>1. UNCHANGED <<phase, input, start_at, j, carry, buffer>>
      BY <1>9 DEF vars
    <3>2. OutputSize' = OutputSize
      BY <3>1 DEF OutputSize
    <3>3. Digits' = Digits
      BY <3>1, <3>2 DEF Digits
    <3> QED BY <1>1, <3>1, <3>2, <3>3 DEF ValueInv
  <2> QED BY <1>1, <2>1, <2>2, <2>3 DEF RoundInv
<1> QED BY <1>3, <1>4, <1>5, <1>6, <1>7, <1>8, <1>9 DEF Next

\* There is room for the digits: no carry is left when a byte is through, the
\* places do not wrap, and only with the last byte does the loop come to the
\* front of the buffer: for all input.
THEOREM RoomIsEnough == Spec => []RoomForDigits
<1>1. RoundInv => RoomForDigits
  <2> SUFFICES ASSUME RoundInv, phase \in {"bytes", "digits"}
               PROVE  stop_at # Wrapped /\ (start_at < Len(input) => stop_at > 0)
    BY DEF RoundInv, RoomInv, RoomForDigits
  <2>1. /\ input \in Seq(0 .. 255) /\ OutputSize \in Nat /\ start_at \in 0 .. Len(input)
        /\ start_at >= ZeroCount(input) /\ stop_at \in Places
        /\ OutputSize - 1 - stop_at <= Bound(Done)
    BY DigitsAre DEF RoundInv, RoomInv, EncodeInv, TypeOK
  <2>2. stop_at \in Nat
    BY <2>1 DEF Places
  <2>3. ASSUME start_at < Len(input) PROVE stop_at > 0
    <3>1. Len(input) \in Nat /\ ZeroCount(input) \in 0 .. Len(input)
      BY <2>1, ZeroCountIs
    <3>2. start_at + 1 \in ZeroCount(input) .. Len(input) /\ Done \in Nat
          /\ (start_at + 1) - ZeroCount(input) = Done + 1
      BY <2>1, <2>3, <3>1 DEF Done
    <3>3. /\ Bound(Done) \in Nat /\ Bound(Done + 1) \in Nat
          /\ Bound(Done) + 1 <= Bound(Done + 1) /\ Bound(Done + 1) <= OutputSize - 1
      BY <2>1, <3>2, BoundGrows, RoomForAll
    <3> QED BY <2>1, <2>2, <3>3
  <2> QED BY <2>2, <2>3 DEF Wrapped
<1> QED BY <1>1, RoundInit, RoundStep, PTL DEF Spec

\* No digit is left ahead of the place that the next byte is sure to pass: for
\* all input.
THEOREM NoDigitLeftBehind == Spec => []NothingAhead
<1>1. RoundInv => NothingAhead
  BY DEF RoundInv
<1> QED BY <1>1, RoundInit, RoundStep, PTL DEF Spec

-----------------------------------------------------------------------------
(* Long division, which the encoder is compared with                       *)

\* The recursive definition in Divide
DivideStep(before, b, base) ==
  [quotient |-> Append(before.quotient, (256 * before.rest + b) \div base),
   rest |-> (256 * before.rest + b) % base]

\* Run is the recursive function in Divide.
IsDivide(run, b, base) ==
  run = [i \in 0 .. Len(b) |-> IF i = 0 THEN [quotient |-> <<>>, rest |-> 0]
                               ELSE DivideStep(run[i - 1], b[i], base)]

\* Three digits at once
Cube == 58 * 58 * 58

\* It is a positive number.
LEMMA CubeIs == Cube \in Nat /\ Cube > 0
<1>1. 58 * 58 = 3364
  BY SMT
<1>2. 3364 * 58 = 195112
  BY SMT
<1> QED BY <1>1, <1>2, SMT DEF Cube

\* Which number it is, where that is needed
LEMMA CubeOf == Cube = 195112 /\ 58 * 58 = 3364
<1>1. 58 * 58 = 3364
  BY SMT
<1>2. 3364 * 58 = 195112
  BY SMT
<1> QED BY <1>1, <1>2, SMT DEF Cube

\* A byte behind a rest leaves a byte and a rest.
LEMMA CubeDivides ==
  ASSUME NEW r \in 0 .. Cube - 1, NEW b \in 0 .. 255
  PROVE  \E x \in 0 .. 255, y \in 0 .. Cube - 1 :
           /\ x = (256 * r + b) \div Cube /\ y = (256 * r + b) % Cube
           /\ 256 * r + b = Cube * x + y
<1>1. PICK k \in Nat : k = Cube /\ k > 0
  BY CubeIs
<1>2. r \in Nat /\ r + 1 <= k
  BY <1>1
<1>3. PICK n \in Nat : n = 256 * r + b
  BY <1>2
<1>4. PICK x \in Nat, y \in 0 .. k - 1 : x = n \div k /\ y = n % k /\ n = k * x + y
  BY <1>1, QuotientAndRest
<1>5. x \in 0 .. 255
  <2> SUFFICES ASSUME x >= 256 PROVE FALSE
    OBVIOUS
  <2>1. k * 256 <= k * x
    BY ProductGrows
  <2>2. k * x \in Nat
    BY Product
  <2>3. n < 256 * k
    BY <1>2, <1>3
  <2> QED BY <1>4, <2>1, <2>2, <2>3
<1> QED BY <1>1, <1>3, <1>4, <1>5

\* What Divide returns
Quotient == [quotient : Seq(0 .. 255), rest : 0 .. Cube - 1]

\* A step of Divide adds a byte and leaves a rest.
LEMMA DivideStepType ==
  ASSUME NEW s \in Quotient, NEW b \in 0 .. 255
  PROVE  DivideStep(s, b, Cube) \in Quotient
<1>1. s.rest \in 0 .. Cube - 1 /\ s.quotient \in Seq(0 .. 255)
  BY DEF Quotient
<1>2. PICK r \in 0 .. Cube - 1 : r = s.rest
  BY <1>1
<1>3. PICK x \in 0 .. 255, y \in 0 .. Cube - 1 :
        /\ x = (256 * r + b) \div Cube /\ y = (256 * r + b) % Cube
        /\ 256 * r + b = Cube * x + y
  BY CubeDivides, ZenonT(60)
<1>4. Append(s.quotient, x) \in Seq(0 .. 255)
  BY <1>1
<1> QED BY <1>2, <1>3, <1>4 DEF DivideStep, Quotient

\* There is such a function as Divide needs.
LEMMA DivideExists ==
  ASSUME NEW b \in Seq(0 .. 255)
  PROVE  \E run : IsDivide(run, b, Cube)
<1> DEFINE start == [quotient |-> <<>>, rest |-> 0]
           step == [i \in 1 .. Len(b) |-> [s \in Quotient |-> DivideStep(s, b[i], Cube)]]
<1>1. Len(b) \in Nat /\ \A i \in 1 .. Len(b) : b[i] \in 0 .. 255
  BY ElementOfSeq
<1>2. start \in Quotient
  BY DEF Quotient, Cube
<1>3. ASSUME NEW i \in 1 .. Len(b), NEW s \in Quotient
      PROVE  step[i][s] = DivideStep(s, b[i], Cube) /\ step[i][s] \in Quotient
  BY <1>1, DivideStepType
<1> HIDE DEF step, start
<1>6. Closed(step, Len(b), Quotient)
  BY <1>3 DEF Closed
<1>4. PICK f : Recursion(f, Len(b), Quotient, start, step)
  BY <1>1, <1>2, <1>6, RecursionExists
<1>8. f \in [0 .. Len(b) -> Quotient] /\ f[0] = start /\ \A i \in 1 .. Len(b) : f[i] = step[i][f[i - 1]]
  BY <1>4 DEF Recursion
<1>5. ASSUME NEW i \in 0 .. Len(b)
      PROVE  f[i] = IF i = 0 THEN start ELSE DivideStep(f[i - 1], b[i], Cube)
  <2>1. CASE i = 0
    BY <1>8, <2>1
  <2>2. CASE i # 0
    <3>1. i \in 1 .. Len(b) /\ i - 1 \in 0 .. Len(b)
      BY <1>1, <2>2
    <3>2. f[i - 1] \in Quotient
      BY <1>8, <3>1
    <3> QED BY <1>3, <1>8, <2>2, <3>1, <3>2
  <2> QED BY <2>1, <2>2
<1>7. IsDivide(f, b, Cube)
  <2> DEFINE g == [i \in 0 .. Len(b) |-> IF i = 0 THEN start ELSE DivideStep(f[i - 1], b[i], Cube)]
  <2>1. \A i \in 0 .. Len(b) : f[i] = g[i]
    BY <1>5
  <2>2. f = g
    BY <1>8, <2>1
  <2> QED BY <2>2 DEF IsDivide, start
<1> QED BY <1>7

\* What Divide leaves is the quotient, of as many bytes, and the rest.
LEMMA DivideIs ==
  ASSUME NEW b \in Seq(0 .. 255), NEW w, Makes(w, 256, 0, b)
  PROVE  /\ Divide(b, Cube) \in Quotient
         /\ \E u : /\ Makes(u, 256, 0, Divide(b, Cube).quotient)
                   /\ w[Len(b)] = Cube * u[Len(Divide(b, Cube).quotient)] + Divide(b, Cube).rest
<1> DEFINE run == CHOOSE f : IsDivide(f, b, Cube)
<1>1. IsDivide(run, b, Cube)
  BY DivideExists
<1>2. Divide(b, Cube) = run[Len(b)]
  BY DEF Divide, IsDivide, DivideStep
<1> HIDE DEF run
<1> DEFINE Good(i) == /\ run[i] \in Quotient
                      /\ \E u : /\ Makes(u, 256, 0, run[i].quotient)
                                /\ w[i] = Cube * u[Len(run[i].quotient)] + run[i].rest
           Bad == {i \in 0 .. Len(b) : ~Good(i)}
<1>3. Len(b) \in Nat /\ w \in [0 .. Len(b) -> Nat] /\ w[0] = 0
      /\ \A i \in 1 .. Len(b) : b[i] \in 0 .. 255 /\ w[i] = 256 * w[i - 1] + b[i]
  <2>1. \A i \in 1 .. Len(b) : b[i] \in 0 .. 255
    BY ElementOfSeq
  <2>2. Len(b) \in Nat
    OBVIOUS
  <2> QED BY <2>1, <2>2 DEF Makes
<1>4. Good(0)
  <2>1. run[0] = [quotient |-> <<>>, rest |-> 0]
    BY <1>1, <1>3 DEF IsDivide
  <2>2. run[0].quotient = <<>> /\ run[0].rest = 0 /\ run[0] \in Quotient
    BY <2>1 DEF Quotient, Cube
  <2>3. <<>> \in Seq(Nat) /\ Len(<<>>) = 0
    OBVIOUS
  <2>4. PICK u : Makes(u, 256, 0, <<>>)
    BY <2>3, MakesExists, ZenonT(60)
  <2>5. u[0] = 0
    BY <2>4 DEF Makes
  <2>6. Cube * 0 + 0 = 0
    BY DEF Cube
  <2> QED BY <1>3, <2>2, <2>3, <2>4, <2>5, <2>6
<1>5. ASSUME NEW i \in 1 .. Len(b), Good(i - 1) PROVE Good(i)
  <2>1. run[i] = DivideStep(run[i - 1], b[i], Cube)
    <3>1. i \in 0 .. Len(b) /\ i # 0
      BY <1>3
    <3> QED BY <1>1, <3>1 DEF IsDivide
  <2>2. run[i - 1] \in Quotient
    BY <1>5
  <2>3. PICK s \in Seq(0 .. 255), r \in 0 .. Cube - 1 : s = run[i - 1].quotient /\ r = run[i - 1].rest
    BY <2>2 DEF Quotient
  <2>4. PICK c \in 0 .. 255 : c = b[i]
    BY <1>3
  <2>5. PICK x \in 0 .. 255, y \in 0 .. Cube - 1 :
          /\ x = (256 * r + c) \div Cube /\ y = (256 * r + c) % Cube
          /\ 256 * r + c = Cube * x + y
    BY CubeDivides, ZenonT(60)
  <2>6. run[i].quotient = Append(s, x) /\ run[i].rest = y
    <3>1. run[i].quotient = Append(run[i - 1].quotient, (256 * run[i - 1].rest + b[i]) \div Cube)
      BY <2>1 DEF DivideStep
    <3>2. run[i].rest = (256 * run[i - 1].rest + b[i]) % Cube
      BY <2>1 DEF DivideStep
    <3> QED BY <2>3, <2>4, <2>5, <3>1, <3>2, ZenonT(60)
  <2>7. PICK u : Makes(u, 256, 0, s) /\ w[i - 1] = Cube * u[Len(s)] + r
    BY <1>5, <2>3
  <2>8. PICK v : Makes(v, 256, 0, Append(s, x)) /\ v[Len(s) + 1] = 256 * u[Len(s)] + x
    <3>1. s \in Seq(Nat) /\ x \in Nat
      BY BytesAreNumbers
    <3>2. Makes(u, 256, 0, s)
      BY <2>7
    <3>3. PICK v : Makes(v, 256, 0, Append(s, x)) /\ v[Len(s)] = u[Len(s)]
      BY <3>1, <3>2, MakesAppend
    <3>4. PICK n \in Nat : n = Len(s)
      OBVIOUS
    <3>5. Len(Append(s, x)) = n + 1 /\ Append(s, x)[n + 1] = x /\ n + 1 \in 1 .. n + 1
      BY <3>4
    <3>6. v[n + 1] = 256 * v[(n + 1) - 1] + x
      BY <3>3, <3>5 DEF Makes
    <3> QED BY <3>3, <3>4, <3>6
  <2>9. Len(Append(s, x)) = Len(s) + 1
    OBVIOUS
  <2>10. w[i] = Cube * v[Len(s) + 1] + y
    <3>1. 256 * r + c = Cube * x + y
      BY <2>5
    <3>2. PICK t \in Nat : t = u[Len(s)]
      <4>1. Makes(u, 256, 0, s) /\ Len(s) \in Nat
        BY <2>7
      <4>2. Len(s) \in 0 .. Len(s)
        BY <4>1
      <4> QED BY <4>1, <4>2, ZenonT(60) DEF Makes
    <3>3. PICK g \in Nat : g = w[i - 1]
      <4>1. i - 1 \in 0 .. Len(b)
        BY <1>3
      <4> QED BY <1>3, <4>1, SMTT(60)
    <3>4. w[i] = 256 * g + c
      BY <1>3, <2>4, <3>3, SMT
    <3>5. g = Cube * t + r
      BY <2>7, <3>2, <3>3, SMT
    <3>6. v[Len(s) + 1] = 256 * t + x
      BY <2>8, <3>2, SMT
    <3>7. 256 * (Cube * t + r) + c = Cube * (256 * t + x) + y
      <4> HIDE DEF Cube
      <4>1. PICK k \in Nat : k = Cube
        BY CubeIs
      <4>2. 256 * (k * t + r) + c = k * (256 * t + x) + y
        <5>1. k * (256 * t + x) = 256 * (k * t) + k * x
          BY SMT
        <5>2. PICK z \in Nat : z = k * t
          BY Product
        <5>3. PICK h \in Nat : h = k * x
          BY Product
        <5>4. 256 * r + c = h + y
          BY <3>1, <4>1, <5>3
        <5>5. r \in Nat /\ y \in Nat
          BY <4>1
        <5> QED BY <5>1, <5>2, <5>3, <5>4, <5>5, SMT
      <4> QED BY <4>1, <4>2
    <3> QED BY <3>4, <3>5, <3>6, <3>7, SMT
  <2>11. run[i] \in Quotient
    BY <1>3, <2>1, <2>2, DivideStepType, ZenonT(60)
  <2> QED BY <2>6, <2>8, <2>9, <2>10, <2>11
<1>6. Bad = {}
  <2> HIDE DEF Good
  <2> SUFFICES ASSUME Bad # {} PROVE FALSE
    OBVIOUS
  <2>1. PICK k \in Bad : \A m \in Bad : k <= m
    <3>1. Bad \subseteq Nat
      BY <1>3
    <3> HIDE DEF Bad
    <3> QED BY <3>1, LeastNumber
  <2>2. k \in 0 .. Len(b) /\ ~Good(k)
    BY <2>1
  <2>3. k # 0
    BY <1>4, <2>2
  <2>4. k - 1 \in 0 .. Len(b) /\ ~(k <= k - 1) /\ k \in 1 .. Len(b)
    BY <1>3, <2>2, <2>3
  <2>5. Good(k - 1)
    BY <2>1, <2>4
  <2> QED BY <1>5, <2>2, <2>4, <2>5
<1>7. Good(Len(b))
  <2> HIDE DEF Good
  <2> QED BY <1>3, <1>6
<1> QED BY <1>2, <1>7

\* The recursive definition in InBase
InBaseStep(before, base) ==
  LET next == Divide(before.left, base * base * base)
  IN [left |-> next.quotient,
      digits |-> <<next.rest \div (base * base), (next.rest \div base) % base,
                   next.rest % base>> \o before.digits]

\* Run is the recursive function in InBase.
IsInBase(run, b, base, n) ==
  run = [i \in 0 .. n |-> IF i = 0 THEN [left |-> b, digits |-> <<>>]
                          ELSE InBaseStep(run[i - 1], base)]

\* A rest is three digits.
LEMMA ThreeDigits ==
  ASSUME NEW r \in Nat, r < Cube
  PROVE  \E x \in Digit, y \in Digit, z \in Digit :
           /\ x = r \div (58 * 58) /\ y = (r \div 58) % 58 /\ z = r % 58
           /\ r = Followed(58, Followed(58, x, y), z)
<1>4. r < 195112
  BY CubeOf, SMT
<1>5. PICK q \in Nat, z \in 0 .. 57 : q = r \div 58 /\ z = r % 58 /\ r = 58 * q + z
  BY <1>4, SMT
<1>6. PICK x \in Nat, y \in 0 .. 57 : x = q \div 58 /\ y = q % 58 /\ q = 58 * x + y
  BY <1>5, SMT
<1>7. r = 3364 * x + (58 * y + z)
  BY <1>5, <1>6, SMT
<1>8. x \in 0 .. 57
  BY <1>4, <1>7, SMT
<1>9. r \div 3364 = x
  BY <1>4, <1>7, SMT
<1>10. r \div (58 * 58) = x
  BY <1>9, CubeOf
<1>11. r = Followed(58, Followed(58, x, y), z)
  BY <1>5, <1>6 DEF Followed
<1> QED BY <1>5, <1>6, <1>8, <1>10, <1>11, ZenonT(60) DEF Digit

\* Three digits in front of the others
LEMMA ThreeInFront ==
  ASSUME NEW d \in Seq(Digit), NEW a \in Nat, NEW p, Makes(p, 58, a, d), NEW e \in Nat,
         NEW x \in Digit, NEW y \in Digit, NEW z \in Digit,
         a = Followed(58, Followed(58, Followed(58, e, x), y), z)
  PROVE  /\ <<x, y, z>> \o d \in Seq(Digit) /\ Len(<<x, y, z>> \o d) = Len(d) + 3
         /\ \E q : Makes(q, 58, e, <<x, y, z>> \o d) /\ q[Len(d) + 3] = p[Len(d)]
<1>1. d \in Seq(Nat) /\ 58 \in Nat /\ x \in Nat /\ y \in Nat /\ z \in Nat
  <2>1. Digit \subseteq Nat
    BY DEF Digit
  <2>2. d \in Seq(Nat)
    BY <2>1, NumbersOf
  <2> QED BY <2>1, <2>2
<1>2. PICK h \in Nat : h = Followed(58, e, x)
  BY <1>1 DEF Followed
<1>3. PICK g \in Nat : g = Followed(58, h, y)
  BY <1>1 DEF Followed
<1>5. h = Followed(58, e, x) /\ g = Followed(58, h, y) /\ a = Followed(58, g, z)
  BY <1>2, <1>3
<1>6. PICK n \in Nat : n = Len(d)
  OBVIOUS
<1>7. PICK d1 \in Seq(Nat) : d1 = <<z>> \o d
  <2>1. <<z>> \o d \in Seq(Nat)
    BY <1>1
  <2> QED BY <2>1
<1>8. Len(d1) = n + 1 /\ d1[1] = z /\ \A i \in 1 .. n : d1[i + 1] = d[i]
  BY <1>1, <1>6, <1>7
<1>11. PICK p1 : Makes(p1, 58, g, d1) /\ p1[Len(d) + 1] = p[Len(d)]
  <2>1. PICK q : Makes(q, 58, g, <<z>> \o d) /\ q[Len(d) + 1] = p[Len(d)]
    BY <1>1, <1>5, MakesPrepend
  <2> QED BY <1>7, <2>1
<1>18. PICK d2 \in Seq(Nat) : d2 = <<y>> \o d1
  <2>1. <<y>> \o d1 \in Seq(Nat)
    BY <1>1
  <2> QED BY <2>1
<1>9. Len(d2) = n + 2 /\ d2[1] = y /\ \A i \in 1 .. n + 1 : d2[i + 1] = d1[i]
  BY <1>1, <1>8, <1>18
<1>12. PICK p2 : Makes(p2, 58, h, d2) /\ p2[Len(d1) + 1] = p1[Len(d1)]
  <2>1. PICK q : Makes(q, 58, h, <<y>> \o d1) /\ q[Len(d1) + 1] = p1[Len(d1)]
    BY <1>1, <1>5, <1>11, MakesPrepend
  <2> QED BY <1>18, <2>1
<1>19. PICK d3 \in Seq(Nat) : d3 = <<x>> \o d2
  <2>1. <<x>> \o d2 \in Seq(Nat)
    BY <1>1
  <2> QED BY <2>1
<1>10. Len(d3) = n + 3 /\ d3[1] = x /\ \A i \in 1 .. n + 2 : d3[i + 1] = d2[i]
  BY <1>1, <1>9, <1>19
<1>13. PICK p3 : Makes(p3, 58, e, d3) /\ p3[Len(d2) + 1] = p2[Len(d2)]
  <2>1. PICK q : Makes(q, 58, e, <<x>> \o d2) /\ q[Len(d2) + 1] = p2[Len(d2)]
    BY <1>1, <1>5, <1>12, MakesPrepend, SMTT(30)
  <2> QED BY <1>19, <2>1
<1>14. p3[n + 3] = p[n]
  <2>1. (n + 2) + 1 = n + 3 /\ (n + 1) + 1 = n + 2
    OBVIOUS
  <2> QED BY <1>6, <1>8, <1>9, <1>11, <1>12, <1>13, <2>1
<1>15. <<x, y, z>> \o d = d3
  <2> DEFINE s == <<x, y, z>> \o d
  <2>1. /\ s \in Seq(Nat) /\ Len(s) = n + 3 /\ s[1] = x /\ s[2] = y /\ s[3] = z
        /\ \A i \in 1 .. n : s[i + 3] = d[i]
    BY <1>1, <1>6
  <2> HIDE DEF s
  <2>2. d3[1] = x /\ d3[2] = y /\ d3[3] = z
    <3>1. 1 \in 1 .. n + 2 /\ 2 \in 1 .. n + 2 /\ 1 \in 1 .. n + 1 /\ 1 + 1 = 2 /\ 2 + 1 = 3
      OBVIOUS
    <3>2. d3[2] = d2[1] /\ d3[3] = d2[2] /\ d2[2] = d1[1]
      BY <1>9, <1>10, <3>1
    <3> QED BY <1>8, <1>9, <1>10, <3>2
  <2>3. ASSUME NEW i \in 1 .. n PROVE d3[i + 3] = d[i]
    <3>1. i + 2 \in 1 .. n + 2 /\ i + 1 \in 1 .. n + 1 /\ (i + 2) + 1 = i + 3 /\ (i + 1) + 1 = i + 2
      OBVIOUS
    <3>2. d3[i + 3] = d2[i + 2] /\ d2[i + 2] = d1[i + 1] /\ d1[i + 1] = d[i]
      BY <1>8, <1>9, <1>10, <3>1
    <3> QED BY <3>2
  <2>4. ASSUME NEW k \in 1 .. n + 3 PROVE s[k] = d3[k]
    <3>1. CASE k \in {1, 2, 3}
      BY <2>1, <2>2, <3>1
    <3>2. CASE k \notin {1, 2, 3}
      <4>1. PICK i \in 1 .. n : k = i + 3
        <5>1. k - 3 \in 1 .. n /\ k = (k - 3) + 3
          BY <3>2
        <5> QED BY <5>1
      <4> QED BY <2>1, <2>3, <4>1
    <3> QED BY <3>1, <3>2
  <2>5. s = d3
    BY <1>10, <2>1, <2>4
  <2> QED BY <2>5 DEF s
<1>16. <<x, y, z>> \o d \in Seq(Digit)
  OBVIOUS
<1>17. \E q : Makes(q, 58, e, d3) /\ q[Len(d) + 3] = p[Len(d)]
  BY <1>6, <1>13, <1>14
<1> QED BY <1>6, <1>10, <1>15, <1>16, <1>17

\* What a step of InBase leaves, and the digits so far
Writing == [left : Seq(0 .. 255), digits : Seq(Digit)]

\* What one step of InBase does, with what is left divided once more
LEMMA InBaseStepIs ==
  ASSUME NEW s \in Writing
  PROVE  /\ InBaseStep(s, 58) \in Writing
         /\ Len(InBaseStep(s, 58).digits) = Len(s.digits) + 3
         /\ \A u, p :
              Makes(u, 256, 0, s.left) /\ Makes(p, 58, u[Len(s.left)], s.digits) =>
              \E v, q : /\ Makes(v, 256, 0, InBaseStep(s, 58).left)
                        /\ Makes(q, 58, v[Len(InBaseStep(s, 58).left)], InBaseStep(s, 58).digits)
                        /\ q[Len(s.digits) + 3] = p[Len(s.digits)]
<1>1. PICK b \in Seq(0 .. 255) : b = s.left
  BY DEF Writing
<1>2. PICK d \in Seq(Digit) : d = s.digits
  BY DEF Writing
<1>3. PICK w : Makes(w, 256, 0, b)
  BY BytesAreNumbers, MakesExists
<1>4. Divide(b, Cube) \in Quotient
  BY <1>3, DivideIs
<1>5. PICK c \in Seq(0 .. 255), r \in Nat :
        c = Divide(b, Cube).quotient /\ r = Divide(b, Cube).rest /\ r < Cube
  BY <1>4, CubeIs DEF Quotient
<1>6. PICK x \in Digit, y \in Digit, z \in Digit :
        /\ x = r \div (58 * 58) /\ y = (r \div 58) % 58 /\ z = r % 58
        /\ r = Followed(58, Followed(58, x, y), z)
  BY <1>5, ThreeDigits
<1>7. InBaseStep(s, 58) = [left |-> c, digits |-> <<x, y, z>> \o d]
  BY <1>1, <1>2, <1>5, <1>6 DEF InBaseStep, Cube
<1>8. <<x, y, z>> \o d \in Seq(Digit) /\ Len(<<x, y, z>> \o d) = Len(d) + 3
  OBVIOUS
<1>9. InBaseStep(s, 58) \in Writing /\ Len(InBaseStep(s, 58).digits) = Len(d) + 3
  <2>1. PICK e \in Seq(Digit) : e = <<x, y, z>> \o d /\ Len(e) = Len(d) + 3
    BY <1>8
  <2>2. InBaseStep(s, 58) = [left |-> c, digits |-> e]
    BY <1>7, <2>1
  <2>3. [left |-> c, digits |-> e] \in Writing
    BY DEF Writing
  <2>4. [left |-> c, digits |-> e].digits = e
    OBVIOUS
  <2> QED BY <2>1, <2>2, <2>3, <2>4
<1>10. ASSUME NEW u, NEW p, Makes(u, 256, 0, b), Makes(p, 58, u[Len(b)], d)
       PROVE  \E v, q : /\ Makes(v, 256, 0, c) /\ Makes(q, 58, v[Len(c)], <<x, y, z>> \o d)
                        /\ q[Len(d) + 3] = p[Len(d)]
  <2>1. PICK v : Makes(v, 256, 0, c) /\ u[Len(b)] = Cube * v[Len(c)] + r
    BY <1>5, <1>10, DivideIs
  <2>2. PICK a \in Nat : a = u[Len(b)]
    <3>1. Len(b) \in 0 .. Len(b)
      OBVIOUS
    <3> QED BY <1>10, <3>1 DEF Makes
  <2>3. PICK e \in Nat : e = v[Len(c)]
    <3>1. Len(c) \in 0 .. Len(c)
      OBVIOUS
    <3> QED BY <2>1, <3>1 DEF Makes
  <2>4. a = Followed(58, Followed(58, Followed(58, e, x), y), z)
    <3>1. a = Cube * e + r
      BY <2>1, <2>2, <2>3
    <3>2. Cube * e + r = 195112 * e + r
      BY CubeOf, SMT
    <3>3. r = 58 * (58 * x + y) + z
      BY <1>6 DEF Followed
    <3>4. 195112 * e + r = 58 * (58 * (58 * e + x) + y) + z
      BY <3>3, SMT DEF Digit
    <3> QED BY <3>1, <3>2, <3>4 DEF Followed
  <2>5. Makes(p, 58, a, d)
    BY <1>10, <2>2
  <2>6. PICK q : Makes(q, 58, e, <<x, y, z>> \o d) /\ q[Len(d) + 3] = p[Len(d)]
    BY <2>4, <2>5, ThreeInFront
  <2> QED BY <2>1, <2>3, <2>6
<1>11. InBaseStep(s, 58).left = c /\ InBaseStep(s, 58).digits = <<x, y, z>> \o d
  BY <1>7
<1> QED BY <1>1, <1>2, <1>9, <1>10, <1>11

\* There is such a function as InBase needs.
LEMMA InBaseExists ==
  ASSUME NEW b \in Seq(0 .. 255), NEW n \in Nat
  PROVE  \E run : IsInBase(run, b, 58, n)
<1> DEFINE start == [left |-> b, digits |-> <<>>]
           step == [i \in 1 .. n |-> [s \in Writing |-> InBaseStep(s, 58)]]
<1>1. start \in Writing
  BY DEF Writing
<1>2. ASSUME NEW i \in 1 .. n, NEW s \in Writing
      PROVE  step[i][s] = InBaseStep(s, 58) /\ step[i][s] \in Writing
  BY InBaseStepIs
<1> HIDE DEF step, start
<1>3. Closed(step, n, Writing)
  BY <1>2 DEF Closed
<1>4. PICK f : Recursion(f, n, Writing, start, step)
  BY <1>1, <1>3, RecursionExists
<1>5. f \in [0 .. n -> Writing] /\ f[0] = start /\ \A i \in 1 .. n : f[i] = step[i][f[i - 1]]
  BY <1>4 DEF Recursion
<1>6. ASSUME NEW i \in 0 .. n
      PROVE  f[i] = IF i = 0 THEN start ELSE InBaseStep(f[i - 1], 58)
  <2>1. CASE i = 0
    BY <1>5, <2>1
  <2>2. CASE i # 0
    <3>1. i \in 1 .. n /\ i - 1 \in 0 .. n
      BY <2>2
    <3>2. f[i - 1] \in Writing
      BY <1>5, <3>1
    <3> QED BY <1>2, <1>5, <2>2, <3>1, <3>2
  <2> QED BY <2>1, <2>2
<1> DEFINE g == [i \in 0 .. n |-> IF i = 0 THEN start ELSE InBaseStep(f[i - 1], 58)]
<1>7. f = g
  <2>1. \A i \in 0 .. n : f[i] = g[i]
    BY <1>6
  <2> QED BY <1>5, <2>1
<1>8. IsInBase(f, b, 58, n)
  BY <1>7 DEF IsInBase, start
<1> QED BY <1>8

\* The digits that InBase gives are those of the number, if there are enough of
\* them: three for two bytes.
LEMMA InBaseIs ==
  ASSUME NEW b \in Seq(0 .. 255), NEW w, Makes(w, 256, 0, b),
         NEW n \in Nat, n = (Len(b) + 1) \div 2
  PROVE  /\ InBase(b, 58, n) \in Seq(Digit)
         /\ \E p : Makes(p, 58, 0, InBase(b, 58, n)) /\ p[Len(InBase(b, 58, n))] = w[Len(b)]
<1> DEFINE run == CHOOSE f : IsInBase(f, b, 58, n)
<1>1. IsInBase(run, b, 58, n)
  BY InBaseExists
<1>2. InBase(b, 58, n) = run[n].digits
  BY DEF InBase, IsInBase, InBaseStep
<1> HIDE DEF run
<1>3. run[0] = [left |-> b, digits |-> <<>>] /\ \A i \in 1 .. n : run[i] = InBaseStep(run[i - 1], 58)
  <2>1. \A i \in 1 .. n : i \in 0 .. n /\ i # 0
    OBVIOUS
  <2> QED BY <1>1, <2>1 DEF IsInBase
<1> DEFINE Good(i) ==
             /\ run[i] \in Writing /\ Len(run[i].digits) = 3 * i
             /\ \E u, p : /\ Makes(u, 256, 0, run[i].left)
                          /\ Makes(p, 58, u[Len(run[i].left)], run[i].digits)
                          /\ p[3 * i] = w[Len(b)]
           Bad == {i \in 0 .. n : ~Good(i)}
<1>4. Good(0)
  <2>1. run[0].left = b /\ run[0].digits = <<>> /\ run[0] \in Writing
    BY <1>3 DEF Writing
  <2>2. w[Len(b)] \in Nat
    <3>1. Len(b) \in 0 .. Len(b)
      OBVIOUS
    <3> QED BY <3>1 DEF Makes
  <2>3. PICK p : Makes(p, 58, w[Len(b)], <<>>)
    <3>1. <<>> \in Seq(Nat) /\ 58 \in Nat
      OBVIOUS
    <3> QED BY <2>2, <3>1, MakesExists
  <2>4. p[0] = w[Len(b)]
    BY <2>3 DEF Makes
  <2>5. Len(<<>>) = 3 * 0 /\ 3 * 0 = 0
    OBVIOUS
  <2> QED BY <2>1, <2>3, <2>4, <2>5
<1>5. ASSUME NEW i \in 1 .. n, Good(i - 1) PROVE Good(i)
  <2>1. PICK s \in Writing : s = run[i - 1]
    BY <1>5
  <2>2. run[i] = InBaseStep(s, 58)
    BY <1>3, <2>1
  <2>3. PICK m \in Nat : m = 3 * (i - 1) /\ m + 3 = 3 * i
    OBVIOUS
  <2>4. Len(s.digits) = m
    BY <1>5, <2>1, <2>3
  <2>5. PICK u, p : Makes(u, 256, 0, s.left) /\ Makes(p, 58, u[Len(s.left)], s.digits) /\ p[m] = w[Len(b)]
    BY <1>5, <2>1, <2>3
  <2>6. PICK v, q : /\ Makes(v, 256, 0, run[i].left)
                    /\ Makes(q, 58, v[Len(run[i].left)], run[i].digits)
                    /\ q[Len(s.digits) + 3] = p[Len(s.digits)]
    BY <2>2, <2>5, InBaseStepIs
  <2>7. run[i] \in Writing /\ Len(run[i].digits) = Len(s.digits) + 3
    BY <2>2, InBaseStepIs
  <2> QED BY <2>3, <2>4, <2>5, <2>6, <2>7
<1>6. Bad = {}
  <2> HIDE DEF Good
  <2> SUFFICES ASSUME Bad # {} PROVE FALSE
    OBVIOUS
  <2>1. PICK k \in Bad : \A m \in Bad : k <= m
    <3>1. Bad \subseteq Nat
      OBVIOUS
    <3> HIDE DEF Bad
    <3> QED BY <3>1, LeastNumber
  <2>2. k \in 0 .. n /\ ~Good(k)
    BY <2>1
  <2>3. k # 0
    BY <1>4, <2>2
  <2>4. k - 1 \in 0 .. n /\ ~(k <= k - 1) /\ k \in 1 .. n
    BY <2>2, <2>3
  <2>5. Good(k - 1)
    BY <2>1, <2>4
  <2> QED BY <1>5, <2>2, <2>4, <2>5
<1>7. Good(n)
  <2> HIDE DEF Good
  <2> QED BY <1>6
<1>8. PICK d \in Seq(Digit) : d = run[n].digits /\ Len(d) = 3 * n
  BY <1>7 DEF Writing
<1>9. PICK u, p : /\ Makes(u, 256, 0, run[n].left) /\ Makes(p, 58, u[Len(run[n].left)], d)
                  /\ p[3 * n] = w[Len(b)]
  BY <1>7, <1>8
<1>10. PICK a \in Nat : a = u[Len(run[n].left)]
  <2>1. PICK c \in Seq(0 .. 255) : c = run[n].left
    BY <1>7 DEF Writing
  <2>2. Len(c) \in 0 .. Len(c)
    OBVIOUS
  <2> QED BY <1>9, <2>1, <2>2, SMTT(60) DEF Makes
<1>11. Makes(p, 58, a, d) /\ p \in [0 .. 3 * n -> Nat] /\ p[0] = a
  BY <1>8, <1>9, <1>10 DEF Makes
<1>12. a = 0
  <2>1. CASE Len(b) = 0
    <3>1. n = 0 /\ 3 * 0 = 0
      BY <2>1
    <3>2. w[0] = 0
      BY DEF Makes
    <3> QED BY <1>9, <1>11, <2>1, <3>1, <3>2
  <2>2. CASE Len(b) # 0
    <3> SUFFICES ASSUME a >= 1 PROVE FALSE
      OBVIOUS
    <3>1. PICK k \in Nat : k = Len(b) /\ k >= 1
      BY <2>2
    <3>2. PICK m \in Nat : m = 3 * n
      OBVIOUS
    <3>3. Bound(k) \in Nat /\ Bound(k) + 1 <= m
      <4>1. n = (k + 1) \div 2 /\ 2 * n >= k
        BY <3>1
      <4>2. Bound(k) \in Nat /\ 8 * Bound(k) <= 11 * k
        BY DEF Bound
      <4>3. 11 * k < 8 * m
        BY <3>1, <3>2, <4>1
      <4> QED BY <4>2, <4>3
    <3>4. PICK f : Powers(f, 58, m)
      BY PowersExist
    <3>5. w[k] < f[Bound(k) + 1]
      <4>1. k \in 0 .. Len(b)
        BY <3>1
      <4> QED BY <3>3, <3>4, <4>1, BytesReach
    <3>6. p[m] >= f[m - 0]
      <4>1. \A i \in 0 + 1 .. m : p[i] >= 58 * p[i - 1]
        <5> SUFFICES ASSUME NEW i \in 1 .. m PROVE p[i] >= 58 * p[i - 1]
          OBVIOUS
        <5>1. i \in 1 .. Len(d) /\ i - 1 \in 0 .. Len(d)
          BY <1>8, <3>2
        <5>2. p[i] = 58 * p[i - 1] + d[i] /\ p[i - 1] \in Nat
          BY <1>11, <5>1 DEF Makes
        <5>3. d[i] \in Nat
          <6>1. PICK y \in Digit : y = d[i]
            BY <5>1, ElementOfSeq
          <6>2. y \in Nat
            BY DEF Digit
          <6> QED BY <6>1, <6>2
        <5> QED BY <5>2, <5>3
      <4>2. m - 0 <= m /\ 0 \in 0 .. m /\ p[0] >= 1 /\ p \in [0 .. m -> Nat] /\ 58 \in Nat
        BY <1>11, <3>2
      <4> QED BY <3>4, <4>1, <4>2, DigitsReach
    <3>7. f[Bound(k) + 1] <= f[m]
      <4> DEFINE zeros == [i \in 1 .. m |-> 0]
      <4>1. zeros \in Seq(Nat) /\ Len(zeros) = m
        OBVIOUS
      <4> HIDE DEF zeros
      <4>2. Makes(f, 58, 1, zeros)
        BY <3>4 DEF Powers, zeros
      <4>3. Bound(k) + 1 \in 0 .. Len(zeros) /\ m \in Bound(k) + 1 .. Len(zeros)
        BY <3>3, <4>1
      <4>4. 58 \in Nat /\ 58 > 0
        OBVIOUS
      <4> QED BY <4>1, <4>2, <4>3, <4>4, MakesGrows
    <3>8. f[Bound(k) + 1] \in Nat /\ f[m] \in Nat /\ w[k] \in Nat /\ p[m] \in Nat
      <4>1. k \in 0 .. Len(b) /\ m \in 0 .. m /\ Bound(k) + 1 \in 0 .. m
        BY <3>1, <3>3
      <4>2. \A i \in 0 .. m : f[i] \in Nat
        BY <3>4, PowersAre
      <4>3. w[k] \in Nat /\ p[m] \in Nat
        BY <1>11, <3>2, <4>1 DEF Makes
      <4> QED BY <4>1, <4>2, <4>3
    <3>9. p[m] = w[k] /\ m - 0 = m
      BY <1>9, <3>1, <3>2
    <3> QED BY <3>5, <3>6, <3>7, <3>8, <3>9
  <2> QED BY <2>1, <2>2
<1> QED BY <1>2, <1>8, <1>9, <1>11, <1>12

-----------------------------------------------------------------------------
(* The digits that the encoder writes                                      *)

\* Without the zeros in front
Significant(d) == SubSeq(d, ZeroCount(d) + 1, Len(d))

\* The digits that are left are proper and make the same number.
LEMMA SignificantIs ==
  ASSUME NEW base \in Nat, NEW d \in Seq(0 .. base - 1), NEW p, Makes(p, base, 0, d)
  PROVE  /\ Proper(Significant(d), base)
         /\ \E q : /\ Makes(q, base, 0, Significant(d))
                   /\ q[Len(Significant(d))] = p[Len(d)]
<1>1. d \in Seq(Nat) /\ Len(d) \in Nat
  <2>1. 0 .. base - 1 \subseteq Nat
    OBVIOUS
  <2> QED BY <2>1, NumbersOf
<1>2. PICK z \in 0 .. Len(d) :
        /\ z = ZeroCount(d) /\ \A i \in 1 .. z : d[i] = 0
        /\ z < Len(d) => d[z + 1] # 0
  BY <1>1, ZeroCountOf
<1>3. PICK e : e = SubSeq(d, z + 1, Len(d))
  OBVIOUS
<1>4. Significant(d) = e
  BY <1>2, <1>3 DEF Significant
<1>5. e \in Seq(0 .. base - 1) /\ Len(e) = Len(d) - z /\ \A i \in 1 .. Len(d) - z : e[i] = d[i + z]
  BY <1>3, Behind
<1>6. Proper(e, base)
  <2>1. ASSUME Len(e) > 0 PROVE e[1] # 0
    <3>1. 1 \in 1 .. Len(d) - z /\ 1 + z = z + 1 /\ z < Len(d)
      BY <1>1, <1>5, <2>1
    <3> QED BY <1>2, <1>5, <3>1
  <2> QED BY <1>5, <2>1 DEF Proper
<1>7. p[z] = 0
  <2>1. z \in 0 .. z
    OBVIOUS
  <2> QED BY <1>1, <1>2, <2>1, ZerosMakeZero
<1> DEFINE q == [i \in 0 .. Len(d) - z |-> p[i + z]]
<1>8. Makes(q, base, p[z], SubSeq(d, z + 1, Len(d)))
  BY <1>1, MakesBehind
<1>9. q[Len(d) - z] = p[Len(d)]
  <2>1. Len(d) - z \in 0 .. Len(d) - z /\ (Len(d) - z) + z = Len(d)
    BY <1>1
  <2> QED BY <2>1
<1> HIDE DEF q
<1>10. Makes(q, base, 0, e) /\ q[Len(e)] = p[Len(d)]
  BY <1>3, <1>5, <1>7, <1>8, <1>9
<1> QED BY <1>4, <1>6, <1>10

\* They are determined by the number.
LEMMA SignificantOnce ==
  ASSUME NEW base \in Nat, base > 0, NEW d \in Seq(0 .. base - 1), NEW e \in Seq(0 .. base - 1),
         NEW p, NEW q, Makes(p, base, 0, d), Makes(q, base, 0, e), p[Len(d)] = q[Len(e)]
  PROVE  Significant(d) = Significant(e)
<1>1. PICK r : Makes(r, base, 0, Significant(d)) /\ r[Len(Significant(d))] = p[Len(d)]
  BY SignificantIs
<1>2. PICK s : Makes(s, base, 0, Significant(e)) /\ s[Len(Significant(e))] = q[Len(e)]
  BY SignificantIs
<1>3. Proper(Significant(d), base) /\ Proper(Significant(e), base)
  BY SignificantIs
<1> QED BY <1>1, <1>2, <1>3, SameDigits

\* With all bytes through, the text is as by long division.
LEMMA EncodedIs ==
  ASSUME RoundInv, phase = "bytes", start_at = Len(input)
  PROVE  Encoded = Base58Digits(input)
<1>1. /\ input \in Seq(0 .. 255) /\ Digits \in Seq(Digit) /\ Len(Digits) = OutputSize
      /\ ZeroCount(input) \in 0 .. Len(input) /\ Len(input) \in Nat
  BY DigitsAre, ZeroCountIs DEF RoundInv, EncodeInv
<1>2. PICK p, w : Makes(w, 256, 0, input) /\ Makes(p, 58, 0, Digits) /\ p[OutputSize] = w[Len(input)]
  BY DEF RoundInv, ValueInv
<1>3. PICK b \in Seq(0 .. 255) : b = Significant(input) /\ Len(b) = Len(input) - ZeroCount(input)
  BY <1>1, Behind DEF Significant
<1>4. PICK v : Makes(v, 256, 0, b) /\ v[Len(b)] = w[Len(input)]
  <2>1. PICK base \in Nat : base = 256
    OBVIOUS
  <2>2. input \in Seq(0 .. base - 1) /\ Makes(w, base, 0, input)
    BY <1>1, <1>2, <2>1
  <2>3. PICK q : Makes(q, base, 0, Significant(input)) /\ q[Len(Significant(input))] = w[Len(input)]
    BY <2>2, SignificantIs
  <2> QED BY <1>3, <2>1, <2>3
<1>5. PICK n \in Nat : n = (Len(b) + 1) \div 2
  OBVIOUS
<1>6. PICK d \in Seq(Digit) : d = InBase(b, 58, n)
  BY <1>4, <1>5, InBaseIs
<1>7. PICK q : Makes(q, 58, 0, d) /\ q[Len(d)] = v[Len(b)]
  BY <1>4, <1>5, <1>6, InBaseIs, ZenonT(60)
<1>8. Significant(Digits) = Significant(d)
  <2>1. PICK base \in Nat : base = 58 /\ base > 0
    OBVIOUS
  <2>2. Digits \in Seq(0 .. base - 1) /\ d \in Seq(0 .. base - 1)
    BY <1>1, <2>1 DEF Digit
  <2>3. Makes(p, base, 0, Digits) /\ Makes(q, base, 0, d) /\ p[Len(Digits)] = q[Len(d)]
    BY <1>1, <1>2, <1>4, <1>7, <2>1
  <2> HIDE DEF Digits
  <2> QED BY <2>1, <2>2, <2>3, SignificantOnce
<1> DEFINE zeros == [i \in 1 .. ZeroCount(input) |-> 0]
<1>9. Encoded = zeros \o Significant(Digits)
  BY <1>1 DEF Encoded, Digits, Significant
<1>10. Stripped(d, 0) = Significant(d)
  <2>1. PICK m \in Nat : m = Len(d)
    OBVIOUS
  <2>2. {i \in DOMAIN d : d[i] # 0} \cup {Len(d) + 1 - 0} = {i \in DOMAIN d : d[i] # 0} \cup {Len(d) + 1}
    BY <2>1
  <2>3. ZeroCount(d) + 1 = Min({i \in DOMAIN d : d[i] # 0} \cup {Len(d) + 1})
    <3> DEFINE T == {i \in DOMAIN d : d[i] # 0} \cup {Len(d) + 1}
    <3>1. T \subseteq Nat /\ T # {}
      BY <2>1
    <3>2. Min(T) \in Nat
      <4> HIDE DEF T
      <4>1. PICK x \in T : \A y \in T : x <= y
        BY <3>1, LeastNumber
      <4> QED BY <3>1, <4>1 DEF Min
    <3>3. ZeroCount(d) = Min(T) - 1
      BY DEF ZeroCount
    <3> HIDE DEF T
    <3>4. ZeroCount(d) + 1 = Min(T)
      BY <3>2, <3>3
    <3> QED BY <3>4 DEF T
  <2> QED BY <2>2, <2>3 DEF Stripped, Significant
<1>11. Base58Digits(input) = zeros \o Stripped(InBase(b, 58, n), 0)
  <2>1. Base58Digits(input) =
          zeros \o Stripped(InBase(Significant(input), 58, (Len(input) - ZeroCount(input) + 1) \div 2), 0)
    BY DEF Base58Digits, ZeroCount, Significant
  <2> QED BY <1>3, <1>5, <2>1
<1> QED BY <1>6, <1>8, <1>9, <1>10, <1>11

\* No step makes the text another.
LEMMA AsDividedStep == RoundInv /\ AsDivided /\ [Next]_vars => AsDivided'
<1> SUFFICES ASSUME RoundInv, AsDivided, [Next]_vars PROVE AsDivided'
  OBVIOUS
<1>1. ASSUME UNCHANGED <<input, text>>,
             phase' \in {"encoded", "decoding", "decoded"} => phase \in {"encoded", "decoding", "decoded"}
      PROVE  AsDivided'
  BY <1>1 DEF AsDivided
<1>2. CASE NextByte
  BY <1>1, <1>2 DEF NextByte
<1>3. CASE NextDigit
  BY <1>1, <1>3 DEF NextDigit
<1>4. CASE Finish
  <2>1. phase = "bytes" /\ start_at = Len(input) /\ input' = input
    BY <1>4 DEF Finish
  <2>2. (phase' = "encoded" /\ text' = Encoded) \/ phase' = "refused"
    BY <1>4 DEF Finish
  <2>3. Encoded = Base58Digits(input)
    BY <2>1, EncodedIs
  <2> QED BY <2>1, <2>2, <2>3 DEF AsDivided
<1>5. CASE StartDecoding
  BY <1>1, <1>5 DEF StartDecoding
<1>6. CASE NextQuotient
  BY <1>1, <1>6 DEF NextQuotient
<1>7. CASE FinishDecoding
  BY <1>1, <1>7 DEF FinishDecoding
<1>8. CASE UNCHANGED vars
  BY <1>1, <1>8 DEF vars
<1> QED BY <1>2, <1>3, <1>4, <1>5, <1>6, <1>7, <1>8 DEF Next

\* What the encoder writes, digit by digit and byte by byte, is a zero for each
\* zero in front of the input and the number in base 58: for all input.
THEOREM WritesTheNumber == Spec => []AsDivided
<1>1. Init => AsDivided
  BY DEF Init, AsDivided
<1> QED BY <1>1, RoundInit, RoundStep, AsDividedStep, PTL DEF Spec

-----------------------------------------------------------------------------
(* What base58_decode keeps                                                *)

\* The recursive definition in Quotients
QuotientStep(before, digit) ==
  LET n == 58 * before.rest + digit
  IN [quotient |-> n \div 256, rest |-> n % 256]

\* Run is the recursive function in Quotients.
IsQuotients(run, d, first, last) ==
  run = [i \in first .. last |-> IF i = first THEN [quotient |-> 0, rest |-> 0]
                                 ELSE QuotientStep(run[i - 1], d[i])]

\* What is left behind a digit
Division == [quotient : Digit, rest : 0 .. 255]

\* A digit behind a byte leaves a digit and a byte.
LEMMA QuotientStepIs ==
  ASSUME NEW s \in Division, NEW digit \in Digit
  PROVE  LET next == QuotientStep(s, digit)
         IN /\ next \in Division
            /\ 58 * s.rest + digit = 256 * next.quotient + next.rest
            /\ s.rest = 0 => next.quotient = 0
<1>0. PICK r \in 0 .. 255 : r = s.rest
  BY DEF Division
<1>1. PICK n \in Nat : n = 58 * r + digit
  BY DEF Digit
<1>2. n <= 58 * 255 + 57
  BY <1>1 DEF Digit
<1>3. PICK q \in Nat : q = n \div 256
  BY SMT
<1>4. PICK t \in 0 .. 255 : t = n % 256
  BY SMT
<1>5. n = 256 * q + t
  BY <1>3, <1>4, SMT
<1>6. q \in Digit
  BY <1>2, <1>5, SMT DEF Digit
<1>7. r = 0 => q = 0
  BY <1>1, <1>5, SMT DEF Digit
<1>8. QuotientStep(s, digit) = [quotient |-> q, rest |-> t]
  BY <1>0, <1>1, <1>3, <1>4, SMT DEF QuotientStep
<1>9. [quotient |-> q, rest |-> t] \in Division
  BY <1>6 DEF Division
<1> QED BY <1>0, <1>1, <1>5, <1>7, <1>8, <1>9

\* There is such a function as Quotients needs.
LEMMA QuotientsExist ==
  ASSUME NEW d \in Seq(Digit), NEW first \in 0 .. Len(d)
  PROVE  \E run : IsQuotients(run, d, first, Len(d))
<1>1. PICK l \in Nat : l = Len(d)
  OBVIOUS
<1>2. PICK n \in Nat : n = l - first
  <2>1. l - first \in Nat
    BY <1>1
  <2> QED BY <2>1
<1> DEFINE start == [quotient |-> 0, rest |-> 0]
           step == [i \in 1 .. n |-> [s \in Division |-> QuotientStep(s, d[i + first])]]
<1>3. start \in Division
  BY DEF Division, Digit
<1>4. ASSUME NEW i \in 1 .. n, NEW s \in Division
      PROVE  step[i][s] = QuotientStep(s, d[i + first]) /\ step[i][s] \in Division
  <2>1. i + first \in 1 .. Len(d)
    BY <1>1, <1>2
  <2>2. PICK c \in Digit : c = d[i + first]
    BY <2>1, ElementOfSeq
  <2>3. QuotientStep(s, c) \in Division
    BY QuotientStepIs
  <2>4. step[i][s] = QuotientStep(s, d[i + first])
    OBVIOUS
  <2> HIDE DEF step
  <2> QED BY <2>2, <2>3, <2>4
<1> HIDE DEF step, start
<1>5. Closed(step, n, Division)
  BY <1>4 DEF Closed
<1>6. PICK f : Recursion(f, n, Division, start, step)
  BY <1>3, <1>5, RecursionExists
<1>7. f \in [0 .. n -> Division] /\ f[0] = start /\ \A i \in 1 .. n : f[i] = step[i][f[i - 1]]
  BY <1>6 DEF Recursion
<1> DEFINE g == [i \in first .. l |-> f[i - first]]
           h == [i \in first .. l |-> IF i = first THEN start ELSE QuotientStep(g[i - 1], d[i])]
<1>8. ASSUME NEW i \in first .. l PROVE g[i] = h[i]
  <2>1. CASE i = first
    <3>1. g[i] = f[0] /\ h[i] = start
      BY <2>1
    <3> QED BY <1>7, <3>1
  <2>2. CASE i # first
    <3>1. PICK k \in 1 .. n : k = i - first /\ k + first = i /\ (i - 1) - first = k - 1
      <4>1. i - first \in 1 .. n /\ (i - first) + first = i /\ (i - 1) - first = (i - first) - 1
        BY <1>2, <2>2
      <4> QED BY <4>1
    <3>2. i - 1 \in first .. l /\ k - 1 \in 0 .. n
      BY <2>2
    <3>3. g[i] = f[k] /\ g[i - 1] = f[k - 1]
      BY <3>1, <3>2
    <3>4. f[k - 1] \in Division
      BY <1>7, <3>2
    <3>5. f[k] = QuotientStep(f[k - 1], d[k + first])
      BY <1>4, <1>7, <3>4
    <3>6. h[i] = QuotientStep(g[i - 1], d[i])
      BY <2>2
    <3> QED BY <3>1, <3>3, <3>5, <3>6
  <2> QED BY <2>1, <2>2
<1>9. g = h
  BY <1>8
<1>10. IsQuotients(g, d, first, Len(d))
  BY <1>1, <1>9 DEF IsQuotients, start
<1> QED BY <1>10

\* The first k of a sequence are zero.
ZerosUpTo(d, k) == \A i \in 1 .. k : d[i] = 0

\* What is left after a division that starts behind the first s digits
Left(run, d, s) == [i \in 1 .. Len(d) |-> IF i > s THEN run[i].quotient ELSE d[i]]

\* What is left of the number is its quotient by 256, and the rest is returned;
\* the first digit is always used up.
LEMMA QuotientsAre ==
  ASSUME NEW d \in Seq(Digit), NEW s \in Nat, s < Len(d), ZerosUpTo(d, s),
         NEW u, Makes(u, 58, 0, d), NEW run, IsQuotients(run, d, s, Len(d))
  PROVE  /\ Left(run, d, s) \in Seq(Digit) /\ Len(Left(run, d, s)) = Len(d)
         /\ ZerosUpTo(Left(run, d, s), s + 1)
         /\ run[Len(d)].rest \in 0 .. 255
         /\ \E x : /\ Makes(x, 58, 0, Left(run, d, s))
                   /\ u[Len(d)] = Followed(256, x[Len(d)], run[Len(d)].rest)
<1>21. PICK n \in Nat : n = Len(d)
  OBVIOUS
<1>22. s \in 0 .. n /\ IsQuotients(run, d, s, n) /\ \A i \in 1 .. s : d[i] = 0
  BY <1>21 DEF ZerosUpTo
<1>23. PICK e : e = Left(run, d, s)
  OBVIOUS
<1>24. e = [i \in 1 .. n |-> IF i > s THEN run[i].quotient ELSE d[i]]
  BY <1>21, <1>23 DEF Left
<1>1. run[s].rest = 0 /\ run[s] = [quotient |-> 0, rest |-> 0]
  BY <1>22 DEF IsQuotients
<1>2. ASSUME NEW i \in s + 1 .. n PROVE run[i] = QuotientStep(run[i - 1], d[i])
  <2>1. i \in s .. n /\ i # s
    BY <1>22
  <2> QED BY <1>22, <2>1 DEF IsQuotients
<1>3. ASSUME NEW i \in 1 .. n PROVE d[i] \in Digit
  BY <1>21, ElementOfSeq
<1> DEFINE Good(i) == run[i] \in Division
           Bad == {i \in s .. n : ~Good(i)}
<1>4. Good(s)
  BY <1>1 DEF Division, Digit
<1>5. ASSUME NEW i \in s + 1 .. n, Good(i - 1) PROVE Good(i)
  <2>1. PICK c \in Digit : c = d[i]
    BY <1>3
  <2>2. QuotientStep(run[i - 1], c) \in Division
    BY <1>5, QuotientStepIs
  <2> QED BY <1>2, <2>1, <2>2
<1>6. Bad = {}
  <2> HIDE DEF Good
  <2> SUFFICES ASSUME Bad # {} PROVE FALSE
    BY <1>21, <1>22
  <2>1. PICK k \in Bad : \A m \in Bad : k <= m
    <3>1. Bad \subseteq Nat
      BY <1>21, <1>22
    <3> HIDE DEF Bad
    <3> QED BY <3>1, LeastNumber
  <2>2. k \in s .. n /\ ~Good(k)
    BY <2>1
  <2>3. k # s
    BY <1>4, <2>2
  <2>4. k - 1 \in s .. n /\ ~(k <= k - 1) /\ k \in s + 1 .. n
    BY <2>2, <2>3
  <2>5. Good(k - 1)
    BY <2>1, <2>4
  <2> QED BY <1>5, <2>2, <2>4, <2>5
<1>7. \A i \in s .. n : run[i].quotient \in Digit /\ run[i].rest \in 0 .. 255
  BY <1>6 DEF Division
<1>8. ASSUME NEW i \in 1 .. n
      PROVE  e[i] \in Digit /\ (i <= s => e[i] = 0) /\ (i > s => e[i] = run[i].quotient)
  <2>1. CASE i > s
    BY <1>7, <1>22, <1>24, <2>1
  <2>2. CASE ~(i > s)
    BY <1>3, <1>22, <1>24, <2>2
  <2> QED BY <2>1, <2>2
<1>9. e \in Seq(Digit) /\ Len(e) = n
  BY <1>8, <1>24
<1>10. \A i \in s + 1 .. n :
         58 * run[i - 1].rest + d[i] = 256 * run[i].quotient + run[i].rest
         /\ (run[i - 1].rest = 0 => run[i].quotient = 0)
  <2> SUFFICES ASSUME NEW i \in s + 1 .. n
               PROVE  58 * run[i - 1].rest + d[i] = 256 * run[i].quotient + run[i].rest
                      /\ (run[i - 1].rest = 0 => run[i].quotient = 0)
    BY <1>21, <1>22
  <2>1. i - 1 \in s .. n /\ i \in 1 .. n
    BY <1>21, <1>22
  <2>2. run[i - 1] \in Division
    BY <1>6, <2>1
  <2>3. PICK c \in Digit : c = d[i]
    BY <1>3, <2>1
  <2>4. run[i] = QuotientStep(run[i - 1], c)
    BY <1>2, <2>3
  <2> QED BY <2>2, <2>3, <2>4, QuotientStepIs
<1>11. e[s + 1] = 0
  <2>1. s + 1 \in s + 1 .. n /\ s + 1 \in 1 .. n /\ (s + 1) - 1 = s /\ s + 1 > s
    BY <1>21, <1>22
  <2> QED BY <1>1, <1>8, <1>10, <2>1
<1>12. \A i \in 1 .. s + 1 : e[i] = 0
  <2> SUFFICES ASSUME NEW i \in 1 .. s + 1 PROVE e[i] = 0
    BY <1>21, <1>22
  <2>1. i \in 1 .. n /\ (i <= s \/ i = s + 1)
    BY <1>21, <1>22
  <2> QED BY <1>8, <1>11, <2>1
<1>13. d \in Seq(Nat) /\ e \in Seq(Nat)
  <2>1. Digit \subseteq Nat
    BY DEF Digit
  <2> QED BY <1>9, <2>1, NumbersOf
<1>14. PICK x : Makes(x, 58, 0, e)
  <2>1. 58 \in Nat /\ 0 \in Nat
    BY <1>21, <1>22
  <2> QED BY <1>13, <2>1, MakesExists
<1>15. /\ u \in [0 .. n -> Nat] /\ \A i \in 1 .. n : u[i] = 58 * u[i - 1] + d[i]
       /\ x \in [0 .. n -> Nat] /\ \A i \in 1 .. n : x[i] = 58 * x[i - 1] + e[i]
  BY <1>9, <1>14, <1>21 DEF Makes
<1> HIDE DEF Good, Bad
<1> DEFINE Sum(i) == u[i] = 256 * x[i] + run[i].rest
           Odd == {i \in s .. n : ~Sum(i)}
<1>16. Sum(s)
  <2>1. s \in 0 .. Len(d) /\ s \in 0 .. s /\ 58 \in Nat
    BY <1>21, <1>22
  <2>2. u[s] = 0
    BY <1>13, <1>22, <2>1, ZerosMakeZero
  <2>3. s \in 0 .. Len(e) /\ \A i \in 1 .. s : e[i] = 0
    BY <1>9, <1>12, <1>22
  <2>4. x[s] = 0
    BY <1>13, <1>14, <2>1, <2>3, ZerosMakeZero
  <2> QED BY <1>1, <2>2, <2>4
<1>17. ASSUME NEW i \in s + 1 .. n, Sum(i - 1) PROVE Sum(i)
  <2>1. i \in 1 .. n /\ i - 1 \in 0 .. n /\ i - 1 \in s .. n /\ i \in s .. n /\ i > s
    BY <1>21, <1>22
  <2>2. PICK a \in Nat : a = x[i - 1]
    BY <1>15, <2>1
  <2>3. PICK r \in 0 .. 255 : r = run[i - 1].rest
    BY <1>7, <2>1
  <2>4. PICK c \in Nat : c = d[i]
    <3>1. PICK g \in Digit : g = d[i]
      BY <1>3, <2>1
    <3>2. g \in Nat
      BY DEF Digit
    <3> QED BY <3>1, <3>2
  <2>5. PICK t \in 0 .. 255 : t = run[i].rest
    BY <1>7, <2>1
  <2>6. PICK q \in Nat : q = run[i].quotient
    <3>1. PICK b \in Digit : b = run[i].quotient
      BY <1>7, <2>1
    <3>2. b \in Nat
      BY DEF Digit
    <3> QED BY <3>1, <3>2
  <2>7. 58 * r + c = 256 * q + t
    BY <1>10, <2>3, <2>4, <2>5, <2>6
  <2>8. u[i] = 58 * (256 * a + r) + c
    BY <1>15, <1>17, <2>1, <2>2, <2>3, <2>4
  <2>9. x[i] = 58 * a + q
    BY <1>8, <1>15, <2>1, <2>2, <2>6
  <2>10. 58 * (256 * a + r) + c = 256 * (58 * a + q) + t
    BY <2>7, SMT
  <2> QED BY <2>5, <2>8, <2>9, <2>10
<1>18. Odd = {}
  <2> HIDE DEF Sum
  <2> SUFFICES ASSUME Odd # {} PROVE FALSE
    BY <1>21, <1>22
  <2>1. PICK k \in Odd : \A m \in Odd : k <= m
    <3>1. Odd \subseteq Nat
      BY <1>21, <1>22
    <3> HIDE DEF Odd
    <3> QED BY <3>1, LeastNumber
  <2>2. k \in s .. n /\ ~Sum(k)
    BY <2>1
  <2>3. k # s
    BY <1>16, <2>2
  <2>4. k - 1 \in s .. n /\ ~(k <= k - 1) /\ k \in s + 1 .. n
    BY <2>2, <2>3
  <2>5. Sum(k - 1)
    BY <2>1, <2>4
  <2> QED BY <1>17, <2>2, <2>4, <2>5
<1>19. Sum(n)
  <2> HIDE DEF Sum
  <2>1. n \in s .. n
    BY <1>21, <1>22
  <2> QED BY <1>18, <2>1
<1>20. run[n].rest \in 0 .. 255
  <2>1. n \in s .. n
    BY <1>21, <1>22
  <2> QED BY <1>7, <2>1
<1>25. u[n] = Followed(256, x[n], run[n].rest)
  BY <1>19 DEF Followed
<1>26. ZerosUpTo(e, s + 1)
  BY <1>12 DEF ZerosUpTo
<1> QED BY <1>9, <1>14, <1>20, <1>21, <1>23, <1>25, <1>26

\* As many zeros, and then e
WithZeros(z, e) == [i \in 1 .. z |-> 0] \o e

\* Zeros in front of digits make the same number.
LEMMA ZerosInFront ==
  ASSUME NEW base \in Nat, base > 0, NEW e, Proper(e, base), NEW q, Makes(q, base, 0, e),
         NEW z \in Nat, NEW t, t = WithZeros(z, e)
  PROVE  /\ t \in Seq(0 .. base - 1) /\ Len(t) = z + Len(e) /\ ZeroCount(t) = z
         /\ \E r : Makes(r, base, 0, t) /\ r[Len(t)] = q[Len(e)]
<1>1. PICK n \in Nat : n = Len(e)
  BY DEF Proper
<1>2. e \in Seq(0 .. base - 1) /\ (n > 0 => e[1] # 0)
  BY <1>1 DEF Proper
<1> DEFINE zeros == [i \in 1 .. z |-> 0]
<1>3. zeros \in Seq(0 .. base - 1) /\ Len(zeros) = z /\ \A i \in 1 .. z : zeros[i] = 0
  OBVIOUS
<1>4. t = zeros \o e
  BY DEF WithZeros
<1> HIDE DEF zeros
<1>5. /\ t \in Seq(0 .. base - 1) /\ Len(t) = z + n
      /\ \A i \in 1 .. z : t[i] = 0
      /\ \A i \in 1 .. n : t[i + z] = e[i]
  <2>1. t \in Seq(0 .. base - 1)
    BY <1>2, <1>3, <1>4
  <2>2. Len(t) = z + n
    <3>1. Len(zeros \o e) = Len(zeros) + Len(e)
      BY <1>2, <1>3, SMTT(60)
    <3> QED BY <1>1, <1>3, <1>4, <3>1
  <2>3. \A i \in 1 .. z : t[i] = 0
    BY <1>1, <1>2, <1>3, <1>4
  <2>4. \A i \in 1 .. n : t[i + z] = e[i]
    BY <1>1, <1>2, <1>3, <1>4
  <2> QED BY <2>1, <2>2, <2>3, <2>4
<1>6. t \in Seq(Nat)
  <2>1. 0 .. base - 1 \subseteq Nat
    OBVIOUS
  <2> QED BY <1>5, <2>1, NumbersOf
<1>7. ZeroCount(t) = z
  <2>1. PICK c \in 0 .. z + n :
          c = ZeroCount(t) /\ (\A i \in 1 .. c : t[i] = 0) /\ (c < z + n => t[c + 1] # 0)
    BY <1>5, <1>6, ZeroCountOf
  <2>2. ~(c < z)
    <3> SUFFICES ASSUME c < z PROVE FALSE
      OBVIOUS
    <3>1. c + 1 \in 1 .. z /\ c < z + n
      BY <1>1
    <3> QED BY <1>5, <2>1, <3>1
  <2>3. ~(c > z)
    <3> SUFFICES ASSUME c > z PROVE FALSE
      OBVIOUS
    <3>1. 1 \in 1 .. n /\ 1 + z \in 1 .. c /\ n > 0
      BY <1>1
    <3>2. t[1 + z] = e[1] /\ t[1 + z] = 0
      BY <1>5, <2>1, <3>1
    <3> QED BY <1>2, <3>1, <3>2
  <2> QED BY <2>1, <2>2, <2>3
<1>8. PICK r : Makes(r, base, 0, t)
  <2>1. 0 \in Nat
    OBVIOUS
  <2> QED BY <1>6, <2>1, MakesExists
<1>9. PICK s : Makes(s, base, 0, Significant(t)) /\ s[Len(Significant(t))] = r[Len(t)]
  BY <1>5, <1>8, SignificantIs
<1>10. Significant(t) = e
  <2>1. z \in 0 .. Len(t)
    BY <1>1, <1>5
  <2>2. PICK m : m = SubSeq(t, z + 1, Len(t))
    OBVIOUS
  <2>3. m \in Seq(0 .. base - 1) /\ Len(m) = Len(t) - z /\ \A i \in 1 .. Len(t) - z : m[i] = t[i + z]
    BY <1>5, <2>1, <2>2, Behind
  <2>4. Len(t) - z = n
    BY <1>1, <1>5
  <2>5. \A i \in 1 .. n : m[i] = e[i]
    BY <1>5, <2>3, <2>4
  <2>6. m = e
    <3>1. Len(m) = Len(e) /\ \A i \in 1 .. Len(m) : m[i] = e[i]
      BY <1>1, <2>3, <2>4, <2>5
    <3> QED BY <1>2, <2>3, <3>1, SeqEqual
  <2> QED BY <1>7, <2>2, <2>6 DEF Significant
<1>11. e \in Seq(Nat)
  <2>1. 0 .. base - 1 \subseteq Nat
    OBVIOUS
  <2> QED BY <1>2, <2>1, NumbersOf
<1>12. s = q
  BY <1>9, <1>10, <1>11, MakesOnce
<1>13. r[Len(t)] = q[Len(e)]
  BY <1>9, <1>10, <1>12
<1> QED BY <1>1, <1>5, <1>7, <1>8, <1>13

\* From place k on v is what the bytes of d make.
BytesFrom(v, k, d) ==
  v \in [0 .. Len(d) -> Nat] /\ \A i \in k + 1 .. Len(d) : v[i] = 256 * v[i - 1] + d[i]

\* d with r at place k
Put(d, k, r) == [d EXCEPT ![k] = r]

\* e has one byte more, at place k, and with the number c in front it makes m.
OneMore(e, k, c, m) ==
  \E x, h : /\ h = k - 1 /\ ZerosUpTo(e, h) /\ BytesFrom(x, h, e)
           /\ x[h] = c /\ x[Len(e)] = m

\* The bytes of d behind place k, with c and then r in front of them
BytesBehind(v, k, d, c, r) == BytesFrom(v, k, d) /\ v[k] = Followed(256, c, r)

\* One more byte in front of those decoded
LEMMA ByteDecoded ==
  ASSUME NEW d \in Seq(0 .. 255), NEW k \in 1 .. Len(d), ZerosUpTo(d, k),
         NEW v, NEW c \in Nat, NEW r \in 0 .. 255, BytesBehind(v, k, d, c, r)
  PROVE  /\ Put(d, k, r) \in Seq(0 .. 255) /\ Len(Put(d, k, r)) = Len(d)
         /\ OneMore(Put(d, k, r), k, c, v[Len(d)])
<1>6. PICK n \in Nat : n = Len(d)
  OBVIOUS
<1>7. PICK e : e = Put(d, k, r)
  OBVIOUS
<1>8. v \in [0 .. n -> Nat] /\ v[k] = 256 * c + r /\ \A i \in k + 1 .. n : v[i] = 256 * v[i - 1] + d[i]
  BY <1>6 DEF BytesBehind, BytesFrom, Followed
<1>9. k \in 1 .. n
  BY <1>6
<1>1. e \in Seq(0 .. 255) /\ Len(e) = n /\ e[k] = r /\ \A i \in 1 .. n : i # k => e[i] = d[i]
  BY <1>6, <1>7 DEF Put
<1> DEFINE x == [v EXCEPT ![k - 1] = c]
<1>2. x \in [0 .. n -> Nat] /\ x[k - 1] = c /\ \A i \in 0 .. n : i # k - 1 => x[i] = v[i]
  <2>1. k - 1 \in 0 .. n
    BY <1>9
  <2> QED BY <1>8, <2>1
<1> HIDE DEF x
<1>3. x[n] = v[n]
  BY <1>2, <1>9
<1>4. ASSUME NEW i \in k .. n PROVE x[i] = 256 * x[i - 1] + e[i]
  <2>1. i \in 0 .. n /\ i # k - 1 /\ i \in 1 .. n
    BY <1>9
  <2>2. x[i] = v[i]
    BY <1>2, <2>1
  <2>3. CASE i = k
    BY <1>1, <1>2, <1>8, <2>2, <2>3
  <2>4. CASE i # k
    <3>1. i \in k + 1 .. n /\ i - 1 \in 0 .. n /\ i - 1 # k - 1
      BY <2>4
    <3>2. x[i - 1] = v[i - 1] /\ e[i] = d[i]
      BY <1>1, <1>2, <2>1, <2>4, <3>1
    <3> QED BY <1>8, <2>2, <3>1, <3>2
  <2> QED BY <2>3, <2>4
<1>5. \A i \in 1 .. k - 1 : e[i] = 0
  BY <1>1, <1>9 DEF ZerosUpTo
<1>10. PICK h \in Nat : h = k - 1 /\ h + 1 = k
  OBVIOUS
<1>11. BytesFrom(x, h, e)
  BY <1>1, <1>2, <1>4, <1>10 DEF BytesFrom
<1>12. ZerosUpTo(e, h)
  BY <1>5, <1>10 DEF ZerosUpTo
<1>13. OneMore(e, k, c, v[Len(d)])
  BY <1>1, <1>2, <1>3, <1>6, <1>10, <1>11, <1>12 DEF OneMore
<1> QED BY <1>1, <1>6, <1>7, <1>13

\* Bytes of the same number, with as many zeros in front, are the same.
LEMMA SameBytes ==
  ASSUME NEW d \in Seq(0 .. 255), NEW z \in 0 .. Len(d), ZerosUpTo(d, z),
         NEW v, BytesFrom(v, z, d), v[z] = 0,
         NEW b \in Seq(0 .. 255), ZeroCount(b) = z,
         NEW w, Makes(w, 256, 0, b), v[Len(d)] = w[Len(b)]
  PROVE  SubSeq(d, ZeroCount(d) - z + 1, Len(d)) = b
<1>23. PICK n \in Nat : n = Len(d)
  OBVIOUS
<1>24. /\ z \in 0 .. n /\ (\A i \in 1 .. z : d[i] = 0) /\ v \in [0 .. n -> Nat]
       /\ \A i \in z + 1 .. n : v[i] = 256 * v[i - 1] + d[i]
       /\ v[n] = w[Len(b)]
  BY <1>23 DEF ZerosUpTo, BytesFrom
<1>1. d \in Seq(Nat) /\ b \in Seq(Nat)
  BY BytesAreNumbers
<1>0. ASSUME NEW k \in 0 .. Len(d)
      PROVE  /\ SubSeq(d, k + 1, Len(d)) \in Seq(0 .. 255)
             /\ Len(SubSeq(d, k + 1, Len(d))) = Len(d) - k
             /\ \A i \in 1 .. Len(d) - k : SubSeq(d, k + 1, Len(d))[i] = d[i + k]
  <2>1. PICK S : S = 0 .. 255
    OBVIOUS
  <2>2. d \in Seq(S)
    BY <2>1
  <2>3. /\ SubSeq(d, k + 1, Len(d)) \in Seq(S)
        /\ Len(SubSeq(d, k + 1, Len(d))) = Len(d) - k
        /\ \A i \in 1 .. Len(d) - k : SubSeq(d, k + 1, Len(d))[i] = d[i + k]
    BY <2>2, Behind
  <2> QED BY <2>1, <2>3
<1> DEFINE x == [i \in 0 .. n |-> IF i < z THEN 0 ELSE v[i]]
<1>2. x \in [0 .. n -> Nat] /\ x[n] = v[n]
  BY <1>24
<1>3. \A i \in 0 .. z : x[i] = 0
  BY <1>24
<1>4. \A i \in z .. n : x[i] = v[i]
  BY <1>24
<1> HIDE DEF x
<1>5. ASSUME NEW i \in 1 .. n PROVE x[i] = 256 * x[i - 1] + d[i]
  <2>1. CASE i <= z
    <3>1. i \in 0 .. z /\ i - 1 \in 0 .. z /\ i \in 1 .. z
      BY <2>1
    <3>2. x[i] = 0 /\ x[i - 1] = 0 /\ d[i] = 0
      BY <1>3, <1>24, <3>1
    <3> QED BY <3>2
  <2>2. CASE ~(i <= z)
    <3>1. i \in z + 1 .. n /\ i \in z .. n /\ i - 1 \in z .. n
      BY <2>2
    <3> QED BY <1>4, <1>24, <3>1
  <2> QED BY <2>1, <2>2
<1>6. Makes(x, 256, 0, d)
  <2>1. x[0] = 0
    BY <1>3
  <2> QED BY <1>2, <1>5, <1>23, <2>1 DEF Makes
<1>7. Significant(d) = Significant(b)
  <2>1. PICK base \in Nat : base = 256 /\ base > 0
    OBVIOUS
  <2>2. d \in Seq(0 .. base - 1) /\ b \in Seq(0 .. base - 1)
    BY <2>1
  <2>3. Makes(x, base, 0, d) /\ Makes(w, base, 0, b) /\ x[Len(d)] = w[Len(b)]
    BY <1>2, <1>6, <1>23, <1>24, <2>1
  <2>4. base \in Nat /\ base > 0
    BY <2>1
  <2> QED BY <2>2, <2>3, <2>4, SignificantOnce, SMTT(60)
<1>8. PICK c \in 0 .. n :
        c = ZeroCount(d) /\ (\A i \in 1 .. c : d[i] = 0) /\ (c < n => d[c + 1] # 0)
  <2>1. /\ ZeroCount(d) \in 0 .. Len(d)
        /\ \A i \in 1 .. ZeroCount(d) : d[i] = 0
        /\ ZeroCount(d) < Len(d) => d[ZeroCount(d) + 1] # 0
    BY <1>1, ZeroCountOf
  <2> QED BY <1>23, <2>1
<1>9. z <= c
  <2> SUFFICES ASSUME c < z PROVE FALSE
    OBVIOUS
  <2>1. c + 1 \in 1 .. z /\ c < n
    BY <1>24
  <2> QED BY <1>8, <1>24, <2>1
<1>10. PICK m \in Nat : m = Len(b)
  OBVIOUS
<1>11. z \in 0 .. m /\ \A i \in 1 .. z : b[i] = 0
  BY <1>1, <1>10, ZeroCountOf
<1>12. PICK e : e = SubSeq(d, c + 1, Len(d))
  OBVIOUS
<1>13. Len(e) = n - c /\ \A i \in 1 .. n - c : e[i] = d[i + c]
  <2>1. c \in 0 .. Len(d)
    BY <1>23
  <2>2. /\ Len(SubSeq(d, c + 1, Len(d))) = Len(d) - c
        /\ \A i \in 1 .. Len(d) - c : SubSeq(d, c + 1, Len(d))[i] = d[i + c]
    BY <1>0, <2>1
  <2> QED BY <1>12, <1>23, <2>2
<1>14. e = SubSeq(b, z + 1, Len(b))
  BY <1>7, <1>8, <1>12 DEF Significant
<1>15. Len(e) = m - z /\ \A i \in 1 .. m - z : e[i] = b[i + z]
  BY <1>10, <1>11, <1>14, Behind
<1>16. n - c = m - z
  BY <1>13, <1>15
<1>17. PICK h \in 0 .. n : h = c - z
  BY <1>9
<1>18. PICK a : a = SubSeq(d, h + 1, Len(d))
  OBVIOUS
<1>19. a \in Seq(0 .. 255) /\ Len(a) = n - h /\ \A i \in 1 .. n - h : a[i] = d[i + h]
  <2>1. h \in 0 .. Len(d)
    BY <1>23
  <2>2. /\ Len(SubSeq(d, h + 1, Len(d))) = Len(d) - h
        /\ \A i \in 1 .. Len(d) - h : SubSeq(d, h + 1, Len(d))[i] = d[i + h]
    BY <1>0, <2>1
  <2>3. SubSeq(d, h + 1, Len(d)) \in Seq(0 .. 255)
    BY <1>0, <2>1
  <2> QED BY <1>18, <1>23, <2>2, <2>3
<1>20. n - h = m
  BY <1>16, <1>17
<1>21. ASSUME NEW i \in 1 .. m PROVE a[i] = b[i]
  <2>1. a[i] = d[i + h]
    BY <1>19, <1>20
  <2>2. CASE i <= z
    <3>1. i \in 1 .. z /\ i + h \in 1 .. c
      BY <1>17, <2>2
    <3> QED BY <1>8, <1>11, <2>1, <3>1
  <2>3. CASE ~(i <= z)
    <3>1. PICK k \in 1 .. n - c : k = i - z /\ k + c = i + h /\ k + z = i
      <4>1. i - z \in 1 .. n - c /\ (i - z) + c = i + h /\ (i - z) + z = i
        BY <1>16, <1>17, <2>3
      <4> QED BY <4>1
    <3>2. e[k] = d[k + c] /\ e[k] = b[k + z]
      BY <1>13, <1>15, <1>16
    <3>3. PICK f, g : f = k + c /\ g = k + z
      OBVIOUS
    <3>4. f = i + h /\ g = i
      BY <3>1, <3>3
    <3>5. d[f] = b[g]
      BY <3>2, <3>3
    <3>6. d[i + h] = b[i]
      BY <3>4, <3>5
    <3> QED BY <2>1, <3>6
  <2> QED BY <2>2, <2>3
<1>22. a = b
  <2>1. Len(a) = Len(b) /\ \A i \in 1 .. Len(a) : a[i] = b[i]
    BY <1>10, <1>19, <1>20, <1>21
  <2> QED BY <1>19, <2>1, SeqEqual
<1> QED BY <1>8, <1>17, <1>18, <1>22, <1>23

\* The text has the zeros of the input in front, and is its number.
TextInv ==
  /\ text \in Seq(Digit) /\ ZeroCount(text) = ZeroCount(input)
  /\ \E w, y : /\ Makes(w, 58, 0, text) /\ Makes(y, 256, 0, input)
               /\ w[Len(text)] = y[Len(input)]

\* What is left of the number, followed by the bytes decoded, is that of the
\* input; a digit is used up with each byte, so that the places are enough.
QuotientInv ==
  /\ divided \in Seq(Digit) /\ Len(divided) = Len(text)
  /\ decoded \in Seq(0 .. 255) /\ Len(decoded) = Len(text)
  /\ start_at \in ZeroCount(text) .. Len(text)
  /\ j = Len(text) - (start_at - ZeroCount(text))
  /\ ZerosUpTo(divided, start_at) /\ ZerosUpTo(decoded, j)
  /\ \E u, v, y : /\ Makes(u, 58, 0, divided) /\ Makes(y, 256, 0, input) /\ BytesFrom(v, j, decoded)
                  /\ v[j] = u[Len(text)] /\ v[Len(text)] = y[Len(input)]

\* The text from the end of the encoder on, and its decoding
DecodeInv ==
  /\ phase \in {"encoded", "decoding"} => TextInv
  /\ phase = "decoding" => QuotientInv
  /\ RoundTrip

\* What the encoder writes is the number of the input, with its zeros in front.
LEMMA EncodedMakes ==
  ASSUME RoundInv, phase = "bytes", start_at = Len(input)
  PROVE  /\ Encoded \in Seq(Digit) /\ ZeroCount(Encoded) = ZeroCount(input)
         /\ \E w, y : /\ Makes(w, 58, 0, Encoded) /\ Makes(y, 256, 0, input)
                      /\ w[Len(Encoded)] = y[Len(input)]
<1>1. /\ input \in Seq(0 .. 255) /\ Digits \in Seq(Digit) /\ Len(Digits) = OutputSize
      /\ ZeroCount(input) \in 0 .. Len(input) /\ Len(input) \in Nat
  BY DigitsAre, ZeroCountIs DEF RoundInv, EncodeInv
<1>2. PICK p, y : Makes(y, 256, 0, input) /\ Makes(p, 58, 0, Digits) /\ p[OutputSize] = y[Len(input)]
  BY DEF RoundInv, ValueInv
<1>3. PICK base \in Nat : base = 58 /\ base > 0
  OBVIOUS
<1>4. 0 .. base - 1 = Digit
  BY <1>3 DEF Digit
<1>5. PICK d \in Seq(0 .. base - 1) : d = Digits /\ Len(d) = OutputSize
  BY <1>1, <1>4
<1>6. Makes(p, base, 0, d) /\ p[Len(d)] = y[Len(input)]
  BY <1>2, <1>3, <1>5
<1>7. PICK e : e = Significant(d)
  OBVIOUS
<1>8. PICK q : Proper(e, base) /\ Makes(q, base, 0, e) /\ q[Len(e)] = p[Len(d)]
  BY <1>6, <1>7, SignificantIs
<1>9. PICK z \in Nat : z = ZeroCount(input)
  BY <1>1
<1>10. PICK t : t = WithZeros(z, e)
  OBVIOUS
<1>11. Encoded = t
  BY <1>1, <1>5, <1>7, <1>9, <1>10 DEF Encoded, Digits, Significant, WithZeros
<1>12. t \in Seq(0 .. base - 1) /\ ZeroCount(t) = z
  <2>1. Proper(e, base) /\ Makes(q, base, 0, e)
    BY <1>8
  <2>2. t \in Seq(0 .. base - 1)
    BY <1>3, <1>10, <2>1, ZerosInFront
  <2>3. ZeroCount(t) = z
    BY <1>3, <1>10, <2>1, ZerosInFront
  <2> QED BY <2>2, <2>3
<1>13. PICK w : Makes(w, base, 0, t) /\ w[Len(t)] = q[Len(e)]
  BY <1>3, <1>8, <1>10, ZerosInFront
<1>14. Makes(w, 58, 0, t) /\ w[Len(t)] = y[Len(input)]
  BY <1>3, <1>6, <1>8, <1>13
<1> QED BY <1>2, <1>4, <1>9, <1>11, <1>12, <1>14

\* Before the first byte all of the number is left.
LEMMA StartStep == DecodeInv /\ StartDecoding => DecodeInv'
<1> SUFFICES ASSUME DecodeInv, StartDecoding PROVE DecodeInv'
  OBVIOUS
<1>1. phase = "encoded" /\ UNCHANGED <<input, text>>
  BY DEF StartDecoding
<1>2. TextInv
  BY <1>1 DEF DecodeInv
<1>3. TextInv'
  BY <1>1, <1>2 DEF TextInv, ZeroCount
<1>4. CASE phase' = "decoding"
  <2>1. /\ divided' = text /\ decoded' = [i \in DOMAIN text |-> 0]
        /\ start_at' = ZeroCount(text) /\ j' = Len(text)
    BY <1>4 DEF StartDecoding
  <2>2. PICK n \in Nat : n = Len(text) /\ DOMAIN text = 1 .. n
    BY <1>2 DEF TextInv
  <2>3. ZeroCount(text) \in 0 .. n
    <3>1. Digit \subseteq Nat
      BY DEF Digit
    <3>2. text \in Seq(Nat)
      BY <1>2, <3>1, NumbersOf DEF TextInv
    <3> QED BY <2>2, <3>2, ZeroCountOf
  <2>4. PICK w, y : Makes(w, 58, 0, text) /\ Makes(y, 256, 0, input) /\ w[n] = y[Len(input)]
    BY <1>2, <2>2 DEF TextInv
  <2>5. PICK a \in Nat : a = w[n]
    <3>1. n \in 0 .. Len(text)
      BY <2>2
    <3> QED BY <2>4, <3>1 DEF Makes
  <2>6. PICK v : v = [i \in 0 .. n |-> a]
    OBVIOUS
  <2>7. PICK c : c = [i \in 1 .. n |-> 0]
    OBVIOUS
  <2>8. c \in Seq(0 .. 255) /\ Len(c) = n /\ decoded' = c
    BY <2>1, <2>2, <2>7
  <2>9. ZerosUpTo(c, n)
    BY <2>7 DEF ZerosUpTo
  <2>10. BytesFrom(v, n, c) /\ v[n] = a
    BY <2>6, <2>8 DEF BytesFrom
  <2>11. ZeroCount(text)' = ZeroCount(text) /\ text' = text
    BY <1>1 DEF ZeroCount
  <2>12. start_at' \in ZeroCount(text)' .. Len(text') /\ j' = Len(text') - (start_at' - ZeroCount(text)')
    BY <2>1, <2>2, <2>3, <2>11
  <2>14. ZerosUpTo(divided', start_at') /\ ZerosUpTo(decoded', j')
    <3>1. Digit \subseteq Nat
      BY DEF Digit
    <3>2. text \in Seq(Nat)
      BY <1>2, <3>1, NumbersOf DEF TextInv
    <3>3. ZerosUpTo(text, ZeroCount(text))
      BY <3>2, ZeroCountOf DEF ZerosUpTo
    <3> QED BY <2>1, <2>2, <2>8, <2>9, <3>3
  <2>15. /\ Makes(w, 58, 0, divided') /\ Makes(y, 256, 0, input') /\ BytesFrom(v, j', decoded')
         /\ v[j'] = w[Len(text')] /\ v[Len(text')] = y[Len(input')]
    BY <1>1, <2>1, <2>2, <2>4, <2>5, <2>8, <2>10
  <2>16. divided' \in Seq(Digit) /\ Len(divided') = Len(text')
    BY <1>2, <2>1, <2>11 DEF TextInv
  <2>17. decoded' \in Seq(0 .. 255) /\ Len(decoded') = Len(text')
    BY <2>2, <2>8, <2>11
  <2>13. QuotientInv'
    BY <2>12, <2>14, <2>15, <2>16, <2>17 DEF QuotientInv
  <2> QED BY <1>3, <1>4, <2>13 DEF DecodeInv, RoundTrip
<1>5. CASE phase' # "decoding"
  <2>1. phase' = "refused"
    BY <1>5 DEF StartDecoding
  <2> QED BY <2>1 DEF DecodeInv, RoundTrip
<1> QED BY <1>4, <1>5

\* A division by 256 moves a byte from what is left to what is decoded.
LEMMA NextQuotientStep == DecodeInv /\ NextQuotient => DecodeInv'
<1> SUFFICES ASSUME DecodeInv, NextQuotient PROVE DecodeInv'
  OBVIOUS
<1>1. phase = "decoding" /\ phase' = "decoding" /\ UNCHANGED <<input, text>>
  BY DEF NextQuotient
<1>2. TextInv /\ QuotientInv
  BY <1>1 DEF DecodeInv
<1>3. TextInv'
  BY <1>1, <1>2 DEF TextInv, ZeroCount
<1>4. PICK n \in Nat : n = Len(text) /\ DOMAIN text = 1 .. n
  BY <1>2 DEF TextInv
<1>5. PICK d \in Seq(Digit) : d = divided /\ Len(d) = n
  BY <1>2, <1>4 DEF QuotientInv
<1>6. PICK z \in Nat : z = ZeroCount(text) /\ z <= n
  <2>1. Digit \subseteq Nat
    BY DEF Digit
  <2>2. text \in Seq(Nat)
    BY <1>2, <2>1, NumbersOf DEF TextInv
  <2> QED BY <1>4, <2>2, ZeroCountOf
<1>7. PICK s \in 0 .. n : s = start_at /\ s >= z /\ s < n
  <2>1. start_at \in z .. n /\ start_at < n
    BY <1>2, <1>4, <1>6 DEF QuotientInv, NextQuotient
  <2> QED BY <2>1
<1>8. PICK k \in 1 .. n : k = j /\ k = n - (s - z)
  <2>1. j = n - (s - z)
    BY <1>2, <1>4, <1>6, <1>7 DEF QuotientInv
  <2>2. n - (s - z) \in 1 .. n
    BY <1>6, <1>7
  <2> QED BY <2>1, <2>2
<1>9. PICK c \in Seq(0 .. 255) : c = decoded /\ Len(c) = n /\ ZerosUpTo(c, k)
  BY <1>2, <1>4, <1>8 DEF QuotientInv
<1>10. PICK u, v, y :
         /\ Makes(u, 58, 0, d) /\ Makes(y, 256, 0, input) /\ BytesFrom(v, k, c)
         /\ v[k] = u[n] /\ v[n] = y[Len(input)]
  BY <1>2, <1>4, <1>5, <1>8, <1>9 DEF QuotientInv
<1>11. PICK run : run = Quotients
  OBVIOUS
<1>12. IsQuotients(run, d, s, Len(d))
  <2>1. \E f : IsQuotients(f, d, s, Len(d))
    BY <1>5, <1>7, QuotientsExist
  <2>2. run = CHOOSE f : IsQuotients(f, d, s, Len(d))
    BY <1>4, <1>5, <1>7, <1>11 DEF Quotients, IsQuotients, QuotientStep
  <2> QED BY <2>1, <2>2
<1>13. PICK e : e = Left(run, d, s)
  OBVIOUS
<1>14. ZerosUpTo(d, s) /\ s \in Nat /\ s < Len(d)
  BY <1>2, <1>5, <1>7 DEF QuotientInv
<1>15. e \in Seq(Digit) /\ Len(e) = n /\ ZerosUpTo(e, s + 1)
  BY <1>5, <1>10, <1>12, <1>13, <1>14, QuotientsAre
<1>16. PICK r \in 0 .. 255 : r = run[n].rest
  BY <1>5, <1>10, <1>12, <1>14, QuotientsAre
<1>17. PICK x : Makes(x, 58, 0, e) /\ u[n] = Followed(256, x[n], r)
  BY <1>5, <1>10, <1>12, <1>13, <1>14, <1>16, QuotientsAre
<1>18. PICK a \in Nat : a = x[n]
  <2>1. n \in 0 .. Len(e)
    BY <1>15
  <2> QED BY <1>17, <2>1 DEF Makes
<1>19. PICK b : b = Put(c, k, r)
  OBVIOUS
<1>20. v[k] = Followed(256, a, r) /\ k \in 1 .. Len(c)
  BY <1>9, <1>10, <1>17, <1>18
<1>21. b \in Seq(0 .. 255) /\ Len(b) = n /\ OneMore(b, k, a, v[Len(c)])
  <2>1. BytesBehind(v, k, c, a, r)
    BY <1>10, <1>20 DEF BytesBehind
  <2>2. ZerosUpTo(c, k) /\ k \in 1 .. Len(c)
    BY <1>9
  <2>3. /\ Put(c, k, r) \in Seq(0 .. 255) /\ Len(Put(c, k, r)) = Len(c)
        /\ OneMore(Put(c, k, r), k, a, v[Len(c)])
    BY <2>1, <2>2, ByteDecoded
  <2> QED BY <1>9, <1>19, <2>3
<1>22. PICK f, h : h = k - 1 /\ ZerosUpTo(b, h) /\ BytesFrom(f, h, b) /\ f[h] = a /\ f[n] = v[n]
  BY <1>9, <1>21 DEF OneMore
<1>23. divided' = e
  BY <1>4, <1>5, <1>7, <1>11, <1>13 DEF NextQuotient, Left
<1>24. decoded' = b
  BY <1>4, <1>8, <1>9, <1>11, <1>16, <1>19 DEF NextQuotient, Put
<1>25. start_at' = s + 1
  <2>1. e[s + 1] = 0
    <3>1. s + 1 \in 1 .. s + 1
      OBVIOUS
    <3> QED BY <1>15, <3>1 DEF ZerosUpTo
  <2>2. start_at' = IF divided'[start_at + 1] = 0 THEN start_at + 1 ELSE start_at
    BY DEF NextQuotient
  <2> QED BY <1>7, <1>23, <2>1, <2>2
<1>26. j' = h
  BY <1>8, <1>22 DEF NextQuotient
<1>27. ZeroCount(text)' = z /\ Len(text') = n /\ input' = input
  BY <1>1, <1>4, <1>6 DEF ZeroCount
<1>28. start_at' \in ZeroCount(text)' .. Len(text') /\ j' = Len(text') - (start_at' - ZeroCount(text)')
  <2>1. s + 1 \in z .. n /\ h = n - ((s + 1) - z)
    BY <1>7, <1>8, <1>22
  <2> QED BY <1>25, <1>26, <1>27, <2>1
<1>29. divided' \in Seq(Digit) /\ Len(divided') = Len(text') /\ ZerosUpTo(divided', start_at')
  BY <1>15, <1>23, <1>25, <1>27
<1>30. decoded' \in Seq(0 .. 255) /\ Len(decoded') = Len(text') /\ ZerosUpTo(decoded', j')
  BY <1>21, <1>22, <1>24, <1>26, <1>27
<1>31. /\ Makes(x, 58, 0, divided') /\ Makes(y, 256, 0, input') /\ BytesFrom(f, j', decoded')
       /\ f[j'] = x[Len(text')] /\ f[Len(text')] = y[Len(input')]
  BY <1>10, <1>17, <1>18, <1>22, <1>23, <1>24, <1>26, <1>27
<1>32. QuotientInv'
  BY <1>28, <1>29, <1>30, <1>31 DEF QuotientInv
<1> QED BY <1>1, <1>3, <1>32 DEF DecodeInv, RoundTrip

\* When nothing is left the bytes decoded are the input.
LEMMA DecodedStep == RoundInv /\ DecodeInv /\ FinishDecoding => DecodeInv'
<1> SUFFICES ASSUME RoundInv, DecodeInv, FinishDecoding PROVE DecodeInv'
  OBVIOUS
<1>1. phase = "decoding" /\ phase' = "decoded" /\ input' = input /\ decoded' = ZerosKept /\ start_at = Len(text)
  BY DEF FinishDecoding
<1>2. TextInv /\ QuotientInv
  BY <1>1 DEF DecodeInv
<1>3. PICK n \in Nat : n = Len(text)
  BY <1>2 DEF TextInv
<1>4. PICK z \in 0 .. n : z = ZeroCount(text) /\ z = ZeroCount(input)
  <2>1. Digit \subseteq Nat
    BY DEF Digit
  <2>2. text \in Seq(Nat)
    BY <1>2, <2>1, NumbersOf DEF TextInv
  <2>3. ZeroCount(text) \in 0 .. n
    BY <1>3, <2>2, ZeroCountOf
  <2> QED BY <1>2, <2>3 DEF TextInv
<1>5. j = z
  <2>1. j = n - (n - z)
    BY <1>1, <1>2, <1>3, <1>4 DEF QuotientInv
  <2> QED BY <2>1
<1>6. PICK c \in Seq(0 .. 255) : c = decoded /\ n = Len(c) /\ ZerosUpTo(c, z)
  BY <1>2, <1>3, <1>5 DEF QuotientInv
<1>7. PICK u, v, y :
        /\ Makes(u, 58, 0, divided) /\ Makes(y, 256, 0, input) /\ BytesFrom(v, z, c)
        /\ v[z] = u[n] /\ v[n] = y[Len(input)]
  BY <1>2, <1>3, <1>5, <1>6 DEF QuotientInv
<1>8. u[n] = 0
  <2>1. Digit \subseteq Nat
    BY DEF Digit
  <2>2. PICK d \in Seq(Nat) : d = divided /\ Len(d) = n
    BY <1>2, <1>3, <2>1, NumbersOf DEF QuotientInv
  <2>3. n \in 0 .. Len(d) /\ (\A i \in 1 .. n : d[i] = 0) /\ n \in 0 .. n /\ 58 \in Nat
    BY <1>1, <1>2, <1>3, <2>2 DEF QuotientInv, ZerosUpTo
  <2>4. Makes(u, 58, 0, d)
    BY <1>7, <2>2
  <2> QED BY <2>3, <2>4, ZerosMakeZero
<1>9. PICK b \in Seq(0 .. 255) : b = input
  BY DEF RoundInv, EncodeInv
<1>10. SubSeq(c, ZeroCount(c) - z + 1, n) = b
  <2>1. v[z] = 0 /\ Makes(y, 256, 0, b) /\ v[Len(c)] = y[Len(b)] /\ ZeroCount(b) = z /\ z \in 0 .. Len(c)
    BY <1>4, <1>6, <1>7, <1>8, <1>9
  <2>2. SubSeq(c, ZeroCount(c) - z + 1, Len(c)) = b
    BY <1>6, <1>7, <2>1, SameBytes
  <2> QED BY <1>6, <2>2
<1>11. decoded' = input'
  BY <1>1, <1>3, <1>4, <1>6, <1>9, <1>10 DEF ZerosKept
<1> QED BY <1>1, <1>11 DEF DecodeInv, RoundTrip

\* DecodeInv is kept by every step.
LEMMA DecodeStep == RoundInv /\ DecodeInv /\ [Next]_vars => DecodeInv'
<1> SUFFICES ASSUME RoundInv, DecodeInv, [Next]_vars PROVE DecodeInv'
  OBVIOUS
<1>1. ASSUME phase' \in {"bytes", "digits", "refused"}
      PROVE  DecodeInv'
  BY <1>1 DEF DecodeInv, RoundTrip
<1>2. CASE NextByte
  BY <1>1, <1>2 DEF NextByte
<1>3. CASE NextDigit
  <2>1. phase' \in {"bytes", "digits"}
    BY <1>3 DEF NextDigit
  <2> QED BY <1>1, <2>1
<1>4. CASE Finish
  <2>1. phase = "bytes" /\ start_at = Len(input) /\ input' = input
    BY <1>4 DEF Finish
  <2>2. CASE phase' = "refused"
    BY <1>1, <2>2
  <2>3. CASE phase' # "refused"
    <3>1. phase' = "encoded" /\ text' = Encoded
      BY <1>4, <2>3 DEF Finish
    <3>2. PICK t : t = Encoded
      OBVIOUS
    <3>3. /\ t \in Seq(Digit) /\ ZeroCount(t) = ZeroCount(input)
          /\ \E w, y : Makes(w, 58, 0, t) /\ Makes(y, 256, 0, input) /\ w[Len(t)] = y[Len(input)]
      BY <2>1, <3>2, EncodedMakes
    <3>4. text' = t
      BY <3>1, <3>2
    <3>5. ZeroCount(text)' = ZeroCount(t) /\ ZeroCount(input)' = ZeroCount(input)
      BY <2>1, <3>4 DEF ZeroCount
    <3>6. TextInv'
      BY <2>1, <3>3, <3>4, <3>5 DEF TextInv
    <3> QED BY <3>1, <3>6 DEF DecodeInv, RoundTrip
  <2> QED BY <2>2, <2>3
<1>5. CASE StartDecoding
  BY <1>5, StartStep
<1>6. CASE NextQuotient
  BY <1>6, NextQuotientStep
<1>7. CASE FinishDecoding
  BY <1>7, DecodedStep
<1>8. CASE UNCHANGED vars
  <2>1. TextInv => TextInv'
    BY <1>8 DEF vars, TextInv, ZeroCount
  <2>2. QuotientInv => QuotientInv'
    <3>1. UNCHANGED <<input, start_at, j, text, divided, decoded>>
      BY <1>8 DEF vars
    <3>2. ZeroCount(text)' = ZeroCount(text)
      BY <3>1 DEF ZeroCount
    <3> QED BY <3>1, <3>2 DEF QuotientInv
  <2>3. phase' = phase /\ decoded' = decoded /\ input' = input
    BY <1>8 DEF vars
  <2> QED BY <2>1, <2>2, <2>3 DEF DecodeInv, RoundTrip
<1> QED BY <1>2, <1>3, <1>4, <1>5, <1>6, <1>7, <1>8 DEF Next

\* What base58_decode makes of the digits is what base58_encode was given: for
\* all input.
THEOREM DecodesWhatWasEncoded == Spec => []RoundTrip
<1>1. Init => DecodeInv
  BY DEF Init, DecodeInv, RoundTrip
<1>2. DecodeInv => RoundTrip
  BY DEF DecodeInv
<1> QED BY <1>1, <1>2, RoundInit, RoundStep, DecodeStep, PTL DEF Spec
=============================================================================

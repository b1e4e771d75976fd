------------------------------- MODULE Numbers -------------------------------
(***************************************************************************)
(* Numbers written in a base, for the proofs about long division.  They    *)
(* are not computed but described: p is what the digits of d make, one     *)
(* after the other, with start in front of them.                           *)
(***************************************************************************)
EXTENDS Least, SequenceTheorems

\* p has what the first digits make, for each number of them.
Makes(p, base, start, d) ==
  /\ p \in [0 .. Len(d) -> Nat]
  /\ p[0] = start
  /\ \A i \in 1 .. Len(d) : p[i] = base * p[i - 1] + d[i]

\* Digits, with none that is zero in front
Proper(d, base) == d \in Seq(0 .. base - 1) /\ (Len(d) > 0 => d[1] # 0)

\* The product of two numbers is a number.
LEMMA Product == \A x, y \in Nat : x * y \in Nat
OBVIOUS

\* A larger factor makes a larger product.
LEMMA ProductGrows ==
  ASSUME NEW b \in Nat, NEW x \in Nat, NEW y \in Nat, x <= y
  PROVE  b * x <= b * y
<1>1. PICK n \in Nat : y = x + n
  <2>1. y - x \in Nat /\ y = x + (y - x)
    OBVIOUS
  <2> QED BY <2>1
<1>2. b * y = b * x + b * n
  BY <1>1
<1>3. b * n \in Nat /\ b * x \in Nat
  BY Product
<1> QED BY <1>2, <1>3

\* A number has one quotient and one rest.
LEMMA OneQuotient ==
  ASSUME NEW b \in Nat, NEW x \in Nat, NEW y \in Nat, NEW d \in 0 .. b - 1, NEW e \in 0 .. b - 1,
         b * x + d = b * y + e
  PROVE  x = y /\ d = e
<1>0. b * x \in Nat /\ b * y \in Nat
  BY Product
<1>1. ASSUME NEW u \in Nat, NEW v \in Nat, NEW r \in 0 .. b - 1, NEW s \in 0 .. b - 1,
             b * u + r = b * v + s, u < v
      PROVE  FALSE
  <2>1. u + 1 <= v /\ u + 1 \in Nat
    BY <1>1
  <2>2. b * (u + 1) <= b * v
    BY <1>1, <2>1, ProductGrows
  <2>3. b * (u + 1) = b * u + b
    OBVIOUS
  <2>4. b * u \in Nat /\ b * v \in Nat
    BY Product
  <2> QED BY <1>1, <2>2, <2>3, <2>4
<1>2. ~(x < y) /\ ~(y < x)
  BY <1>1
<1>3. x = y
  BY <1>2
<1> QED BY <1>0, <1>3

\* Division by k leaves a quotient and a rest, which is less than k.
LEMMA QuotientAndRest ==
  ASSUME NEW k \in Nat, k > 0, NEW n \in Nat
  PROVE  \E x \in Nat, y \in 0 .. k - 1 : x = n \div k /\ y = n % k /\ n = k * x + y
<1>1. n \div k \in Nat
  BY SMT
<1>2. n % k \in 0 .. k - 1
  BY SMT
<1>3. n = k * (n \div k) + (n % k)
  BY SMT
<1> QED BY <1>1, <1>2, <1>3

\* What is behind the first z of a sequence
LEMMA Behind ==
  ASSUME NEW S, NEW d \in Seq(S), NEW z \in 0 .. Len(d)
  PROVE  /\ SubSeq(d, z + 1, Len(d)) \in Seq(S)
         /\ Len(SubSeq(d, z + 1, Len(d))) = Len(d) - z
         /\ \A i \in 1 .. Len(d) - z : SubSeq(d, z + 1, Len(d))[i] = d[i + z]
<1>1. Len(d) \in Nat /\ d \in [1 .. Len(d) -> S] /\ z \in Nat
  OBVIOUS
<1>2. \A i \in z + 1 .. Len(d) : d[i] \in S
  BY <1>1
<1>3. z + 1 \in Int /\ Len(d) \in Int
  BY <1>1
<1>4. /\ SubSeq(d, z + 1, Len(d)) \in Seq(S)
      /\ Len(SubSeq(d, z + 1, Len(d))) = IF z + 1 <= Len(d) THEN Len(d) - (z + 1) + 1 ELSE 0
  BY <1>2, <1>3, SubSeqProperties
<1>5. (IF z + 1 <= Len(d) THEN Len(d) - (z + 1) + 1 ELSE 0) = Len(d) - z
  <2>0. PICK n \in Nat : n = Len(d)
    OBVIOUS
  <2>1. z \in Nat /\ z <= n
    BY <2>0
  <2>2. (IF z + 1 <= n THEN n - (z + 1) + 1 ELSE 0) = n - z
    <3>1. CASE z + 1 <= n
      BY <2>1, <3>1
    <3>2. CASE ~(z + 1 <= n)
      <4>1. z = n
        BY <2>1, <3>2
      <4> QED BY <3>2, <4>1
    <3> QED BY <3>1, <3>2
  <2> QED BY <2>0, <2>2
<1>6. \A i \in 1 .. Len(d) - z : SubSeq(d, z + 1, Len(d))[i] = d[i + z]
  BY <1>1
<1> QED BY <1>4, <1>5, <1>6

\* Digits are numbers.
LEMMA NumbersOf ==
  ASSUME NEW S, S \subseteq Nat, NEW d \in Seq(S)
  PROVE  d \in Seq(Nat)
<1>1. Len(d) \in Nat /\ d \in [1 .. Len(d) -> S]
  OBVIOUS
<1>2. \A i \in 1 .. Len(d) : d[i] \in Nat
  BY <1>1
<1> QED BY <1>1, <1>2

\* f is defined by recursion over 0 .. n, from first on, with next for each step.
Recursion(f, n, S, first, next) ==
  f \in [0 .. n -> S] /\ f[0] = first /\ \A i \in 1 .. n : f[i] = next[i][f[i - 1]]

\* What the steps lead to is in S.
Closed(next, n, S) == \A i \in 1 .. n, s \in S : next[i][s] \in S

\* A definition by recursion over 0 .. n has a value, if what it steps from and
\* to is in a set: were there a number up to which it has none, the value up to
\* the number before would go on.
LEMMA RecursionExists ==
  ASSUME NEW n \in Nat, NEW S, NEW first \in S, NEW next, Closed(next, n, S)
  PROVE  \E f : Recursion(f, n, S, first, next)
<1>0. \A i \in 1 .. n, s \in S : next[i][s] \in S
  BY DEF Closed
<1> DEFINE Is(f, k) == /\ f \in [0 .. k -> S]
                       /\ f[0] = first
                       /\ \A i \in 1 .. k : f[i] = next[i][f[i - 1]]
           Bad == {k \in 0 .. n : ~\E f : Is(f, k)}
<1>1. Bad = {}
  <2> SUFFICES ASSUME Bad # {} PROVE FALSE
    OBVIOUS
  <2>1. PICK k \in Bad : \A m \in Bad : k <= m
    <3>1. Bad \subseteq Nat
      OBVIOUS
    <3> HIDE DEF Bad
    <3> QED BY <3>1, LeastNumber
  <2>2. k \in 0 .. n /\ k \in Nat
    BY <2>1
  <2>3. CASE k = 0
    <3> DEFINE f == [i \in 0 .. 0 |-> first]
    <3>1. Is(f, 0)
      OBVIOUS
    <3> HIDE DEF f
    <3> QED BY <2>1, <2>3, <3>1
  <2>4. CASE k # 0
    <3>1. k - 1 \in 0 .. n /\ ~(k <= k - 1) /\ k \in 1 .. n
      BY <2>2, <2>4
    <3>2. k - 1 \notin Bad
      <4> HIDE DEF Bad
      <4> QED BY <2>1, <3>1
    <3>3. PICK f : Is(f, k - 1)
      BY <3>1, <3>2
    <3>4. f[k - 1] \in S
      BY <3>1, <3>3, <2>2, <2>4
    <3>5. PICK last \in S : last = next[k][f[k - 1]]
      BY <1>0, <3>1, <3>4
    <3> DEFINE g == [i \in 0 .. k |-> IF i = k THEN last ELSE f[i]]
    <3>6. g \in [0 .. k -> S] /\ g[0] = first
      <4>1. \A i \in 0 .. k : i # k => i \in 0 .. k - 1
        BY <2>2
      <4> QED BY <3>3, <3>5, <4>1, <2>2, <2>4
    <3>7. ASSUME NEW i \in 1 .. k PROVE g[i] = next[i][g[i - 1]]
      <4>1. i - 1 \in 0 .. k /\ i - 1 # k /\ i \in 0 .. k
        BY <2>2
      <4>2. g[i - 1] = f[i - 1]
        BY <4>1
      <4>3. CASE i = k
        BY <3>5, <4>1, <4>2, <4>3
      <4>4. CASE i # k
        <5>1. i \in 1 .. k - 1 /\ g[i] = f[i]
          BY <2>2, <4>1, <4>4
        <5>2. f[i] = next[i][f[i - 1]]
          BY <3>3, <5>1
        <5> QED BY <4>2, <5>1, <5>2
      <4> QED BY <4>3, <4>4
    <3>8. Is(g, k)
      <4> HIDE DEF g
      <4> QED BY <3>6, <3>7
    <3> HIDE DEF g
    <3> QED BY <2>1, <3>8
  <2> QED BY <2>3, <2>4
<1>2. n \in 0 .. n
  OBVIOUS
<1>3. PICK f : Is(f, n)
  BY <1>1, <1>2
<1> QED BY <1>3 DEF Recursion

\* All digits make numbers.
LEMMA MakesExists ==
  ASSUME NEW base \in Nat, NEW start \in Nat, NEW d \in Seq(Nat)
  PROVE  \E p : Makes(p, base, start, d)
<1> DEFINE step == [i \in 1 .. Len(d) |-> [s \in Nat |-> base * s + d[i]]]
<1>1. Len(d) \in Nat /\ \A i \in 1 .. Len(d) : d[i] \in Nat
  OBVIOUS
<1>2. ASSUME NEW i \in 1 .. Len(d), NEW s \in Nat
      PROVE  step[i][s] = base * s + d[i] /\ base * s + d[i] \in Nat
  <2>1. PICK x \in Nat : x = base * s
    BY Product
  <2>2. PICK y \in Nat : y = d[i]
    BY <1>1
  <2>3. step[i][s] = base * s + d[i]
    OBVIOUS
  <2>4. base * s + d[i] \in Nat
    BY <2>1, <2>2
  <2> HIDE DEF step
  <2> QED BY <2>3, <2>4
<1> DEFINE N == Nat
<1>6. start \in N /\ Closed(step, Len(d), N)
  BY <1>2 DEF Closed
<1> HIDE DEF step, N
<1>3. PICK f : Recursion(f, Len(d), N, start, step)
  BY <1>1, <1>6, RecursionExists
<1>7. f \in [0 .. Len(d) -> Nat]
  BY <1>3 DEF N, Recursion
<1>4. ASSUME NEW i \in 1 .. Len(d) PROVE f[i] = base * f[i - 1] + d[i]
  <2>1. i - 1 \in 0 .. Len(d)
    BY <1>1
  <2>2. f[i - 1] \in Nat
    BY <1>7, <2>1
  <2> QED BY <1>2, <1>3, <2>2 DEF Recursion
<1>5. Makes(f, base, start, d)
  BY <1>3, <1>4, <1>7 DEF Makes, Recursion
<1> QED BY <1>5

\* The numbers that digits make are determined by them.
LEMMA MakesOnce ==
  ASSUME NEW base, NEW start, NEW d \in Seq(Nat), NEW p, NEW q,
         Makes(p, base, start, d), Makes(q, base, start, d)
  PROVE  p = q
<1> DEFINE Bad == {i \in 0 .. Len(d) : p[i] # q[i]}
<1>0. Len(d) \in Nat
  OBVIOUS
<1>1. Bad = {}
  <2> SUFFICES ASSUME Bad # {} PROVE FALSE
    OBVIOUS
  <2>1. PICK k \in Bad : \A m \in Bad : k <= m
    <3>1. Bad \subseteq Nat
      BY <1>0
    <3> HIDE DEF Bad
    <3> QED BY <3>1, LeastNumber
  <2>2. k \in 0 .. Len(d) /\ p[k] # q[k]
    BY <2>1
  <2>3. k # 0
    BY <2>2 DEF Makes
  <2>4. k - 1 \in 0 .. Len(d) /\ ~(k <= k - 1) /\ k \in 1 .. Len(d)
    BY <1>0, <2>2, <2>3
  <2>5. p[k - 1] = q[k - 1]
    BY <2>1, <2>4
  <2>6. p[k] = base * p[k - 1] + d[k] /\ q[k] = base * q[k - 1] + d[k]
    BY <2>4 DEF Makes
  <2> QED BY <2>2, <2>5, <2>6
<1> QED BY <1>1 DEF Makes

\* With more digits a number is no less.
LEMMA MakesGrows ==
  ASSUME NEW base \in Nat, base > 0, NEW start, NEW d \in Seq(Nat), NEW p,
         Makes(p, base, start, d), NEW a \in 0 .. Len(d), NEW b \in a .. Len(d)
  PROVE  p[a] <= p[b]
<1> DEFINE Bad == {i \in a .. Len(d) : ~(p[a] <= p[i])}
<1>0. Len(d) \in Nat /\ p \in [0 .. Len(d) -> Nat] /\ a \in Nat
  BY DEF Makes
<1>1. Bad = {}
  <2> SUFFICES ASSUME Bad # {} PROVE FALSE
    OBVIOUS
  <2>1. PICK k \in Bad : \A m \in Bad : k <= m
    <3>1. Bad \subseteq Nat
      BY <1>0
    <3> HIDE DEF Bad
    <3> QED BY <3>1, LeastNumber
  <2>2. k \in a .. Len(d) /\ ~(p[a] <= p[k])
    BY <2>1
  <2>3. k # a
    BY <1>0, <2>2, SMTT(60)
  <2>4. k - 1 \in a .. Len(d) /\ ~(k <= k - 1) /\ k \in 1 .. Len(d) /\ k - 1 \in 0 .. Len(d)
    BY <1>0, <2>2, <2>3
  <2>5. p[a] <= p[k - 1]
    BY <2>1, <2>4
  <2>6. PICK x \in Nat : x = p[k - 1]
    BY <1>0, <2>4
  <2>7. PICK y \in Nat : y = d[k]
    BY <2>4
  <2>8. p[k] = base * x + y
    BY <2>4, <2>6, <2>7 DEF Makes
  <2>9. base * x >= x /\ base * x \in Nat
    <3>1. x * 1 <= x * base
      BY <2>6, ProductGrows
    <3>2. x * base = base * x /\ x * 1 = x
      BY <2>6
    <3> QED BY <3>1, <3>2, Product
  <2>10. p[a] \in Nat /\ p[a] <= x
    BY <1>0, <2>5, <2>6
  <2>11. PICK w \in Nat : w = base * x
    BY <2>9
  <2>12. p[k] = w + y /\ x <= w
    BY <2>8, <2>9, <2>11
  <2>13. PICK v \in Nat : v = p[a]
    BY <2>10
  <2>14. v <= w + y
    <3>1. v <= x /\ x <= w
      BY <2>10, <2>12, <2>13
    <3> QED BY <3>1
  <2> QED BY <2>2, <2>12, <2>13, <2>14
<1> QED BY <1>1

\* Zeros in front make nothing.
LEMMA ZerosMakeZero ==
  ASSUME NEW base \in Nat, NEW d \in Seq(Nat), NEW p, Makes(p, base, 0, d),
         NEW z \in 0 .. Len(d), \A i \in 1 .. z : d[i] = 0, NEW a \in 0 .. z
  PROVE  p[a] = 0
<1> DEFINE Bad == {i \in 0 .. z : p[i] # 0}
<1>0. Len(d) \in Nat /\ z \in Nat
  OBVIOUS
<1>1. Bad = {}
  <2> SUFFICES ASSUME Bad # {} PROVE FALSE
    OBVIOUS
  <2>1. PICK k \in Bad : \A m \in Bad : k <= m
    <3>1. Bad \subseteq Nat
      BY <1>0
    <3> HIDE DEF Bad
    <3> QED BY <3>1, LeastNumber
  <2>2. k \in 0 .. z /\ p[k] # 0
    BY <2>1
  <2>3. k # 0
    BY <2>2 DEF Makes
  <2>4. k - 1 \in 0 .. z /\ ~(k <= k - 1) /\ k \in 1 .. z /\ k \in 1 .. Len(d)
    BY <1>0, <2>2, <2>3
  <2>5. p[k - 1] = 0
    BY <2>1, <2>4
  <2>6. p[k] = base * 0 + 0
    BY <2>4, <2>5 DEF Makes
  <2>7. base * 0 + 0 = 0
    OBVIOUS
  <2> QED BY <2>2, <2>6, <2>7
<1> QED BY <1>1

\* What is made behind the first z digits
LEMMA MakesBehind ==
  ASSUME NEW base, NEW start, NEW d \in Seq(Nat), NEW p, Makes(p, base, start, d),
         NEW z \in 0 .. Len(d)
  PROVE  Makes([i \in 0 .. Len(d) - z |-> p[i + z]], base, p[z], SubSeq(d, z + 1, Len(d)))
<1> DEFINE q == [i \in 0 .. Len(d) - z |-> p[i + z]]
           e == SubSeq(d, z + 1, Len(d))
<1>1. Len(d) \in Nat /\ z \in Nat /\ p \in [0 .. Len(d) -> Nat]
  BY DEF Makes
<1>2. Len(e) = Len(d) - z /\ \A i \in 1 .. Len(d) - z : e[i] = d[i + z]
  BY <1>1
<1>3. q \in [0 .. Len(d) - z -> Nat] /\ q[0] = p[z]
  BY <1>1
<1>4. ASSUME NEW i \in 1 .. Len(d) - z PROVE q[i] = base * q[i - 1] + e[i]
  <2>1. /\ i + z \in 1 .. Len(d) /\ (i + z) - 1 = (i - 1) + z
        /\ i \in 0 .. Len(d) - z /\ i - 1 \in 0 .. Len(d) - z
    BY <1>1
  <2>2. p[i + z] = base * p[(i + z) - 1] + d[i + z]
    BY <2>1 DEF Makes
  <2>3. q[i] = p[i + z] /\ q[i - 1] = p[(i + z) - 1]
    BY <2>1
  <2> HIDE DEF q
  <2> QED BY <1>2, <2>2, <2>3
<1> HIDE DEF q, e
<1>5. Makes(q, base, p[z], e)
  BY <1>2, <1>3, <1>4 DEF Makes
<1> QED BY <1>5 DEF q, e

\* The last digits of a number are determined by it.
LEMMA SameTails ==
  ASSUME NEW base \in Nat, NEW d \in Seq(0 .. base - 1), NEW e \in Seq(0 .. base - 1),
         NEW p, NEW q, Makes(p, base, 0, d), Makes(q, base, 0, e),
         p[Len(d)] = q[Len(e)], NEW m \in Nat, m <= Len(d), m <= Len(e)
  PROVE  p[Len(d) - m] = q[Len(e) - m]
<1> DEFINE Bad == {i \in 0 .. m : p[Len(d) - i] # q[Len(e) - i]}
<1>0. Len(d) \in Nat /\ Len(e) \in Nat
  OBVIOUS
<1>1. Bad = {}
  <2> SUFFICES ASSUME Bad # {} PROVE FALSE
    OBVIOUS
  <2>1. PICK k \in Bad : \A i \in Bad : k <= i
    <3>1. Bad \subseteq Nat
      BY <1>0
    <3> HIDE DEF Bad
    <3> QED BY <3>1, LeastNumber
  <2>2. k \in 0 .. m /\ p[Len(d) - k] # q[Len(e) - k]
    BY <2>1
  <2>3. k # 0
    BY <1>0, <2>2
  <2>4. k - 1 \in 0 .. m /\ ~(k <= k - 1)
    BY <2>2, <2>3
  <2>5. p[Len(d) - (k - 1)] = q[Len(e) - (k - 1)]
    BY <2>1, <2>4
  <2>6. PICK i \in 1 .. Len(d) : i = Len(d) - (k - 1)
    <3>1. Len(d) - (k - 1) \in 1 .. Len(d)
      BY <1>0, <2>2, <2>3
    <3> QED BY <3>1
  <2>7. PICK h \in 1 .. Len(e) : h = Len(e) - (k - 1)
    <3>1. Len(e) - (k - 1) \in 1 .. Len(e)
      BY <1>0, <2>2, <2>3
    <3> QED BY <3>1
  <2>8. i - 1 = Len(d) - k /\ h - 1 = Len(e) - k
    BY <1>0, <2>2, <2>6, <2>7
  <2>9. p[i] = base * p[i - 1] + d[i] /\ q[h] = base * q[h - 1] + e[h]
    BY DEF Makes
  <2>10. p[i - 1] \in Nat /\ q[h - 1] \in Nat
    <3>1. i - 1 \in 0 .. Len(d) /\ h - 1 \in 0 .. Len(e)
      BY <1>0, SMTT(60)
    <3> QED BY <3>1 DEF Makes
  <2>11. d[i] \in 0 .. base - 1 /\ e[h] \in 0 .. base - 1
    BY ElementOfSeq
  <2>12. p[i - 1] = q[h - 1]
    <3>1. base * p[i - 1] + d[i] = base * q[h - 1] + e[h]
      BY <2>5, <2>6, <2>7, <2>9
    <3> QED BY <2>10, <2>11, <3>1, OneQuotient
  <2> QED BY <2>2, <2>8, <2>12
<1>2. m \in 0 .. m
  OBVIOUS
<1> QED BY <1>1, <1>2

\* No proper digits of a number are more than others.
LEMMA NotLonger ==
  ASSUME NEW base \in Nat, base > 0, NEW d, NEW e, Proper(d, base), Proper(e, base),
         NEW p, NEW q, Makes(p, base, 0, d), Makes(q, base, 0, e), p[Len(d)] = q[Len(e)]
  PROVE  Len(d) <= Len(e)
<1> SUFFICES ASSUME Len(d) > Len(e) PROVE FALSE
  BY DEF Proper
<1>1. d \in Seq(0 .. base - 1) /\ e \in Seq(0 .. base - 1) /\ Len(d) \in Nat /\ Len(e) \in Nat
  BY DEF Proper
<1>2. p[Len(d) - Len(e)] = q[Len(e) - Len(e)]
  BY <1>1, SameTails, SMTT(60)
<1>3. p[Len(d) - Len(e)] = 0
  BY <1>1, <1>2 DEF Makes
<1>4. 1 \in 1 .. Len(d) /\ d[1] # 0 /\ p[1] = base * p[0] + d[1] /\ p[0] = 0
  BY <1>1 DEF Makes, Proper
<1>5. d[1] \in 0 .. base - 1
  BY <1>1, <1>4, ElementOfSeq
<1>6. p[1] > 0
  BY <1>4, <1>5
<1>7. 1 \in 0 .. Len(d) /\ Len(d) - Len(e) \in 1 .. Len(d)
  BY <1>1
<1>8. d \in Seq(Nat)
  BY <1>1
<1>9. p[1] <= p[Len(d) - Len(e)]
  BY <1>7, <1>8, MakesGrows
<1>10. p[1] \in Nat
  BY <1>7 DEF Makes
<1> QED BY <1>3, <1>6, <1>9, <1>10

\* The proper digits of a number are determined by it.
LEMMA SameDigits ==
  ASSUME NEW base \in Nat, base > 0, NEW d, NEW e, Proper(d, base), Proper(e, base),
         NEW p, NEW q, Makes(p, base, 0, d), Makes(q, base, 0, e), p[Len(d)] = q[Len(e)]
  PROVE  d = e
<1>1. d \in Seq(0 .. base - 1) /\ e \in Seq(0 .. base - 1) /\ Len(d) \in Nat /\ Len(e) \in Nat
  BY DEF Proper
<1>2. Len(d) = Len(e)
  <2>1. Len(d) <= Len(e)
    BY NotLonger
  <2>2. Len(e) <= Len(d)
    BY NotLonger
  <2> QED BY <1>1, <2>1, <2>2
<1>3. ASSUME NEW i \in 0 .. Len(d) PROVE p[i] = q[i]
  <2>1. PICK m \in Nat : m = Len(d) - i
    <3>1. Len(d) - i \in Nat
      BY <1>1
    <3> QED BY <3>1
  <2>4. m <= Len(d) /\ m <= Len(e)
    BY <1>1, <1>2, <2>1
  <2>2. p[Len(d) - m] = q[Len(e) - m]
    BY <1>1, <2>4, SameTails, SMTT(30)
  <2>3. Len(d) - m = i /\ Len(e) - m = i
    BY <1>1, <1>2, <2>1
  <2> QED BY <2>2, <2>3
<1>4. ASSUME NEW i \in 1 .. Len(d) PROVE d[i] = e[i]
  <2>1. i \in 0 .. Len(d) /\ i - 1 \in 0 .. Len(d) /\ i \in 1 .. Len(e)
    BY <1>1, <1>2
  <2>2. p[i] = q[i] /\ p[i - 1] = q[i - 1] /\ p[i - 1] \in Nat
    BY <1>3, <2>1 DEF Makes
  <2>3. p[i] = base * p[i - 1] + d[i] /\ q[i] = base * q[i - 1] + e[i]
    BY <2>1 DEF Makes
  <2>4. d[i] \in 0 .. base - 1 /\ e[i] \in 0 .. base - 1
    BY <1>1, <2>1, ElementOfSeq
  <2>5. base * p[i - 1] + d[i] = base * q[i - 1] + e[i]
    BY <2>2, <2>3
  <2> QED BY <2>2, <2>4, <2>5, OneQuotient
<1> QED BY <1>1, <1>2, <1>4, SMTT(60)

-----------------------------------------------------------------------------

\* The powers of a base
Powers(f, base, n) == Makes(f, base, 1, [i \in 1 .. n |-> 0])

\* Each is the base times the one before.
LEMMA PowersAre ==
  ASSUME NEW base \in Nat, NEW n \in Nat, NEW f, Powers(f, base, n)
  PROVE  f[0] = 1 /\ (\A i \in 0 .. n : f[i] \in Nat) /\ \A i \in 1 .. n : f[i] = base * f[i - 1]
<1> DEFINE d == [i \in 1 .. n |-> 0]
<1>1. Len(d) = n /\ \A i \in 1 .. n : d[i] = 0
  OBVIOUS
<1> HIDE DEF d
<1>2. Makes(f, base, 1, d)
  BY DEF Powers, d
<1>3. f \in [0 .. n -> Nat] /\ f[0] = 1
  BY <1>1, <1>2 DEF Makes
<1>4. ASSUME NEW i \in 1 .. n PROVE f[i] = base * f[i - 1]
  <2>1. f[i] = base * f[i - 1] + 0
    BY <1>1, <1>2 DEF Makes
  <2>2. f[i - 1] \in Nat
    BY <1>3
  <2>3. base * f[i - 1] \in Nat
    BY <2>2, Product
  <2>4. PICK x \in Nat : x = base * f[i - 1]
    BY <2>3
  <2> QED BY <2>1, <2>4
<1> QED BY <1>3, <1>4

\* There are as many of them as one wants.
LEMMA PowersExist ==
  ASSUME NEW base \in Nat, NEW n \in Nat
  PROVE  \E f : Powers(f, base, n)
<1>1. [i \in 1 .. n |-> 0] \in Seq(Nat)
  OBVIOUS
<1> QED BY <1>1, MakesExists DEF Powers

\* A number with digits behind one that is not zero is no less than a power.
LEMMA DigitsReach ==
  ASSUME NEW base \in Nat, NEW m \in Nat, NEW f, Powers(f, base, m),
         NEW n \in Nat, NEW q \in [0 .. n -> Nat], NEW a \in 0 .. n, q[a] >= 1, n - a <= m,
         \A i \in a + 1 .. n : q[i] >= base * q[i - 1]
  PROVE  q[n] >= f[n - a]
<1> DEFINE Bad == {i \in a .. n : ~(q[i] >= f[i - a])}
<1>0. f[0] = 1 /\ (\A i \in 0 .. m : f[i] \in Nat) /\ \A i \in 1 .. m : f[i] = base * f[i - 1]
  BY PowersAre
<1>1. Bad = {}
  <2> SUFFICES ASSUME Bad # {} PROVE FALSE
    OBVIOUS
  <2>1. PICK k \in Bad : \A i \in Bad : k <= i
    <3>1. Bad \subseteq Nat
      OBVIOUS
    <3> HIDE DEF Bad
    <3> QED BY <3>1, LeastNumber
  <2>2. k \in a .. n /\ ~(q[k] >= f[k - a])
    BY <2>1
  <2>3. k # a
    <3>1. k = a => q[k] >= f[k - a]
      BY <1>0
    <3> QED BY <2>2, <3>1
  <2>4. k - 1 \in a .. n /\ ~(k <= k - 1) /\ k \in a + 1 .. n
    BY <2>2, <2>3
  <2>5. q[k - 1] >= f[(k - 1) - a]
    BY <2>1, <2>4
  <2>6. PICK i \in 1 .. m : i = k - a
    <3>1. k - a \in 1 .. m
      BY <2>4
    <3> QED BY <3>1
  <2>7. (k - 1) - a = i - 1 /\ i - 1 \in 0 .. m /\ k - 1 \in 0 .. n
    BY <2>4, <2>6
  <2>8. PICK x \in Nat : x = f[i - 1]
    BY <1>0, <2>7
  <2>9. PICK y \in Nat : y = q[k - 1]
    BY <2>7
  <2>10. base * x <= base * y
    <3>1. x <= y
      BY <2>5, <2>7, <2>8, <2>9
    <3> QED BY <3>1, ProductGrows
  <2>11. PICK u \in Nat, v \in Nat : u = base * x /\ v = base * y
    BY <2>8, <2>9, Product
  <2>12. f[i] = u /\ q[k] >= v /\ u <= v
    BY <1>0, <2>4, <2>8, <2>9, <2>10, <2>11
  <2>13. q[k] \in Nat
    BY <2>4
  <2>14. PICK z \in Nat : z = q[k]
    BY <2>13
  <2>15. z >= u
    <3>1. z >= v /\ v >= u
      BY <2>12, <2>14
    <3> QED BY <3>1
  <2> QED BY <2>2, <2>6, <2>12, <2>14, <2>15
<1>2. n \in a .. n
  OBVIOUS
<1> QED BY <1>1, <1>2

-----------------------------------------------------------------------------

\* A digit behind the others
LEMMA MakesAppend ==
  ASSUME NEW base \in Nat, NEW start, NEW d \in Seq(Nat), NEW p, Makes(p, base, start, d),
         NEW x \in Nat
  PROVE  \E q : Makes(q, base, start, Append(d, x)) /\ q[Len(d)] = p[Len(d)]
<1>1. PICK n \in Nat : n = Len(d)
  OBVIOUS
<1>2. p \in [0 .. n -> Nat] /\ p[0] = start /\ \A i \in 1 .. n : p[i] = base * p[i - 1] + d[i]
  BY <1>1 DEF Makes
<1>3. PICK y \in Nat : y = base * p[n] + x
  <2>1. p[n] \in Nat
    BY <1>2
  <2>2. base * p[n] \in Nat
    BY <2>1, Product
  <2>3. base * p[n] + x \in Nat
    BY <2>2
  <2> QED BY <2>3
<1> DEFINE q == [i \in 0 .. n + 1 |-> IF i = n + 1 THEN y ELSE p[i]]
<1>4. q \in [0 .. n + 1 -> Nat] /\ q[0] = start /\ q[n] = p[n]
  <2>1. \A i \in 0 .. n + 1 : i # n + 1 => i \in 0 .. n
    OBVIOUS
  <2> QED BY <1>2, <1>3, <2>1
<1>5. Len(Append(d, x)) = n + 1 /\ Append(d, x)[n + 1] = x /\ \A i \in 1 .. n : Append(d, x)[i] = d[i]
  BY <1>1
<1>6. ASSUME NEW i \in 1 .. n + 1 PROVE q[i] = base * q[i - 1] + Append(d, x)[i]
  <2>1. CASE i = n + 1
    <3>1. q[i] = y /\ q[i - 1] = p[n]
      BY <2>1
    <3> QED BY <1>3, <1>5, <2>1, <3>1
  <2>2. CASE i # n + 1
    <3>1. i \in 1 .. n /\ q[i] = p[i] /\ q[i - 1] = p[i - 1]
      BY <2>2
    <3> QED BY <1>2, <1>5, <3>1
  <2> QED BY <2>1, <2>2
<1> HIDE DEF q
<1>7. Makes(q, base, start, Append(d, x))
  BY <1>4, <1>5, <1>6 DEF Makes
<1> QED BY <1>1, <1>4, <1>7

\* A digit behind what is there
Followed(base, n, x) == base * n + x

\* A digit in front of the others
LEMMA MakesPrepend ==
  ASSUME NEW base \in Nat, NEW start \in Nat, NEW d \in Seq(Nat), NEW p,
         NEW x \in Nat, NEW first, first = Followed(base, start, x), Makes(p, base, first, d)
  PROVE  \E q : Makes(q, base, start, <<x>> \o d) /\ q[Len(d) + 1] = p[Len(d)]
<1>1. PICK n \in Nat : n = Len(d)
  OBVIOUS
<1>2. /\ p \in [0 .. n -> Nat] /\ p[0] = base * start + x
      /\ \A i \in 1 .. n : p[i] = base * p[i - 1] + d[i]
  BY <1>1 DEF Makes, Followed
<1> DEFINE q == [i \in 0 .. n + 1 |-> IF i = 0 THEN start ELSE p[i - 1]]
           e == <<x>> \o d
<1>3. \A i \in 1 .. n + 1 : i - 1 \in 0 .. n
  OBVIOUS
<1>4. q \in [0 .. n + 1 -> Nat] /\ q[0] = start
  BY <1>2, <1>3
<1>5. Len(e) = n + 1 /\ e[1] = x /\ \A i \in 2 .. n + 1 : e[i] = d[i - 1]
  BY <1>1
<1>6. \A i \in 1 .. n + 1 : q[i] = p[i - 1]
  OBVIOUS
<1> HIDE DEF q, e
<1>7. ASSUME NEW i \in 1 .. n + 1 PROVE q[i] = base * q[i - 1] + e[i]
  <2>1. CASE i = 1
    <3>1. q[i] = p[0] /\ q[i - 1] = start
      BY <1>4, <1>6, <2>1
    <3> QED BY <1>2, <1>5, <2>1, <3>1
  <2>2. CASE i # 1
    <3>1. i \in 2 .. n + 1 /\ i - 1 \in 1 .. n + 1 /\ i - 1 \in 1 .. n
      BY <2>2
    <3>2. q[i] = p[i - 1] /\ q[i - 1] = p[(i - 1) - 1]
      BY <1>6, <3>1
    <3>3. p[i - 1] = base * p[(i - 1) - 1] + d[i - 1]
      BY <1>2, <3>1
    <3> QED BY <1>5, <3>1, <3>2, <3>3
  <2> QED BY <2>1, <2>2
<1>8. Makes(q, base, start, e)
  BY <1>4, <1>5, <1>7 DEF Makes
<1>9. q[n + 1] = p[n]
  BY <1>6
<1> QED BY <1>1, <1>8, <1>9 DEF e
==============================================================================

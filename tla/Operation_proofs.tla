--------------------------- MODULE Operation_proofs ---------------------------
(***************************************************************************)
(* What the decoders read, for every content of an operation: a decoder    *)
(* that succeeds leaves an offset within the operation, and what it hashes *)
(* are the bytes up to there, each once and in order.                      *)
(*                                                                         *)
(* And what they read of an operation that was serialised: wherever the    *)
(* bytes of a value lie, the decoder of its kind succeeds, ends where they *)
(* end, and shows the text of the value (DecodeTakes).  For a list the     *)
(* argument is that its items lie where the decoder comes to them, which   *)
(* is false of no item because it would be false of a least one.           *)
(***************************************************************************)
EXTENDS Serialiser, SequenceTheorems, Least, TLAPS

\* What a decoder that starts at offset o has done if it succeeds
Reads(r, o) ==
  r.ok => r.offset \in o .. Len(buf) /\ r.hashed = SubSeq(buf, o + 1, r.offset)

\* Two pieces that follow each other make one.
LEMMA Pieces ==
  ASSUME NEW S, NEW s \in Seq(S), NEW a \in Nat, NEW b \in a .. Len(s), NEW c \in b .. Len(s)
  PROVE  SubSeq(s, a + 1, b) \o SubSeq(s, b + 1, c) = SubSeq(s, a + 1, c)
OBVIOUS

\* A piece of the beginning is a piece of the whole.
LEMMA PieceOfPiece ==
  ASSUME NEW S, NEW s \in Seq(S), NEW a \in Nat, NEW c \in 0 .. Len(s), NEW b \in a .. c
  PROVE  SubSeq(SubSeq(s, 1, c), a + 1, b) = SubSeq(s, a + 1, b)
OBVIOUS

\* Bytes that are there are copied.
LEMMA BytesRead ==
  ASSUME buf \in Seq(0 .. 255), NEW o \in Nat, NEW n \in Nat, o + n <= Len(buf)
  PROVE  Bytes(o, n) = SubSeq(buf, o + 1, o + n)
BY DEF Bytes

\* A byte is one.
LEMMA ByteType ==
  ASSUME buf \in Seq(0 .. 255), NEW o \in Nat
  PROVE  ByteAt(o) \in 0 .. 255
<1>1. CASE o < Len(buf)
  BY <1>1, ElementOfSeq DEF ByteAt, CanRead
<1>2. CASE ~(o < Len(buf))
  BY <1>2 DEF ByteAt, CanRead
<1> QED BY <1>1, <1>2

\* A byte that is there is what a piece of one byte holds.
LEMMA ByteRead ==
  ASSUME buf \in Seq(0 .. 255), NEW o \in Nat, CanRead(o, 1)
  PROVE  <<ByteAt(o)>> = SubSeq(buf, o + 1, o + 1)
BY DEF ByteAt, CanRead

\* A field of fixed width
LEMMA FixedReads ==
  ASSUME buf \in Seq(0 .. 255), NEW o \in Nat, NEW n \in Nat, NEW text
  PROVE  Reads(Fixed(o, n, text), o)
<1> SUFFICES ASSUME Fixed(o, n, text).ok PROVE Reads(Fixed(o, n, text), o)
  BY DEF Reads
<1>1. CanRead(o, n)
  BY DEF Fixed
<1>2. o + n <= Len(buf) /\ Len(buf) \in Nat
  BY <1>1 DEF CanRead
<1>3. Bytes(o, n) = SubSeq(buf, o + 1, o + n)
  BY <1>2, BytesRead
<1>4. Fixed(o, n, text).offset = o + n /\ Fixed(o, n, text).hashed = Bytes(o, n)
  BY DEF Fixed
<1> QED BY <1>2, <1>3, <1>4 DEF Reads

\* Two fields, one behind the other
LEMMA BothRead ==
  ASSUME buf \in Seq(0 .. 255), NEW o \in Nat, NEW a, NEW b,
         Reads(a, o), a.ok, Reads(b, a.offset), b.ok
  PROVE  b.offset \in o .. Len(buf) /\ a.hashed \o b.hashed = SubSeq(buf, o + 1, b.offset)
<1>1. a.offset \in o .. Len(buf) /\ b.offset \in a.offset .. Len(buf)
  BY DEF Reads
<1>0. a.hashed = SubSeq(buf, o + 1, a.offset) /\ b.hashed = SubSeq(buf, a.offset + 1, b.offset)
  BY DEF Reads
<1>2. SubSeq(buf, o + 1, a.offset) \o SubSeq(buf, a.offset + 1, b.offset)
        = SubSeq(buf, o + 1, b.offset)
  BY <1>1, Pieces
<1>3. a.hashed \o b.hashed = SubSeq(buf, o + 1, b.offset)
  BY <1>0, <1>2
<1>4. b.offset \in o .. Len(buf)
  BY <1>1
<1> QED BY <1>3, <1>4

\* A string with its length in front
LEMMA StringReads ==
  ASSUME buf \in Seq(0 .. 255), NEW o \in Nat
  PROVE  Reads(String(o), o)
<1> SUFFICES ASSUME String(o).ok PROVE Reads(String(o), o)
  BY DEF Reads
<1>1. PICK n \in Nat : n = ByteAt(o)
  BY ByteType
<1>2. PICK p \in Nat : p = o + 1
  OBVIOUS
<1>3. CanRead(o, 1) /\ CanRead(p, n)
  BY <1>1, <1>2 DEF String
<1>4. p + n <= Len(buf) /\ Len(buf) \in Nat
  BY <1>3 DEF CanRead
<1>5. Bytes(p, n) = SubSeq(buf, p + 1, p + n)
  BY <1>4, BytesRead
<1>6. SubSeq(buf, o + 1, p) \o SubSeq(buf, p + 1, p + n) = SubSeq(buf, o + 1, p + n)
  <2>1. p \in o .. Len(buf) /\ p + n \in p .. Len(buf)
    BY <1>2, <1>4
  <2> QED BY <2>1, Pieces
<1>7. String(o).offset = p + n /\ String(o).hashed = <<n>> \o Bytes(p, n)
  BY <1>1, <1>2 DEF String
<1>8. <<n>> = SubSeq(buf, o + 1, p)
  BY <1>1, <1>2, <1>3, ByteRead
<1>9. p + n \in o .. Len(buf)
  BY <1>2, <1>4
<1> QED BY <1>5, <1>6, <1>7, <1>8, <1>9 DEF Reads

-----------------------------------------------------------------------------
(* Lists                                                                   *)

\* The recursive definition in Items
IsRun(run, n, start, item) ==
  run = [i \in 0 .. n |-> IF i = 0 THEN start ELSE Following(run[i - 1], item)]

\* A recursive definition of this form has a value: were there a length for
\* which it has none, the value for the length before would go on.
LEMMA RunExists ==
  ASSUME NEW n \in Nat, NEW start, NEW item
  PROVE  \E run : IsRun(run, n, start, item)
<1> DEFINE Is(f, k) == IsRun(f, k, start, item)
           Bad == {k \in Nat : ~\E f : Is(f, k)}
<1> SUFFICES ASSUME Bad # {} PROVE FALSE
  OBVIOUS
<1>1. PICK k \in Bad : \A m \in Bad : k <= m
  <2>1. Bad \subseteq Nat
    OBVIOUS
  <2> HIDE DEF Bad
  <2> QED BY <2>1, LeastNumber
<1>2. CASE k = 0
  <2> DEFINE f == [i \in 0 .. 0 |-> start]
  <2>1. Is(f, 0)
    BY DEF IsRun
  <2> QED BY <1>1, <1>2, <2>1
<1>3. CASE k # 0
  <2>1. k - 1 \in Nat /\ k \in Nat
    BY <1>1, <1>3
  <2>2. PICK f : Is(f, k - 1)
    <3>1. k - 1 \notin Bad
      <4> HIDE DEF Bad
      <4> QED BY <1>1, <2>1
    <3> QED BY <2>1, <3>1
  <2>5. f = [i \in 0 .. k - 1 |-> IF i = 0 THEN start ELSE Following(f[i - 1], item)]
    BY <2>2 DEF IsRun
  <2> DEFINE g == [i \in 0 .. k |-> IF i < k THEN f[i] ELSE Following(f[k - 1], item)]
  <2>3. ASSUME NEW i \in 0 .. k
        PROVE  g[i] = IF i = 0 THEN start ELSE Following(g[i - 1], item)
    <3>1. CASE i = 0
      BY <2>1, <2>5, <3>1, <1>3
    <3>2. CASE i # 0 /\ i < k
      <4>1. g[i] = f[i] /\ g[i - 1] = f[i - 1] /\ i \in 0 .. k - 1
        BY <2>1, <3>2
      <4>2. f[i] = Following(f[i - 1], item)
        BY <2>5, <3>2, <4>1
      <4> QED BY <3>2, <4>1, <4>2
    <3>3. CASE i = k
      <4>1. g[k] = Following(f[k - 1], item) /\ g[k - 1] = f[k - 1]
        BY <2>1
      <4> QED BY <3>3, <4>1, <1>3
    <3> QED BY <2>1, <3>1, <3>2, <3>3
  <2>4. Is(g, k)
    <3> DEFINE h == [i \in 0 .. k |-> IF i = 0 THEN start ELSE Following(g[i - 1], item)]
    <3>1. \A i \in 0 .. k : g[i] = h[i]
      BY <2>3
    <3>2. g = h
      BY <3>1
    <3> QED BY <3>2 DEF IsRun
  <2> QED BY <1>1, <2>4
<1> QED BY <1>2, <1>3

\* An item behind others is read if they are.
LEMMA BehindReads ==
  ASSUME buf \in Seq(0 .. 255), NEW o \in Nat, NEW a, NEW b,
         Reads(a, o), a.offset \in Nat => Reads(b, a.offset)
  PROVE  Reads(Behind(a, b), o)
<1> SUFFICES ASSUME Behind(a, b).ok PROVE Reads(Behind(a, b), o)
  BY DEF Reads
<1>1. a.ok /\ b.ok
  BY DEF Behind
<1>2. Behind(a, b).offset = b.offset /\ Behind(a, b).hashed = a.hashed \o b.hashed
  BY DEF Behind
<1>3. Len(buf) \in Nat
  OBVIOUS
<1>4. a.offset \in Nat
  BY <1>1, <1>3 DEF Reads
<1>5. b.offset \in o .. Len(buf) /\ a.hashed \o b.hashed = SubSeq(buf, o + 1, b.offset)
  BY <1>1, <1>4, BothRead
<1> QED BY <1>2, <1>5 DEF Reads

\* What Items goes through reads on from where it began.
LEMMA RunReads ==
  ASSUME buf \in Seq(0 .. 255), NEW o \in 0 .. Len(buf), NEW n \in Nat, NEW item, NEW run,
         \A x \in Nat : Reads(item[x], x),
         IsRun(run, n, [ok |-> TRUE, offset |-> o, hashed |-> <<>>, shown |-> <<>>], item)
  PROVE  Reads(run[n], o)
<1> DEFINE Bad == {k \in 0 .. n : ~Reads(run[k], o)}
<1> SUFFICES ASSUME Bad # {} PROVE FALSE
  <2>1. n \in 0 .. n
    OBVIOUS
  <2> QED BY <2>1, Zenon
<1>1. PICK k \in Bad : \A m \in Bad : k <= m
  <2>1. Bad \subseteq Nat
    OBVIOUS
  <2> HIDE DEF Bad
  <2> QED BY <2>1, LeastNumber
<1>2. Len(buf) \in Nat /\ k \in 0 .. n
  BY <1>1
<1>3. CASE k = 0
  <2>1. run[0] = [ok |-> TRUE, offset |-> o, hashed |-> <<>>, shown |-> <<>>]
    BY <1>2 DEF IsRun
  <2>2. SubSeq(buf, o + 1, o) = <<>>
    BY <1>2
  <2>3. run[0].offset = o /\ run[0].hashed = <<>>
    BY <2>1
  <2>4. Reads(run[0], o)
    <3>1. run[0].offset \in o .. Len(buf)
      BY <1>2, <2>3
    <3>2. run[0].hashed = SubSeq(buf, o + 1, run[0].offset)
      BY <2>2, <2>3
    <3> QED BY <3>1, <3>2 DEF Reads
  <2> QED BY <1>1, <1>3, <2>4
<1>4. CASE k # 0
  <2>1. k - 1 \in 0 .. n /\ ~(k <= k - 1)
    BY <1>2, <1>4
  <2>2. Reads(run[k - 1], o)
    BY <1>1, <2>1
  <2>3. run[k] = Behind(run[k - 1], item[run[k - 1].offset])
    BY <1>2, <1>4 DEF IsRun, Following
  <2>4. o \in Nat
    BY <1>2
  <2>5. Reads(Behind(run[k - 1], item[run[k - 1].offset]), o)
    BY <2>2, <2>4, BehindReads
  <2> QED BY <1>1, <2>3, <2>5
<1> QED BY <1>3, <1>4

\* Items of a kind that reads as it should
LEMMA ItemsRead ==
  ASSUME buf \in Seq(0 .. 255), NEW o \in 0 .. Len(buf), NEW n \in Nat, NEW item,
         \A x \in Nat : Reads(item[x], x)
  PROVE  Reads(Items(o, n, item), o)
<1> DEFINE start == [ok |-> TRUE, offset |-> o, hashed |-> <<>>, shown |-> <<>>]
           run == CHOOSE f : IsRun(f, n, start, item)
<1>1. \E f : IsRun(f, n, start, item)
  BY RunExists
<1>2. IsRun(run, n, start, item)
  BY <1>1
<1>3. Items(o, n, item) = run[n]
  BY DEF Items, IsRun
<1>4. Reads(run[n], o)
  <2> HIDE DEF run
  <2> QED BY <1>2, RunReads
<1> QED BY <1>3, <1>4

\* A byte with their number, and the items
LEMMA ArrayReads ==
  ASSUME buf \in Seq(0 .. 255), NEW o \in Nat, NEW item, \A x \in Nat : Reads(item[x], x)
  PROVE  Reads(Array(o, item), o)
<1> SUFFICES ASSUME Array(o, item).ok PROVE Reads(Array(o, item), o)
  BY DEF Reads
<1>1. PICK n \in Nat : n = ByteAt(o)
  BY ByteType
<1>2. PICK p \in Nat : p = o + 1
  OBVIOUS
<1>3. PICK items : items = Items(p, n, item)
  OBVIOUS
<1>4. CanRead(o, 1) /\ items.ok
  BY <1>1, <1>2, <1>3 DEF Array
<1>5. p \in 0 .. Len(buf) /\ Len(buf) \in Nat
  BY <1>2, <1>4 DEF CanRead
<1>6. Reads(items, p)
  BY <1>3, <1>5, ItemsRead
<1>7. /\ Array(o, item).offset = items.offset
      /\ Array(o, item).hashed = <<n>> \o items.hashed
  BY <1>1, <1>2, <1>3 DEF Array
<1>8. <<n>> = SubSeq(buf, o + 1, p)
  BY <1>1, <1>2, <1>4, ByteRead
<1>9. items.offset \in p .. Len(buf) /\ items.hashed = SubSeq(buf, p + 1, items.offset)
  BY <1>4, <1>6 DEF Reads
<1>10. SubSeq(buf, o + 1, p) \o SubSeq(buf, p + 1, items.offset)
         = SubSeq(buf, o + 1, items.offset)
  <2>1. p \in o .. Len(buf)
    BY <1>2, <1>5
  <2> QED BY <2>1, <1>9, Pieces
<1>11. items.offset \in o .. Len(buf)
  BY <1>2, <1>9
<1> QED BY <1>7, <1>8, <1>9, <1>10, <1>11 DEF Reads

-----------------------------------------------------------------------------
(* Decoders                                                                *)

\* A string that has to leave room for its NUL
LEMMA ShortStringReads ==
  ASSUME buf \in Seq(0 .. 255), NEW o \in Nat, NEW room
  PROVE  Reads(ShortString(o, room), o)
<1>1. /\ ShortString(o, room).ok => String(o).ok
      /\ ShortString(o, room).offset = String(o).offset
      /\ ShortString(o, room).hashed = String(o).hashed
  BY DEF ShortString, String
<1> QED BY <1>1, StringReads DEF Reads

\* Lists of strings, and of numbers
LEMMA ListsRead ==
  ASSUME buf \in Seq(0 .. 255), NEW o \in Nat
  PROVE  Reads(ArrayOfStrings(o), o) /\ Reads(ArrayOfUint64(o), o)
<1>1. \A x \in Nat : Reads(TmpString[x], x)
  BY ShortStringReads DEF TmpString
<1>2. \A x \in Nat : Reads(Uint64[x], x)
  BY FixedReads DEF Uint64
<1>3. Reads(Array(o, TmpString), o) /\ Reads(Array(o, Uint64), o)
  BY <1>1, <1>2, ArrayReads
<1>4. /\ ArrayOfStrings(o).ok = Array(o, TmpString).ok
      /\ ArrayOfStrings(o).offset = Array(o, TmpString).offset
      /\ ArrayOfStrings(o).hashed = Array(o, TmpString).hashed
  BY DEF ArrayOfStrings, Array
<1>5. /\ ArrayOfUint64(o).ok = Array(o, Uint64).ok
      /\ ArrayOfUint64(o).offset = Array(o, Uint64).offset
      /\ ArrayOfUint64(o).hashed = Array(o, Uint64).hashed
  BY DEF ArrayOfUint64, Array
<1> QED BY <1>3, <1>4, <1>5 DEF Reads

\* An account or a key, and its weight
LEMMA WeightedReads ==
  ASSUME buf \in Seq(0 .. 255), NEW o \in Nat, NEW who, Reads(who, o)
  PROVE  Reads(Weighted(who), o)
<1> SUFFICES ASSUME Weighted(who).ok PROVE Reads(Weighted(who), o)
  BY DEF Reads
<1>1. PICK weight : weight = Uint16(who.offset)
  OBVIOUS
<1>2. who.ok /\ weight.ok
  BY <1>1 DEF Weighted, Pair
<1>3. Len(buf) \in Nat
  OBVIOUS
<1>4. who.offset \in Nat
  BY <1>2, <1>3 DEF Reads
<1>5. Reads(weight, who.offset)
  BY <1>1, <1>4, FixedReads DEF Uint16
<1>6. weight.offset \in o .. Len(buf)
      /\ who.hashed \o weight.hashed = SubSeq(buf, o + 1, weight.offset)
  BY <1>2, <1>5, BothRead
<1>7. /\ Weighted(who).offset = weight.offset
      /\ Weighted(who).hashed = who.hashed \o weight.hashed
  BY <1>1 DEF Weighted, Pair
<1> QED BY <1>6, <1>7 DEF Reads

\* A field that is hashed as one piece
LEMMA PieceRead ==
  ASSUME buf \in Seq(0 .. 255), NEW o \in Nat, NEW end \in o .. Len(buf)
  PROVE  Bytes(o, end - o) = SubSeq(buf, o + 1, end)
<1>1. PICK n \in Nat : n = end - o /\ o + n = end
  OBVIOUS
<1> QED BY <1>1, BytesRead

\* An authority: a weight, a list of accounts and a list of keys
LEMMA AuthorityReads ==
  ASSUME buf \in Seq(0 .. 255), NEW o \in Nat
  PROVE  Reads(Authority(o), o)
<1> SUFFICES ASSUME Authority(o).ok PROVE Reads(Authority(o), o)
  BY DEF Reads
<1>1. PICK p \in Nat : p = o + 4
  OBVIOUS
<1>2. PICK accounts : accounts = Array(p, AccountAuth)
  OBVIOUS
<1>3. PICK keys : keys = Array(accounts.offset, KeyAuth)
  OBVIOUS
<1>4. accounts.ok /\ keys.ok
  BY <1>1, <1>2, <1>3 DEF Authority, AuthorityOf
<1>5. /\ Authority(o).offset = keys.offset
      /\ Authority(o).hashed = Bytes(o, keys.offset - o)
  BY <1>1, <1>2, <1>3 DEF Authority, AuthorityOf
<1>6. \A x \in Nat : Reads(AccountAuth[x], x)
  BY ShortStringReads, WeightedReads DEF AccountAuth
<1>7. \A x \in Nat : Reads(KeyAuth[x], x)
  BY FixedReads, WeightedReads DEF KeyAuth, PublicKey, PUBKEY_COMPRESSED_LEN
<1>8. Len(buf) \in Nat
  OBVIOUS
<1>9. accounts.offset \in p .. Len(buf)
  BY <1>2, <1>4, <1>6, ArrayReads DEF Reads
<1>10. accounts.offset \in Nat
  BY <1>8, <1>9
<1>11. keys.offset \in accounts.offset .. Len(buf)
  BY <1>3, <1>4, <1>7, <1>10, ArrayReads DEF Reads
<1>12. keys.offset \in o .. Len(buf)
  BY <1>1, <1>8, <1>9, <1>11
<1> QED BY <1>5, <1>12, PieceRead DEF Reads

-----------------------------------------------------------------------------
(* Beneficiaries                                                           *)

\* The recursive definition in Beneficiaries
IsList(run, n, start) ==
  run = [i \in 0 .. n |-> IF i = 0 THEN start ELSE NextBeneficiary(run[i - 1])]

\* It has a value, as the one in Items has.
LEMMA BeneficiariesExist ==
  ASSUME NEW n \in Nat, NEW start
  PROVE  \E run : IsList(run, n, start)
<1> DEFINE Is(f, k) == IsList(f, k, start)
           Bad == {k \in Nat : ~\E f : Is(f, k)}
<1> SUFFICES ASSUME Bad # {} PROVE FALSE
  OBVIOUS
<1>1. PICK k \in Bad : \A m \in Bad : k <= m
  <2>1. Bad \subseteq Nat
    OBVIOUS
  <2> HIDE DEF Bad
  <2> QED BY <2>1, LeastNumber
<1>2. CASE k = 0
  <2> DEFINE f == [i \in 0 .. 0 |-> start]
  <2>1. Is(f, 0)
    BY DEF IsList
  <2> QED BY <1>1, <1>2, <2>1
<1>3. CASE k # 0
  <2>1. k - 1 \in Nat /\ k \in Nat
    BY <1>1, <1>3
  <2>2. PICK f : Is(f, k - 1)
    <3>1. k - 1 \notin Bad
      <4> HIDE DEF Bad
      <4> QED BY <1>1, <2>1
    <3> QED BY <2>1, <3>1
  <2>5. f = [i \in 0 .. k - 1 |-> IF i = 0 THEN start ELSE NextBeneficiary(f[i - 1])]
    BY <2>2 DEF IsList
  <2> DEFINE g == [i \in 0 .. k |-> IF i < k THEN f[i] ELSE NextBeneficiary(f[k - 1])]
  <2>3. ASSUME NEW i \in 0 .. k
        PROVE  g[i] = IF i = 0 THEN start ELSE NextBeneficiary(g[i - 1])
    <3>1. CASE i = 0
      BY <2>1, <2>5, <3>1, <1>3
    <3>2. CASE i # 0 /\ i < k
      <4>1. g[i] = f[i] /\ g[i - 1] = f[i - 1] /\ i \in 0 .. k - 1
        BY <2>1, <3>2
      <4>2. f[i] = NextBeneficiary(f[i - 1])
        BY <2>5, <3>2, <4>1
      <4> QED BY <3>2, <4>1, <4>2
    <3>3. CASE i = k
      <4>1. g[k] = NextBeneficiary(f[k - 1]) /\ g[k - 1] = f[k - 1]
        BY <2>1
      <4> QED BY <3>3, <4>1, <1>3
    <3> QED BY <2>1, <3>1, <3>2, <3>3
  <2>4. Is(g, k)
    <3> DEFINE h == [i \in 0 .. k |-> IF i = 0 THEN start ELSE NextBeneficiary(g[i - 1])]
    <3>1. \A i \in 0 .. k : g[i] = h[i]
      BY <2>3
    <3>2. g = h
      BY <3>1
    <3> QED BY <3>2 DEF IsList
  <2> QED BY <1>1, <2>4
<1> QED BY <1>2, <1>3

\* One account is read behind those before it.
LEMMA NextBeneficiaryReads ==
  ASSUME buf \in Seq(0 .. 255), NEW o \in Nat, NEW before,
         before.ok => before.offset \in o .. Len(buf), NextBeneficiary(before).ok
  PROVE  NextBeneficiary(before).offset \in o .. Len(buf)
<1>2. before.ok
  BY DEF NextBeneficiary, Beneficiary
<1>3. Len(buf) \in Nat
  OBVIOUS
<1>4. before.offset \in Nat /\ before.offset >= o
  BY <1>2, <1>3
<1>1. ByteAt(before.offset) \in 0 .. 255
  BY <1>4, ByteType
<1>5. PICK len \in Nat : len = ByteAt(before.offset)
  BY <1>1
<1>6. PICK at \in Nat : at = before.offset + 1 + len
  BY <1>4, <1>5
<1>7. CanRead(at, 2)
  BY <1>5, <1>6 DEF NextBeneficiary, Beneficiary, Fixed
<1>8. NextBeneficiary(before).offset = at + 2
  BY <1>5, <1>6 DEF NextBeneficiary, Beneficiary, Fixed
<1> QED BY <1>3, <1>4, <1>5, <1>6, <1>7, <1>8 DEF CanRead

\* And so are all of them.
LEMMA BeneficiariesRead ==
  ASSUME buf \in Seq(0 .. 255), NEW o \in 0 .. Len(buf), NEW n \in Nat, Beneficiaries(o, n).ok
  PROVE  Beneficiaries(o, n).offset \in o .. Len(buf)
<1>1. PICK start : start = [ok |-> TRUE, offset |-> o, shown |-> <<>>,
                            room |-> [k \in 1 .. MAX_ACCOUNT_NAME_LEN |-> 0]]
  OBVIOUS
<1> DEFINE run == CHOOSE f : IsList(f, n, start)
<1>2. \E f : IsList(f, n, start)
  BY BeneficiariesExist
<1>3. IsList(run, n, start)
  BY <1>2
<1>4. Beneficiaries(o, n) = run[n]
  BY <1>1 DEF Beneficiaries, IsList
<1>5. o \in Nat /\ Len(buf) \in Nat
  OBVIOUS
<1> HIDE DEF run
<1> DEFINE Good(k) == run[k].ok => run[k].offset \in o .. Len(buf)
           Bad == {k \in 0 .. n : ~Good(k)}
<1>6. Bad = {}
  <2> SUFFICES ASSUME Bad # {} PROVE FALSE
    OBVIOUS
  <2>1. PICK k \in Bad : \A m \in Bad : k <= m
    <3>1. Bad \subseteq Nat
      OBVIOUS
    <3> HIDE DEF Bad
    <3> QED BY <3>1, LeastNumber
  <2>2. CASE k = 0
    <3>1. run[0] = start
      BY <1>3 DEF IsList
    <3>2. run[0].offset = o
      BY <1>1, <3>1
    <3> QED BY <1>5, <2>1, <2>2, <3>2
  <2>3. CASE k # 0
    <3>1. k - 1 \in 0 .. n /\ ~(k <= k - 1) /\ k \in 0 .. n
      BY <2>1, <2>3
    <3>2. Good(k - 1)
      BY <2>1, <3>1
    <3>3. run[k] = NextBeneficiary(run[k - 1])
      BY <1>3, <2>3, <3>1 DEF IsList
    <3>4. Good(k)
      BY <1>5, <3>2, <3>3, NextBeneficiaryReads
    <3> QED BY <2>1, <3>4
  <2> QED BY <2>2, <2>3
<1>7. Good(n)
  BY <1>6
<1> QED BY <1>4, <1>7


-----------------------------------------------------------------------------
(* Every decoder                                                           *)

\* A flag, and behind it what the flag announces
LEMMA OptionalReads ==
  ASSUME buf \in Seq(0 .. 255), NEW o \in Nat
  PROVE  Reads(OptionalAuthority(o), o)
<1> SUFFICES ASSUME OptionalAuthority(o).ok PROVE Reads(OptionalAuthority(o), o)
  BY DEF Reads
<1>1. PICK p \in Nat : p = o + 1
  OBVIOUS
<1>2. PICK end : end = IF ByteAt(o) = 0 THEN p ELSE Authority(p).offset
  OBVIOUS
<1>3. CanRead(o, 1) /\ (ByteAt(o) = 0 \/ Authority(p).ok)
  BY <1>1 DEF OptionalAuthority, OptionallyOf
<1>4. /\ OptionalAuthority(o).offset = end
      /\ OptionalAuthority(o).hashed = Bytes(o, end - o)
  BY <1>1, <1>2 DEF OptionalAuthority, OptionallyOf, HashedFromStart
<1>5. Len(buf) \in Nat /\ p <= Len(buf)
  BY <1>1, <1>3 DEF CanRead
<1>6. end \in p .. Len(buf)
  BY <1>2, <1>3, <1>5, AuthorityReads DEF Reads
<1>7. end \in o .. Len(buf)
  BY <1>1, <1>5, <1>6
<1> QED BY <1>4, <1>7, PieceRead DEF Reads

\* The list of extensions, with or without beneficiaries
LEMMA ExtensionsRead ==
  ASSUME buf \in Seq(0 .. 255), NEW o \in Nat
  PROVE  Reads(BeneficiariesExtensions(o), o)
<1> SUFFICES ASSUME BeneficiariesExtensions(o).ok PROVE Reads(BeneficiariesExtensions(o), o)
  BY DEF Reads
<1>1. PICK p \in Nat : p = o + 3
  OBVIOUS
<1>2. PICK n \in Nat : n = ByteAt(o + 2)
  <2>1. ByteAt(o + 2) \in 0 .. 255
    BY ByteType
  <2> QED BY <2>1
<1>3. PICK accounts : accounts = Beneficiaries(p, n)
  OBVIOUS
<1>4. PICK end : end = IF ByteAt(o) = 0 THEN o + 1 ELSE accounts.offset
  OBVIOUS
<1>5. /\ CanRead(o, 1)
      /\ \/ ByteAt(o) = 0
         \/ CanRead(o + 1, 2) /\ accounts.ok
  BY <1>1, <1>2, <1>3 DEF BeneficiariesExtensions, ExtensionsOf
<1>6. /\ BeneficiariesExtensions(o).offset = end
      /\ BeneficiariesExtensions(o).hashed = Bytes(o, end - o)
  BY <1>1, <1>2, <1>3, <1>4 DEF BeneficiariesExtensions, ExtensionsOf, HashedFromStart
<1>7. Len(buf) \in Nat
  OBVIOUS
<1>8. end \in o .. Len(buf)
  <2>1. CASE ByteAt(o) = 0
    BY <1>4, <1>5, <1>7, <2>1 DEF CanRead
  <2>2. CASE ByteAt(o) # 0
    <3>1. p \in 0 .. Len(buf)
      BY <1>1, <1>5, <1>7, <2>2 DEF CanRead
    <3>2. accounts.offset \in p .. Len(buf)
      BY <1>3, <1>5, <2>2, <3>1, BeneficiariesRead
    <3> QED BY <1>1, <1>4, <1>7, <2>2, <3>1, <3>2
  <2> QED BY <2>1, <2>2
<1> QED BY <1>6, <1>8, PieceRead DEF Reads

\* A list of extensions that has to be empty
LEMMA EmptyReads ==
  ASSUME buf \in Seq(0 .. 255), NEW o \in Nat
  PROVE  Reads(EmptyExtensions(o), o)
<1> SUFFICES ASSUME EmptyExtensions(o).ok PROVE Reads(EmptyExtensions(o), o)
  BY DEF Reads
<1>1. CanRead(o, 1)
  BY DEF EmptyExtensions
<1>2. EmptyExtensions(o).offset = o + 1 /\ EmptyExtensions(o).hashed = <<ByteAt(o)>>
  BY DEF EmptyExtensions
<1>3. o + 1 \in o .. Len(buf)
  BY <1>1 DEF CanRead
<1> QED BY <1>1, <1>2, <1>3, ByteRead DEF Reads

\* The decoders there are
Kinds ==
  {"operation_name", "string", "array_of_strings", "array_of_u64", "boolean", "date_time",
   "public_key", "asset", "weight", "uint32", "uint16", "authority", "optional_authority",
   "empty_extensions", "beneficiaries"}

\* Whatever decoder: what it hashes are the bytes it read.
LEMMA DecodeReads ==
  ASSUME buf \in Seq(0 .. 255), NEW o \in Nat, NEW kind \in Kinds
  PROVE  Reads(Decode(kind, o), o)
<1>1. CASE kind \in {"operation_name", "boolean", "date_time", "asset", "weight", "uint32",
                     "uint16", "public_key"}
  <2>1. \E n \in Nat : \E text : Decode(kind, o) = Fixed(o, n, text)
    <3>1. CASE kind = "operation_name"
      BY <3>1 DEF Decode, OperationName
    <3>2. CASE kind = "boolean"
      BY <3>2 DEF Decode
    <3>3. CASE kind = "date_time"
      BY <3>3 DEF Decode
    <3>4. CASE kind = "asset"
      BY <3>4 DEF Decode, AssetField, ASSET_LEN
    <3>5. CASE kind = "weight"
      BY <3>5 DEF Decode, Weight
    <3>6. CASE kind = "uint32"
      BY <3>6 DEF Decode, Uint32
    <3>7. CASE kind = "uint16"
      BY <3>7 DEF Decode, Uint16
    <3>8. CASE kind = "public_key"
      BY <3>8 DEF Decode, PublicKey, PUBKEY_COMPRESSED_LEN
    <3> QED BY <1>1, <3>1, <3>2, <3>3, <3>4, <3>5, <3>6, <3>7, <3>8
  <2> QED BY <2>1, FixedReads
<1>2. CASE kind = "string"
  BY <1>2, StringReads DEF Decode
<1>3. CASE kind \in {"array_of_strings", "array_of_u64"}
  BY <1>3, ListsRead DEF Decode
<1>4. CASE kind \in {"authority", "optional_authority"}
  BY <1>4, AuthorityReads, OptionalReads DEF Decode
<1>5. CASE kind \in {"empty_extensions", "beneficiaries"}
  BY <1>5, EmptyReads, ExtensionsRead DEF Decode
<1> QED BY <1>1, <1>2, <1>3, <1>4, <1>5 DEF Kinds

\* The parsers have no others.
LEMMA FieldsTo13Kinds ==
  ASSUME NEW n \in 0 .. 13
  PROVE  FieldsTo13(n) \in Seq(Kinds) /\ Len(FieldsTo13(n)) <= 8
<1>1. /\ FieldsTo13(0) \in Seq(Kinds) /\ Len(FieldsTo13(0)) <= 8
      /\ FieldsTo13(1) \in Seq(Kinds) /\ Len(FieldsTo13(1)) <= 8
  BY DEF FieldsTo13, Authorities, Kinds
<1>2. /\ FieldsTo13(2) \in Seq(Kinds) /\ Len(FieldsTo13(2)) <= 8
      /\ FieldsTo13(3) \in Seq(Kinds) /\ Len(FieldsTo13(3)) <= 8
  BY DEF FieldsTo13, Authorities, Kinds
<1>3. /\ FieldsTo13(4) \in Seq(Kinds) /\ Len(FieldsTo13(4)) <= 8
      /\ FieldsTo13(5) \in Seq(Kinds) /\ Len(FieldsTo13(5)) <= 8
  BY DEF FieldsTo13, Authorities, Kinds
<1>4. /\ FieldsTo13(6) \in Seq(Kinds) /\ Len(FieldsTo13(6)) <= 8
      /\ FieldsTo13(7) \in Seq(Kinds) /\ Len(FieldsTo13(7)) <= 8
  BY DEF FieldsTo13, Authorities, Kinds
<1>5. /\ FieldsTo13(8) \in Seq(Kinds) /\ Len(FieldsTo13(8)) <= 8
      /\ FieldsTo13(9) \in Seq(Kinds) /\ Len(FieldsTo13(9)) <= 8
  BY DEF FieldsTo13, Authorities, Kinds
<1>6. /\ FieldsTo13(10) \in Seq(Kinds) /\ Len(FieldsTo13(10)) <= 8
      /\ FieldsTo13(11) \in Seq(Kinds) /\ Len(FieldsTo13(11)) <= 8
  BY DEF FieldsTo13, Authorities, Kinds
<1>7. /\ FieldsTo13(12) \in Seq(Kinds) /\ Len(FieldsTo13(12)) <= 8
      /\ FieldsTo13(13) \in Seq(Kinds) /\ Len(FieldsTo13(13)) <= 8
  BY DEF FieldsTo13, Authorities, Kinds
<1>8. n \in {0, 1, 2, 3, 4, 5, 6, 7, 8, 9, 10, 11, 12, 13}
  OBVIOUS
<1> QED BY <1>8, <1>1, <1>2, <1>3, <1>4, <1>5, <1>6, <1>7

\* ...
LEMMA FieldsTo26Kinds ==
  ASSUME NEW n \in 17 .. 20 \cup 22 .. 26
  PROVE  FieldsTo26(n) \in Seq(Kinds) /\ Len(FieldsTo26(n)) <= 8
<1>1. /\ FieldsTo26(17) \in Seq(Kinds) /\ Len(FieldsTo26(17)) <= 8
      /\ FieldsTo26(18) \in Seq(Kinds) /\ Len(FieldsTo26(18)) <= 8
  BY DEF FieldsTo26, Authorities, Kinds
<1>2. /\ FieldsTo26(19) \in Seq(Kinds) /\ Len(FieldsTo26(19)) <= 8
      /\ FieldsTo26(20) \in Seq(Kinds) /\ Len(FieldsTo26(20)) <= 8
  BY DEF FieldsTo26, Authorities, Kinds
<1>3. /\ FieldsTo26(22) \in Seq(Kinds) /\ Len(FieldsTo26(22)) <= 8
      /\ FieldsTo26(23) \in Seq(Kinds) /\ Len(FieldsTo26(23)) <= 8
  BY DEF FieldsTo26, Authorities, Kinds
<1>4. /\ FieldsTo26(24) \in Seq(Kinds) /\ Len(FieldsTo26(24)) <= 8
      /\ FieldsTo26(25) \in Seq(Kinds) /\ Len(FieldsTo26(25)) <= 8
  BY DEF FieldsTo26, Authorities, Kinds
<1>5. FieldsTo26(26) \in Seq(Kinds) /\ Len(FieldsTo26(26)) <= 8
  BY DEF FieldsTo26, Authorities, Kinds
<1> QED BY <1>1, <1>2, <1>3, <1>4, <1>5, SMTT(60)

\* ...
LEMMA FieldsTo49Kinds ==
  ASSUME NEW n \in 32 .. 34 \cup 36 .. 40 \cup 44 .. 49
  PROVE  FieldsTo49(n) \in Seq(Kinds) /\ Len(FieldsTo49(n)) <= 8
<1>1. /\ FieldsTo49(32) \in Seq(Kinds) /\ Len(FieldsTo49(32)) <= 8
      /\ FieldsTo49(33) \in Seq(Kinds) /\ Len(FieldsTo49(33)) <= 8
  BY DEF FieldsTo49, FieldsTo13, Kinds
<1>2. /\ FieldsTo49(34) \in Seq(Kinds) /\ Len(FieldsTo49(34)) <= 8
      /\ FieldsTo49(36) \in Seq(Kinds) /\ Len(FieldsTo49(36)) <= 8
  BY DEF FieldsTo49, FieldsTo13, Kinds
<1>3. /\ FieldsTo49(37) \in Seq(Kinds) /\ Len(FieldsTo49(37)) <= 8
      /\ FieldsTo49(38) \in Seq(Kinds) /\ Len(FieldsTo49(38)) <= 8
  BY DEF FieldsTo49, FieldsTo13, Kinds
<1>4. /\ FieldsTo49(39) \in Seq(Kinds) /\ Len(FieldsTo49(39)) <= 8
      /\ FieldsTo49(40) \in Seq(Kinds) /\ Len(FieldsTo49(40)) <= 8
  BY DEF FieldsTo49, FieldsTo13, Kinds
<1>5. /\ FieldsTo49(44) \in Seq(Kinds) /\ Len(FieldsTo49(44)) <= 8
      /\ FieldsTo49(45) \in Seq(Kinds) /\ Len(FieldsTo49(45)) <= 8
  BY DEF FieldsTo49, FieldsTo13, Kinds
<1>6. /\ FieldsTo49(46) \in Seq(Kinds) /\ Len(FieldsTo49(46)) <= 8
      /\ FieldsTo49(47) \in Seq(Kinds) /\ Len(FieldsTo49(47)) <= 8
  BY DEF FieldsTo49, FieldsTo13, Kinds
<1>7. /\ FieldsTo49(48) \in Seq(Kinds) /\ Len(FieldsTo49(48)) <= 8
      /\ FieldsTo49(49) \in Seq(Kinds) /\ Len(FieldsTo49(49)) <= 8
  BY DEF FieldsTo49, FieldsTo13, Kinds
<1>8. n \in {32, 33, 34, 36, 37, 38, 39, 40, 44, 45, 46, 47, 48, 49}
  OBVIOUS
<1> QED BY <1>8, <1>1, <1>2, <1>3, <1>4, <1>5, <1>6, <1>7

\* A parser begins with the name of the operation.
LEMMA ParserKinds ==
  ASSUME NEW n \in Supported
  PROVE  /\ Parser(n) \in Seq(Kinds) /\ Len(Parser(n)) \in 1 .. 9
         /\ Parser(n)[1] = "operation_name"
<1>1. ASSUME n \in 0 .. 13
      PROVE  Fields(n) \in Seq(Kinds) /\ Len(Fields(n)) <= 8
  <2>1. Fields(n) = FieldsTo13(n)
    BY <1>1 DEF Fields
  <2> QED BY <1>1, <2>1, FieldsTo13Kinds
<1>2. ASSUME n \in 17 .. 20 \cup 22 .. 26
      PROVE  Fields(n) \in Seq(Kinds) /\ Len(Fields(n)) <= 8
  <2>1. Fields(n) = FieldsTo26(n)
    BY <1>2 DEF Fields
  <2> QED BY <1>2, <2>1, FieldsTo26Kinds
<1>3. ASSUME n \in 32 .. 34 \cup 36 .. 40 \cup 44 .. 49
      PROVE  Fields(n) \in Seq(Kinds) /\ Len(Fields(n)) <= 8
  <2>1. Fields(n) = FieldsTo49(n)
    BY <1>3 DEF Fields
  <2> QED BY <1>3, <2>1, FieldsTo49Kinds
<1>4. Fields(n) \in Seq(Kinds) /\ Len(Fields(n)) <= 8
  BY <1>1, <1>2, <1>3 DEF Supported
<1>5. <<"operation_name">> \in Seq(Kinds)
  BY DEF Kinds
<1>6. Parser(n) \in Seq(Kinds) /\ Len(Parser(n)) \in 1 .. 9
  BY <1>4, <1>5 DEF Parser
<1>7. Parser(n)[1] = "operation_name"
  <2>1. PICK fields \in Seq(Kinds) : fields = Fields(n)
    BY <1>4
  <2>2. (<<"operation_name">> \o fields)[1] = "operation_name"
    OBVIOUS
  <2> QED BY <2>1, <2>2 DEF Parser
<1> QED BY <1>6, <1>7

-----------------------------------------------------------------------------
(* The same bytes read again                                               *)

\* As long as the bytes are the same, so is what is read of them.
LEMMA BytesSame ==
  ASSUME buf' = buf, NEW o, NEW n
  PROVE  Bytes(o, n)' = Bytes(o, n) /\ CanRead(o, n)' = CanRead(o, n) /\ ByteAt(o)' = ByteAt(o)
BY DEF Bytes, CanRead, ByteAt

\* A field of fixed width
LEMMA FixedSame ==
  ASSUME buf' = buf, NEW o, NEW n, NEW text
  PROVE  Fixed(o, n, text)' = Fixed(o, n, text)
BY BytesSame DEF Fixed

\* A string
LEMMA StringSame ==
  ASSUME buf' = buf, NEW o
  PROVE  String(o)' = String(o)
<1>1. PICK n : n = ByteAt(o)
  OBVIOUS
<1>2. PICK characters : characters = Bytes(o + 1, n)
  OBVIOUS
<1>3. /\ ByteAt(o)' = n /\ Bytes(o + 1, n)' = characters
      /\ CanRead(o, 1)' = CanRead(o, 1) /\ CanRead(o + 1, n)' = CanRead(o + 1, n)
  BY <1>1, <1>2, BytesSame
<1> QED BY <1>1, <1>2, <1>3 DEF String

\* Items are read of what is given.
LEMMA ItemsSame ==
  ASSUME NEW o, NEW n, NEW item
  PROVE  Items(o, n, item)' = Items(o, n, item)
BY DEF Items

\* A list
LEMMA ArraySame ==
  ASSUME buf' = buf, NEW o, NEW item
  PROVE  Array(o, item)' = Array(o, item)
<1>1. PICK n : n = ByteAt(o)
  OBVIOUS
<1>2. ByteAt(o)' = n /\ CanRead(o, 1)' = CanRead(o, 1)
  BY <1>1, BytesSame
<1>3. Items(o + 1, n, item)' = Items(o + 1, n, item)
  BY ItemsSame
<1> QED BY <1>1, <1>2, <1>3 DEF Array

\* A string for a buffer
LEMMA ShortSame ==
  ASSUME buf' = buf, NEW o, NEW room
  PROVE  ShortString(o, room)' = ShortString(o, room)
BY BytesSame, StringSame DEF ShortString

\* The lists that are fields
LEMMA ListsSame ==
  ASSUME buf' = buf, NEW o
  PROVE  ArrayOfStrings(o)' = ArrayOfStrings(o) /\ ArrayOfUint64(o)' = ArrayOfUint64(o)
<1>1. TmpString' = TmpString
  BY ShortSame DEF TmpString
<1>2. Uint64' = Uint64
  BY FixedSame, BytesSame DEF Uint64
<1> QED BY <1>1, <1>2, ArraySame DEF ArrayOfStrings, ArrayOfUint64

\* A key
LEMMA PublicKeySame ==
  ASSUME buf' = buf, NEW o
  PROVE  PublicKey(o)' = PublicKey(o)
BY FixedSame, BytesSame DEF PublicKey

\* A number
LEMMA NumbersSame ==
  ASSUME buf' = buf, NEW o
  PROVE  Uint16(o)' = Uint16(o) /\ Uint32(o)' = Uint32(o)
BY FixedSame, BytesSame DEF Uint16, Uint32

\* What an authority lists
LEMMA AuthsSame ==
  ASSUME buf' = buf
  PROVE  AccountAuth' = AccountAuth /\ KeyAuth' = KeyAuth
BY ShortSame, PublicKeySame, NumbersSame DEF AccountAuth, KeyAuth, Weighted

\* An authority
LEMMA AuthoritySame ==
  ASSUME buf' = buf, NEW o
  PROVE  Authority(o)' = Authority(o)
<1>1. PICK accounts : accounts = Array(o + 4, AccountAuth)
  OBVIOUS
<1>2. PICK keys : keys = Array(accounts.offset, KeyAuth)
  OBVIOUS
<1>3. PICK weight : weight = Uint32(o)
  OBVIOUS
<1>4. Array(o + 4, AccountAuth)' = accounts
  BY <1>1, ArraySame, AuthsSame
<1>5. Array(accounts.offset, KeyAuth)' = keys
  BY <1>2, ArraySame, AuthsSame
<1>6. Uint32(o)' = weight
  BY <1>3, NumbersSame
<1>7. AuthorityOf(o, weight, accounts, keys)' = AuthorityOf(o, weight, accounts, keys)
  BY BytesSame DEF AuthorityOf
<1>8. Authority(o) = AuthorityOf(o, weight, accounts, keys)
  BY <1>1, <1>2, <1>3 DEF Authority
<1>9. Authority(o)' = AuthorityOf(o, weight, accounts, keys)'
  BY <1>4, <1>5, <1>6 DEF Authority
<1> QED BY <1>7, <1>8, <1>9

\* The bytes of a field that is hashed as one piece
LEMMA PieceSame ==
  ASSUME buf' = buf, NEW o, NEW end
  PROVE  HashedFromStart(o, end)' = HashedFromStart(o, end)
BY BytesSame DEF HashedFromStart

\* An authority that may be missing
LEMMA OptionalSame ==
  ASSUME buf' = buf, NEW o
  PROVE  OptionalAuthority(o)' = OptionalAuthority(o)
<1>1. PICK authority : authority = Authority(o + 1)
  OBVIOUS
<1>2. Authority(o + 1)' = authority
  BY <1>1, AuthoritySame
<1>3. OptionallyOf(o, authority)' = OptionallyOf(o, authority)
  BY BytesSame, PieceSame DEF OptionallyOf
<1> QED BY <1>1, <1>2, <1>3 DEF OptionalAuthority

\* Extensions that have to be empty
LEMMA EmptySame ==
  ASSUME buf' = buf, NEW o
  PROVE  EmptyExtensions(o)' = EmptyExtensions(o)
BY BytesSame DEF EmptyExtensions

\* One more beneficiary
LEMMA NextSame ==
  ASSUME buf' = buf, NEW before
  PROVE  NextBeneficiary(before)' = NextBeneficiary(before)
<1>1. PICK len : len = ByteAt(before.offset)
  OBVIOUS
<1>2. ByteAt(before.offset)' = len
  BY <1>1, BytesSame
<1>3. Beneficiary(before, len)' = Beneficiary(before, len)
  <2>1. PICK at : at = before.offset + 1 + len
    OBVIOUS
  <2>2. PICK name : name = Bytes(before.offset + 1, len)
    OBVIOUS
  <2>3. PICK text : text = Percent(Natural(Bytes(at, 2)))
    OBVIOUS
  <2>4. PICK weight : weight = Fixed(at, 2, text)
    OBVIOUS
  <2>5. /\ Bytes(before.offset + 1, len)' = name /\ Percent(Natural(Bytes(at, 2)))' = text
        /\ Fixed(at, 2, text)' = weight
        /\ CanRead(before.offset, 1)' = CanRead(before.offset, 1)
        /\ CanRead(before.offset + 1, len)' = CanRead(before.offset + 1, len)
    BY <2>2, <2>3, <2>4, BytesSame, FixedSame
  <2> QED BY <2>1, <2>2, <2>3, <2>4, <2>5 DEF Beneficiary
<1> QED BY <1>1, <1>2, <1>3 DEF NextBeneficiary

\* Beneficiaries
LEMMA BeneficiariesSame ==
  ASSUME buf' = buf, NEW o, NEW n
  PROVE  Beneficiaries(o, n)' = Beneficiaries(o, n)
BY NextSame DEF Beneficiaries

\* The extensions that hold them
LEMMA ExtensionsSame ==
  ASSUME buf' = buf, NEW o
  PROVE  BeneficiariesExtensions(o)' = BeneficiariesExtensions(o)
<1>1. PICK n : n = ByteAt(o + 2)
  OBVIOUS
<1>2. PICK accounts : accounts = Beneficiaries(o + 3, n)
  OBVIOUS
<1>3. ByteAt(o + 2)' = n
  BY <1>1, BytesSame
<1>4. Beneficiaries(o + 3, n)' = accounts
  BY <1>2, BeneficiariesSame
<1>5. ExtensionsOf(o, accounts)' = ExtensionsOf(o, accounts)
  <2>1. PICK flag : flag = ByteAt(o)
    OBVIOUS
  <2>2. PICK tag : tag = ByteAt(o + 1)
    OBVIOUS
  <2>3. PICK end : end = IF flag = 0 THEN o + 1 ELSE accounts.offset
    OBVIOUS
  <2>4. PICK piece : piece = HashedFromStart(o, end)
    OBVIOUS
  <2>5. /\ ByteAt(o)' = flag /\ ByteAt(o + 1)' = tag /\ HashedFromStart(o, end)' = piece
        /\ CanRead(o, 1)' = CanRead(o, 1) /\ CanRead(o + 1, 2)' = CanRead(o + 1, 2)
    BY <2>1, <2>2, <2>4, BytesSame, PieceSame
  <2> QED BY <2>1, <2>2, <2>3, <2>4, <2>5 DEF ExtensionsOf
<1> QED BY <1>1, <1>2, <1>3, <1>4, <1>5 DEF BeneficiariesExtensions

\* A name, an asset and a weight
LEMMA PlainSame ==
  ASSUME buf' = buf, NEW o
  PROVE  /\ OperationName(o)' = OperationName(o) /\ AssetField(o)' = AssetField(o)
         /\ Weight(o)' = Weight(o)
BY BytesSame, FixedSame DEF OperationName, AssetField, Weight

\* Whatever decoder
LEMMA DecodeSame ==
  ASSUME buf' = buf, NEW o, NEW kind \in Kinds
  PROVE  Decode(kind, o)' = Decode(kind, o)
<1>1. CASE kind = "operation_name"
  BY <1>1, PlainSame DEF Decode
<1>2. CASE kind = "string"
  BY <1>2, StringSame DEF Decode
<1>3. CASE kind = "array_of_strings"
  BY <1>3, ListsSame DEF Decode
<1>4. CASE kind = "array_of_u64"
  BY <1>4, ListsSame DEF Decode
<1>5. CASE kind = "boolean"
  BY <1>5, BytesSame, FixedSame DEF Decode
<1>6. CASE kind = "date_time"
  BY <1>6, BytesSame, FixedSame DEF Decode
<1>7. CASE kind = "public_key"
  BY <1>7, PublicKeySame DEF Decode
<1>8. CASE kind = "asset"
  BY <1>8, PlainSame DEF Decode
<1>9. CASE kind = "weight"
  BY <1>9, PlainSame DEF Decode
<1>10. CASE kind = "uint32"
  BY <1>10, NumbersSame DEF Decode
<1>11. CASE kind = "uint16"
  BY <1>11, NumbersSame DEF Decode
<1>12. CASE kind = "authority"
  BY <1>12, AuthoritySame DEF Decode
<1>13. CASE kind = "optional_authority"
  BY <1>13, OptionalSame DEF Decode
<1>14. CASE kind = "empty_extensions"
  BY <1>14, EmptySame DEF Decode
<1>15. CASE kind = "beneficiaries"
  BY <1>15, ExtensionsSame DEF Decode
<1> QED BY <1>1, <1>2, <1>3, <1>4, <1>5, <1>6, <1>7, <1>8, <1>9, <1>10, <1>11, <1>12, <1>13,
           <1>14, <1>15 DEF Kinds

-----------------------------------------------------------------------------
(* What was serialised is read                                             *)

\* Sequences of bytes
ByteStrings == Seq(0 .. 255)

\* A byte in front of others
Led(n, b) == <<n>> \o b

\* These bytes lie in the operation, from offset o on.
Lies(o, w) == o + Len(w) <= Len(buf) /\ \A i \in 1 .. Len(w) : buf[o + i] = w[i]

\* A decoder succeeds with them and nothing behind them, and shows this text.
Takes(r, o, w, text) == r.ok /\ r.offset = o + Len(w) /\ r.shown = text

\* A decoder takes each of these pieces, wherever it lies.
TakesEach(item, n, pieces, texts) ==
  \A i \in 1 .. n : \A x \in Nat : Lies(x, pieces[i]) => Takes(item[x], x, pieces[i], texts[i])

\* f has n items.
Sized(n, f) == f = [i \in 1 .. n |-> f[i]]

\* Of two that follow each other, each lies in its place.
LEMMA LiesParts ==
  ASSUME buf \in ByteStrings, NEW o \in Nat, NEW a \in ByteStrings, NEW b \in ByteStrings,
         Lies(o, a \o b)
  PROVE  /\ Lies(o, a) /\ Lies(o + Len(a), b)
         /\ a \o b \in ByteStrings /\ Len(a \o b) = Len(a) + Len(b)
<1> DEFINE S == 0 .. 255
<1>0. a \in Seq(S) /\ b \in Seq(S) /\ buf \in Seq(S)
  BY DEF ByteStrings
<1> HIDE DEF S
<1>1. PICK la \in Nat, lb \in Nat, size \in Nat : la = Len(a) /\ lb = Len(b) /\ size = Len(buf)
  BY <1>0, LenProperties
<1>2. /\ a \o b \in Seq(S) /\ Len(a \o b) = la + lb
      /\ \A i \in 1 .. la + lb : (a \o b)[i] = IF i <= la THEN a[i] ELSE b[i - la]
  BY <1>0, <1>1, ConcatProperties
<1>3. o + (la + lb) <= size /\ \A i \in 1 .. la + lb : buf[o + i] = (a \o b)[i]
  BY <1>1, <1>2 DEF Lies
<1>4. o + la <= size /\ (o + la) + lb <= size
  BY <1>3
<1>5. ASSUME NEW i \in 1 .. la PROVE buf[o + i] = a[i]
  <2>1. i \in 1 .. la + lb /\ i <= la
    OBVIOUS
  <2> QED BY <1>2, <1>3, <2>1
<1>6. ASSUME NEW i \in 1 .. lb PROVE buf[(o + la) + i] = b[i]
  <2>1. la + i \in 1 .. la + lb /\ ~(la + i <= la) /\ (la + i) - la = i /\ o + (la + i) = (o + la) + i
    OBVIOUS
  <2>2. buf[o + (la + i)] = b[i]
    BY <1>2, <1>3, <2>1
  <2> QED BY <2>1, <2>2
<1>7. Lies(o, a) /\ Lies(o + Len(a), b)
  BY <1>1, <1>4, <1>5, <1>6 DEF Lies
<1> QED BY <1>1, <1>2, <1>7 DEF S, ByteStrings

\* A byte in front
LEMMA LiesByte ==
  ASSUME buf \in ByteStrings, NEW o \in Nat, NEW n \in 0 .. 255, NEW b \in ByteStrings,
         Lies(o, Led(n, b))
  PROVE  /\ CanRead(o, 1) /\ ByteAt(o) = n /\ Lies(o + 1, b)
         /\ Led(n, b) \in ByteStrings /\ Len(Led(n, b)) = 1 + Len(b)
<1>1. PICK a \in ByteStrings : a = <<n>> /\ Len(a) = 1 /\ a[1] = n
  <2>1. <<n>> \in ByteStrings
    BY DEF ByteStrings
  <2>2. Len(<<n>>) = 1 /\ <<n>>[1] = n
    OBVIOUS
  <2> QED BY <2>1, <2>2, Zenon
<1>2. /\ Lies(o, a) /\ Lies(o + Len(a), b)
      /\ a \o b \in ByteStrings /\ Len(a \o b) = Len(a) + Len(b)
  <2>1. Lies(o, a \o b)
    BY <1>1, Zenon DEF Led
  <2> QED BY <2>1, LiesParts
<1>3. o + 1 <= Len(buf) /\ buf[o + 1] = n /\ Len(buf) \in Nat
  <2>1. 1 \in 1 .. Len(a)
    BY <1>1
  <2> QED BY <1>1, <1>2, <2>1 DEF Lies
<1>4. CanRead(o, 1) /\ ByteAt(o) = n
  BY <1>3 DEF CanRead, ByteAt
<1> QED BY <1>1, <1>2, <1>4 DEF Led

\* The bytes that are copied are those that lie there.
LEMMA LiesBytes ==
  ASSUME buf \in ByteStrings, NEW o \in Nat, NEW w \in ByteStrings, NEW n \in Nat, n = Len(w),
         Lies(o, w)
  PROVE  CanRead(o, n) /\ Bytes(o, n) = w
<1>1. PICK size \in Nat : size = Len(buf)
  BY LenProperties DEF ByteStrings
<1>2. o + n <= size /\ \A i \in 1 .. n : buf[o + i] = w[i]
  BY <1>1 DEF Lies
<1>3. CanRead(o, n)
  BY <1>1, <1>2 DEF CanRead
<1>4. Bytes(o, n) = SubSeq(buf, o + 1, o + n)
  BY <1>1, <1>2, BytesRead DEF ByteStrings
<1>5. PICK piece : piece = SubSeq(buf, o + 1, o + n)
  OBVIOUS
<1>6. piece \in ByteStrings /\ Len(piece) = n /\ \A i \in 1 .. n : piece[i] = buf[o + i]
  <2> DEFINE S == 0 .. 255
  <2>1. buf \in Seq(S)
    BY DEF ByteStrings
  <2> HIDE DEF S
  <2>2. \A i \in o + 1 .. o + n : buf[i] \in S
    <3>1. \A i \in o + 1 .. o + n : i \in 1 .. size
      BY <1>2
    <3> QED BY <1>1, <2>1, <3>1, ElementOfSeq
  <2>3. /\ piece \in Seq(S)
        /\ Len(piece) = IF o + 1 <= o + n THEN (o + n) - (o + 1) + 1 ELSE 0
        /\ \A i \in 1 .. (o + n) - (o + 1) + 1 : piece[i] = buf[o + 1 + i - 1]
    BY <1>5, <2>2, SubSeqProperties
  <2>4. (o + n) - (o + 1) + 1 = n /\ \A i \in 1 .. n : o + 1 + i - 1 = o + i
    OBVIOUS
  <2>5. ~(o + 1 <= o + n) => n = 0
    OBVIOUS
  <2> QED BY <2>3, <2>4, <2>5 DEF S, ByteStrings
<1>7. piece = w
  <2>1. Len(piece) = Len(w) /\ \A i \in 1 .. Len(piece) : piece[i] = w[i]
    BY <1>2, <1>6
  <2> QED BY <1>6, <2>1, SeqEqual DEF ByteStrings
<1> QED BY <1>3, <1>4, <1>5, <1>7

\* A field of fixed width
LEMMA FixedTakes ==
  ASSUME buf \in ByteStrings, NEW o \in Nat, NEW w \in ByteStrings, NEW n \in Nat, n = Len(w),
         Lies(o, w), NEW text
  PROVE  Takes(Fixed(o, n, text), o, w, text)
<1>1. CanRead(o, n) /\ Bytes(o, n) = w
  BY LiesBytes
<1>2. /\ Fixed(o, n, text).ok = CanRead(o, n) /\ Fixed(o, n, text).offset = o + n
      /\ CanRead(o, n) => Fixed(o, n, text).shown = text
  BY DEF Fixed
<1> QED BY <1>1, <1>2 DEF Takes

\* The length of a value that one byte can give
LEMMA ShortLength ==
  ASSUME NEW v \in ByteStrings, Len(v) < 256
  PROVE  Len(v) \in 0 .. 255
<1>1. PICK n \in Nat : n = Len(v)
  BY LenProperties
<1>2. n < 256
  BY <1>1
<1>3. n \in 0 .. 255
  BY <1>2
<1> QED BY <1>1, <1>3

\* A string with its length in front
LEMMA StringTakes ==
  ASSUME buf \in ByteStrings, NEW o \in Nat, NEW s \in ByteStrings, Len(s) < 256,
         Lies(o, Chars(s))
  PROVE  /\ Takes(String(o), o, Chars(s), StringText(s)) /\ ByteAt(o) = Len(s)
         /\ \A room : Len(s) < room => Takes(ShortString(o, room), o, Chars(s), StringText(s))
<1>1. PICK n \in 0 .. 255 : n = Len(s)
  BY ShortLength
<1>2. Chars(s) = Led(n, s)
  BY <1>1 DEF Chars, Led
<1>3. /\ CanRead(o, 1) /\ ByteAt(o) = n /\ Lies(o + 1, s)
      /\ Chars(s) \in ByteStrings /\ Len(Chars(s)) = 1 + n
  <2>1. Lies(o, Led(n, s))
    BY <1>2, Zenon
  <2>2. Len(Led(n, s)) = 1 + Len(s) /\ Led(n, s) \in ByteStrings
    BY <2>1, LiesByte
  <2>3. CanRead(o, 1) /\ ByteAt(o) = n /\ Lies(o + 1, s)
    BY <2>1, LiesByte
  <2> QED BY <1>1, <1>2, <2>2, <2>3, Zenon
<1>4. CanRead(o + 1, n) /\ Bytes(o + 1, n) = s
  <2>1. PICK p \in Nat : p = o + 1
    OBVIOUS
  <2> QED BY <1>1, <1>3, <2>1, LiesBytes
<1>5. /\ String(o).ok /\ String(o).offset = o + 1 + n
      /\ String(o).shown = StringText(s)
  BY <1>3, <1>4 DEF String, StringText
<1>6. o + 1 + n = o + Len(Chars(s))
  BY <1>3
<1>7. Takes(String(o), o, Chars(s), StringText(s))
  BY <1>5, <1>6 DEF Takes
<1>8. ASSUME NEW room, n < room
      PROVE  Takes(ShortString(o, room), o, Chars(s), StringText(s))
  <2>1. /\ ShortString(o, room).ok = (String(o).ok /\ ByteAt(o) < room)
        /\ ShortString(o, room).offset = String(o).offset
        /\ ShortString(o, room).shown = String(o).shown
    BY DEF ShortString, String
  <2> QED BY <1>3, <1>7, <1>8, <2>1 DEF Takes
<1> QED BY <1>1, <1>3, <1>7, <1>8

\* The recursive definition in FlattenSeq
IsFlat(run, n, pieces) ==
  run = [i \in 1 .. n |-> IF i = 1 THEN pieces[i] ELSE run[i - 1] \o pieces[i]]

\* It has a value, as the one in Items has.
LEMMA FlatExists ==
  ASSUME NEW n \in Nat, NEW pieces
  PROVE  \E run : IsFlat(run, n, pieces)
<1> DEFINE Is(f, k) == IsFlat(f, k, pieces)
           Bad == {k \in Nat : ~\E f : Is(f, k)}
<1> SUFFICES ASSUME Bad # {} PROVE FALSE
  OBVIOUS
<1>1. PICK k \in Bad : \A m \in Bad : k <= m
  <2>1. Bad \subseteq Nat
    OBVIOUS
  <2> HIDE DEF Bad
  <2> QED BY <2>1, LeastNumber
<1>2. CASE k = 0
  <2> DEFINE f == [i \in 1 .. 0 |-> pieces]
  <2>1. Is(f, 0)
    BY DEF IsFlat
  <2> QED BY <1>1, <1>2, <2>1
<1>3. CASE k # 0
  <2>1. k - 1 \in Nat /\ k \in Nat
    BY <1>1, <1>3
  <2>2. PICK f : Is(f, k - 1)
    <3>1. k - 1 \notin Bad
      <4> HIDE DEF Bad
      <4> QED BY <1>1, <2>1
    <3> QED BY <2>1, <3>1
  <2>5. f = [i \in 1 .. k - 1 |-> IF i = 1 THEN pieces[i] ELSE f[i - 1] \o pieces[i]]
    BY <2>2 DEF IsFlat
  <2> DEFINE value(before, i) == IF i = 1 THEN pieces[i] ELSE before[i - 1] \o pieces[i]
             g == [i \in 1 .. k |-> IF i < k THEN f[i] ELSE value(f, k)]
  <2>3. ASSUME NEW i \in 1 .. k
        PROVE  g[i] = value(g, i)
    <3>1. CASE i < k
      <4>1. g[i] = f[i] /\ (i # 1 => g[i - 1] = f[i - 1]) /\ i \in 1 .. k - 1
        BY <2>1, <3>1
      <4>2. f[i] = value(f, i)
        BY <2>5, <4>1
      <4> QED BY <4>1, <4>2
    <3>2. CASE i = k
      <4>1. g[k] = value(f, k) /\ (k # 1 => g[k - 1] = f[k - 1])
        BY <2>1, <1>3
      <4> QED BY <3>2, <4>1
    <3> QED BY <2>1, <3>1, <3>2
  <2>4. Is(g, k)
    <3> DEFINE h == [i \in 1 .. k |-> value(g, i)]
    <3>1. \A i \in 1 .. k : g[i] = h[i]
      BY <2>3
    <3>2. g = h
      BY <3>1
    <3> QED BY <3>2 DEF IsFlat
  <2> QED BY <1>1, <2>4
<1> QED BY <1>2, <1>3

\* What FlattenSeq goes through, from nothing to the whole
LEMMA FlatGrows ==
  ASSUME NEW S, NEW pieces \in Seq(Seq(S))
  PROVE  \E part \in [0 .. Len(pieces) -> Seq(S)] :
           /\ part[0] = <<>> /\ part[Len(pieces)] = FlattenSeq(pieces)
           /\ \A i \in 1 .. Len(pieces) : part[i] = part[i - 1] \o pieces[i]
<1>1. PICK n \in Nat : n = Len(pieces)
  BY LenProperties
<1> DEFINE T == Seq(S)
<1>2. \A i \in 1 .. n : pieces[i] \in T
  <2>1. pieces \in Seq(T)
    OBVIOUS
  <2> HIDE DEF T
  <2> QED BY <1>1, <2>1, ElementOfSeq
<1>3. CASE n = 0
  <2>1. pieces = <<>> /\ FlattenSeq(pieces) = pieces
    <3>1. pieces \in Seq(T)
      OBVIOUS
    <3>2. pieces = <<>>
      <4> HIDE DEF T
      <4> QED BY <1>1, <1>3, <3>1, EmptySeq
    <3> QED BY <1>1, <1>3, <3>2 DEF FlattenSeq
  <2>2. <<>> \in Seq(S)
    OBVIOUS
  <2> DEFINE part == [i \in 0 .. 0 |-> <<>>]
  <2>3. part \in [0 .. Len(pieces) -> Seq(S)] /\ part[0] = <<>>
    BY <1>1, <1>3, <2>2
  <2>4. part[Len(pieces)] = FlattenSeq(pieces)
    BY <1>1, <1>3, <2>1
  <2>5. \A i \in 1 .. Len(pieces) : part[i] = part[i - 1] \o pieces[i]
    BY <1>1, <1>3
  <2> HIDE DEF part
  <2> QED BY <2>3, <2>4, <2>5
<1>4. CASE n # 0
  <2> DEFINE run == CHOOSE f : IsFlat(f, n, pieces)
  <2>1. IsFlat(run, n, pieces)
    BY FlatExists
  <2>2. FlattenSeq(pieces) = run[n]
    BY <1>1, <1>4 DEF FlattenSeq, IsFlat
  <2> HIDE DEF run
  <2>3. \A i \in 1 .. n : run[i] = IF i = 1 THEN pieces[i] ELSE run[i - 1] \o pieces[i]
    BY <2>1 DEF IsFlat
  <2> DEFINE part == [i \in 0 .. n |-> IF i = 0 THEN <<>> ELSE run[i]]
             Bad == {i \in 0 .. n : part[i] \notin T}
  <2>4. part[0] = <<>> /\ <<>> \in T
    OBVIOUS
  <2>5. ASSUME NEW i \in 1 .. n, part[i - 1] \in T
        PROVE  part[i] = part[i - 1] \o pieces[i] /\ part[i] \in T
    <3>1. i - 1 \in 0 .. n /\ i \in 0 .. n /\ i # 0
      OBVIOUS
    <3>2. part[i] = run[i]
      BY <3>1
    <3>3. CASE i = 1
      <4>1. part[i - 1] = <<>> /\ run[i] = pieces[i]
        BY <2>3, <2>4, <3>3
      <4>2. pieces[i] \in Seq(S)
        BY <1>2
      <4>3. <<>> \o pieces[i] = pieces[i]
        BY <4>2, ConcatEmptySeq
      <4> HIDE DEF part
      <4> QED BY <3>2, <4>1, <4>2, <4>3
    <3>4. CASE i # 1
      <4>1. part[i - 1] = run[i - 1] /\ run[i] = run[i - 1] \o pieces[i]
        <5>1. i - 1 # 0
          BY <3>4
        <5>2. part[i - 1] = run[i - 1]
          BY <3>1, <5>1
        <5>3. run[i] = run[i - 1] \o pieces[i]
          <6> HIDE DEF part
          <6> QED BY <2>3, <3>4
        <5> QED BY <5>2, <5>3
      <4>2. part[i - 1] \in Seq(S) /\ pieces[i] \in Seq(S)
        BY <1>2, <2>5
      <4>3. part[i - 1] \o pieces[i] \in Seq(S)
        BY <4>2, ConcatProperties
      <4> HIDE DEF part
      <4> QED BY <3>2, <4>1, <4>3
    <3> QED BY <3>3, <3>4
  <2>6. Bad = {}
    <3> SUFFICES ASSUME Bad # {} PROVE FALSE
      OBVIOUS
    <3>1. PICK k \in Bad : \A m \in Bad : k <= m
      <4>1. Bad \subseteq Nat
        OBVIOUS
      <4> HIDE DEF Bad
      <4> QED BY <4>1, LeastNumber
    <3> HIDE DEF part, T
    <3>2. k \in 0 .. n /\ part[k] \notin T
      OBVIOUS
    <3>3. k # 0
      BY <2>4, <3>2
    <3>4. k - 1 \in 0 .. n /\ k \in 1 .. n /\ ~(k <= k - 1)
      BY <3>2, <3>3
    <3>5. part[k - 1] \in T
      BY <3>1, <3>4
    <3> QED BY <2>5, <3>2, <3>4, <3>5
  <2>7. \A i \in 0 .. n : part[i] \in Seq(S)
    BY <2>6
  <2>8. part \in [0 .. Len(pieces) -> Seq(S)]
    BY <1>1, <2>7
  <2>9. part[Len(pieces)] = FlattenSeq(pieces)
    BY <1>1, <1>4, <2>2
  <2>10. \A i \in 1 .. Len(pieces) : part[i] = part[i - 1] \o pieces[i]
    <3> HIDE DEF part
    <3>1. \A i \in 1 .. n : i - 1 \in 0 .. n
      OBVIOUS
    <3> QED BY <1>1, <2>5, <2>7, <3>1
  <2> HIDE DEF part
  <2> QED BY <2>4, <2>8, <2>9, <2>10
<1> QED BY <1>3, <1>4

\* The same of bytes: part goes from nothing to all of these pieces.
Grown(part, n, pieces) ==
  /\ part \in [0 .. n -> ByteStrings] /\ part[0] = <<>> /\ part[n] = FlattenSeq(pieces)
  /\ \A i \in 1 .. n : part[i] = part[i - 1] \o pieces[i]

\* There is such a way.
LEMMA BytesGrow ==
  ASSUME NEW pieces \in Seq(ByteStrings), NEW n \in Nat, n = Len(pieces)
  PROVE  \E part : Grown(part, n, pieces)
<1> DEFINE S == 0 .. 255
<1>1. pieces \in Seq(Seq(S)) /\ Seq(S) = ByteStrings
  BY DEF ByteStrings
<1> HIDE DEF S
<1>2. \E part \in [0 .. Len(pieces) -> Seq(S)] :
        /\ part[0] = <<>> /\ part[Len(pieces)] = FlattenSeq(pieces)
        /\ \A i \in 1 .. Len(pieces) : part[i] = part[i - 1] \o pieces[i]
  BY <1>1, FlatGrows
<1> QED BY <1>1, <1>2 DEF Grown

\* Pieces that follow each other lie each in its place.
LEMMA PlacesLie ==
  ASSUME buf \in ByteStrings, NEW o \in Nat, NEW pieces \in Seq(ByteStrings),
         Lies(o, FlattenSeq(pieces))
  PROVE  /\ FlattenSeq(pieces) \in ByteStrings
         /\ \E at \in [0 .. Len(pieces) -> Nat] :
              /\ at[0] = o /\ at[Len(pieces)] = o + Len(FlattenSeq(pieces))
              /\ \A i \in 1 .. Len(pieces) :
                   Lies(at[i - 1], pieces[i]) /\ at[i] = at[i - 1] + Len(pieces[i])
<1>1. PICK n \in Nat : n = Len(pieces)
  BY LenProperties
<1> DEFINE S == 0 .. 255
           T == Seq(S)
<1>0. PICK part : Grown(part, n, pieces)
  BY <1>1, BytesGrow
<1>2. /\ part \in [0 .. n -> ByteStrings] /\ part[0] = <<>> /\ part[n] = FlattenSeq(pieces)
      /\ \A i \in 1 .. n : part[i] = part[i - 1] \o pieces[i]
  BY <1>0 DEF Grown
<1>3. \A i \in 0 .. n : part[i] \in ByteStrings /\ Len(part[i]) \in Nat
  <2>1. \A i \in 0 .. n : part[i] \in ByteStrings
    BY <1>2
  <2>2. ASSUME NEW i \in 0 .. n PROVE Len(part[i]) \in Nat
    BY <2>1, LenProperties DEF ByteStrings
  <2> QED BY <2>1, <2>2
<1>4. \A i \in 1 .. n : pieces[i] \in ByteStrings /\ Len(pieces[i]) \in Nat
  <2>1. \A i \in 1 .. n : pieces[i] \in T
    <3>1. pieces \in Seq(T)
      BY DEF ByteStrings
    <3> HIDE DEF T
    <3> QED BY <1>1, <3>1, ElementOfSeq
  <2>2. ASSUME NEW i \in 1 .. n PROVE Len(pieces[i]) \in Nat
    BY <2>1, LenProperties
  <2> QED BY <2>1, <2>2 DEF ByteStrings
<1> HIDE DEF S, T
<1> DEFINE Bad == {k \in 0 .. n : ~Lies(o, part[n - k])}
<1>5. Bad = {}
  <2> SUFFICES ASSUME Bad # {} PROVE FALSE
    OBVIOUS
  <2>1. PICK k \in Bad : \A m \in Bad : k <= m
    <3>1. Bad \subseteq Nat
      OBVIOUS
    <3> HIDE DEF Bad
    <3> QED BY <3>1, LeastNumber
  <2>2. k \in 0 .. n /\ ~Lies(o, part[n - k])
    OBVIOUS
  <2>3. k # 0
    <3>1. Lies(o, part[n])
      BY <1>2
    <3>2. n - 0 = n
      OBVIOUS
    <3> QED BY <2>2, <3>1, <3>2
  <2>4. k - 1 \in 0 .. n /\ ~(k <= k - 1)
    BY <2>2, <2>3
  <2>5. Lies(o, part[n - (k - 1)])
    BY <2>1, <2>4
  <2>6. PICK i \in 1 .. n : i = n - (k - 1) /\ i - 1 = n - k
    BY <2>2, <2>3
  <2>7. part[i] = part[i - 1] \o pieces[i] /\ i - 1 \in 0 .. n
    <3>1. i - 1 \in 0 .. n
      OBVIOUS
    <3> QED BY <1>2, <3>1
  <2>8. Lies(o, part[i - 1] \o pieces[i])
    BY <2>5, <2>6, <2>7
  <2>9. Lies(o, part[i - 1])
    BY <1>3, <1>4, <2>7, <2>8, LiesParts
  <2> QED BY <2>2, <2>6, <2>9
<1>6. ASSUME NEW i \in 0 .. n PROVE Lies(o, part[i])
  <2>1. n - i \in 0 .. n /\ n - (n - i) = i
    OBVIOUS
  <2> QED BY <1>5, <2>1
<1> HIDE DEF Bad
<1> DEFINE at == [i \in 0 .. n |-> o + Len(part[i])]
<1>7. ASSUME NEW i \in 1 .. n
      PROVE  Lies(at[i - 1], pieces[i]) /\ at[i] = at[i - 1] + Len(pieces[i])
  <2>1. i - 1 \in 0 .. n /\ i \in 0 .. n
    OBVIOUS
  <2>2. at[i - 1] = o + Len(part[i - 1]) /\ at[i] = o + Len(part[i])
    BY <2>1
  <2>3. part[i] = part[i - 1] \o pieces[i]
    BY <1>2
  <2>4. Lies(o, part[i - 1] \o pieces[i])
    BY <1>6, <2>1, <2>3
  <2>5. /\ Lies(o + Len(part[i - 1]), pieces[i])
        /\ Len(part[i - 1] \o pieces[i]) = Len(part[i - 1]) + Len(pieces[i])
    <3> HIDE DEF at
    <3>1. PICK a \in ByteStrings, b \in ByteStrings : a = part[i - 1] /\ b = pieces[i]
      BY <1>3, <1>4, <2>1
    <3>2. Lies(o, a \o b)
      BY <2>4, <3>1
    <3>3. Lies(o + Len(a), b) /\ Len(a \o b) = Len(a) + Len(b)
      BY <3>2, LiesParts
    <3> QED BY <3>1, <3>3
  <2>6. o + (Len(part[i - 1]) + Len(pieces[i])) = (o + Len(part[i - 1])) + Len(pieces[i])
    <3>1. PICK a \in Nat : a = Len(part[i - 1])
      BY <1>3, <2>1
    <3>2. PICK b \in Nat : b = Len(pieces[i])
      BY <1>4
    <3>3. o + (a + b) = (o + a) + b
      OBVIOUS
    <3> QED BY <3>1, <3>2, <3>3
  <2> HIDE DEF at
  <2> QED BY <2>2, <2>3, <2>5, <2>6
<1>8. at \in [0 .. Len(pieces) -> Nat]
  BY <1>1, <1>3
<1>9. at[0] = o
  <2>1. Len(part[0]) = 0
    BY <1>2
  <2> QED BY <2>1
<1>10. at[Len(pieces)] = o + Len(FlattenSeq(pieces))
  BY <1>1, <1>2
<1>11. FlattenSeq(pieces) \in ByteStrings
  BY <1>2, <1>3
<1> HIDE DEF at
<1> QED BY <1>1, <1>7, <1>8, <1>9, <1>10, <1>11

\* Pieces make a sequence of bytes.
LEMMA FlatBytes ==
  ASSUME NEW pieces \in Seq(ByteStrings)
  PROVE  FlattenSeq(pieces) \in ByteStrings
<1>1. PICK n \in Nat : n = Len(pieces)
  BY LenProperties
<1>2. PICK part : Grown(part, n, pieces)
  BY <1>1, BytesGrow
<1> QED BY <1>1, <1>2 DEF Grown

\* One more text behind those before it
LEMMA TextsGrow ==
  ASSUME NEW n \in Nat, NEW k \in 1 .. n, NEW texts
  PROVE  Append([i \in 1 .. k - 1 |-> texts[i]], texts[k]) = [i \in 1 .. k |-> texts[i]]
<1> DEFINE S == {texts[i] : i \in 1 .. n}
           a == [i \in 1 .. k - 1 |-> texts[i]]
           b == [i \in 1 .. k |-> texts[i]]
<1>1. k \in Nat /\ k - 1 \in Nat
  OBVIOUS
<1>2. a \in Seq(S) /\ Len(a) = k - 1 /\ texts[k] \in S
  BY <1>1
<1>3. b \in Seq(S) /\ Len(b) = k
  BY <1>1
<1>4. \A i \in 1 .. k - 1 : a[i] = texts[i]
  OBVIOUS
<1>5. \A i \in 1 .. k : b[i] = texts[i]
  OBVIOUS
<1> HIDE DEF S, a, b
<1>6. /\ Append(a, texts[k]) \in Seq(S) /\ Len(Append(a, texts[k])) = (k - 1) + 1
      /\ \A i \in 1 .. k - 1 : Append(a, texts[k])[i] = a[i]
      /\ Append(a, texts[k])[(k - 1) + 1] = texts[k]
  BY <1>2, AppendProperties
<1>7. (k - 1) + 1 = k
  OBVIOUS
<1>8. ASSUME NEW i \in 1 .. k PROVE Append(a, texts[k])[i] = b[i]
  <2>1. CASE i = k
    BY <1>5, <1>6, <1>7, <2>1
  <2>2. CASE i # k
    <3>1. i \in 1 .. k - 1
      BY <2>2
    <3> QED BY <1>4, <1>5, <1>6, <3>1
  <2> QED BY <2>1, <2>2
<1>9. Append(a, texts[k]) = b
  BY <1>3, <1>6, <1>7, <1>8, SeqEqual
<1> QED BY <1>9 DEF a, b

\* Items that lie one behind the other are read, all of them.
LEMMA ItemsTake ==
  ASSUME buf \in ByteStrings, NEW o \in Nat, NEW pieces \in Seq(ByteStrings),
         NEW n \in Nat, n = Len(pieces), Lies(o, FlattenSeq(pieces)),
         NEW texts, Sized(n, texts), NEW item, TakesEach(item, n, pieces, texts)
  PROVE  Takes(Items(o, n, item), o, FlattenSeq(pieces), texts)
<1> DEFINE start == [ok |-> TRUE, offset |-> o, hashed |-> <<>>, shown |-> <<>>]
           run == CHOOSE f : IsRun(f, n, start, item)
<1>1. \E f : IsRun(f, n, start, item)
  BY RunExists
<1>2. IsRun(run, n, start, item)
  BY <1>1
<1>3. Items(o, n, item) = run[n]
  BY DEF Items, IsRun
<1> HIDE DEF run
<1>4. PICK at \in [0 .. n -> Nat] :
        /\ at[0] = o /\ at[n] = o + Len(FlattenSeq(pieces))
        /\ \A i \in 1 .. n : Lies(at[i - 1], pieces[i]) /\ at[i] = at[i - 1] + Len(pieces[i])
  <2>1. \E at \in [0 .. Len(pieces) -> Nat] :
          /\ at[0] = o /\ at[Len(pieces)] = o + Len(FlattenSeq(pieces))
          /\ \A i \in 1 .. Len(pieces) :
               Lies(at[i - 1], pieces[i]) /\ at[i] = at[i - 1] + Len(pieces[i])
    BY PlacesLie
  <2> HIDE DEF start
  <2> QED BY <2>1, Zenon
<1> DEFINE So(k) == /\ run[k].ok /\ run[k].offset = at[k]
                    /\ run[k].shown = [i \in 1 .. k |-> texts[i]]
           Bad == {k \in 0 .. n : ~So(k)}
<1>5. So(0)
  <2>1. run[0] = start
    BY <1>2 DEF IsRun
  <2>2. run[0].ok /\ run[0].offset = o /\ run[0].shown = <<>>
    BY <2>1
  <2>3. <<>> = [i \in 1 .. 0 |-> texts[i]]
    OBVIOUS
  <2> QED BY <1>4, <2>2, <2>3
<1>6. ASSUME NEW k \in 1 .. n, So(k - 1) PROVE So(k)
  <2>1. k \in 0 .. n /\ k # 0 /\ k - 1 \in 0 .. n
    OBVIOUS
  <2>2. run[k] = Behind(run[k - 1], item[run[k - 1].offset])
    BY <1>2, <2>1 DEF IsRun, Following
  <2>3. PICK x \in Nat : x = at[k - 1]
    BY <1>4, <2>1
  <2>4. PICK r : r = item[x]
    OBVIOUS
  <2>5. PICK before : before = run[k - 1]
    OBVIOUS
  <2>6. /\ before.ok /\ before.offset = x
        /\ before.shown = [i \in 1 .. k - 1 |-> texts[i]]
    BY <1>6, <2>3, <2>5
  <2>7. Takes(r, x, pieces[k], texts[k])
    BY <1>4, <2>3, <2>4 DEF TakesEach
  <2>8. r.ok /\ r.offset = x + Len(pieces[k]) /\ r.shown = texts[k]
    BY <2>7 DEF Takes
  <2>9. run[k] = Behind(before, r)
    BY <2>2, <2>4, <2>5, <2>6
  <2>10. /\ run[k].ok /\ run[k].offset = x + Len(pieces[k])
         /\ run[k].shown = Append([i \in 1 .. k - 1 |-> texts[i]], texts[k])
    <3>1. /\ Behind(before, r).ok = (before.ok /\ r.ok)
          /\ Behind(before, r).offset = r.offset
          /\ Behind(before, r).shown = Append(before.shown, r.shown)
      BY DEF Behind
    <3> QED BY <2>6, <2>8, <2>9, <3>1
  <2>11. run[k].shown = [i \in 1 .. k |-> texts[i]]
    BY <2>10, TextsGrow
  <2> QED BY <1>4, <2>3, <2>10, <2>11
<1>7. Bad = {}
  <2> SUFFICES ASSUME Bad # {} PROVE FALSE
    OBVIOUS
  <2>1. PICK k \in Bad : \A m \in Bad : k <= m
    <3>1. Bad \subseteq Nat
      OBVIOUS
    <3> HIDE DEF Bad
    <3> QED BY <3>1, LeastNumber
  <2>2. k \in 0 .. n /\ ~So(k)
    OBVIOUS
  <2> HIDE DEF So
  <2>3. k # 0
    BY <1>5, <2>2
  <2>4. k - 1 \in 0 .. n /\ k \in 1 .. n /\ ~(k <= k - 1)
    BY <2>2, <2>3
  <2>5. So(k - 1)
    BY <2>1, <2>4
  <2> QED BY <1>6, <2>2, <2>4, <2>5
<1>8. So(n)
  <2> HIDE DEF So
  <2>1. n \in 0 .. n
    OBVIOUS
  <2> QED BY <1>7, <2>1
<1>9. run[n].ok /\ run[n].offset = o + Len(FlattenSeq(pieces)) /\ run[n].shown = texts
  BY <1>4, <1>8 DEF Sized
<1> QED BY <1>3, <1>9 DEF Takes

\* A list with its number of items in front
LEMMA ArrayTakes ==
  ASSUME buf \in ByteStrings, NEW o \in Nat, NEW pieces \in Seq(ByteStrings),
         NEW n \in 0 .. 255, n = Len(pieces), Lies(o, Counted(pieces)),
         NEW texts, Sized(n, texts), NEW item, TakesEach(item, n, pieces, texts)
  PROVE  Takes(Array(o, item), o, Counted(pieces), texts)
<1>1. PICK w \in ByteStrings : w = FlattenSeq(pieces)
  BY FlatBytes
<1>2. Counted(pieces) = Led(n, w)
  BY <1>1 DEF Counted, Led
<1>3. Lies(o, Led(n, w))
  BY <1>2, Zenon
<1>4. /\ CanRead(o, 1) /\ ByteAt(o) = n /\ Lies(o + 1, w)
      /\ Len(Led(n, w)) = 1 + Len(w)
  BY <1>3, LiesByte
<1>5. PICK p \in Nat : p = o + 1
  OBVIOUS
<1>6. n \in Nat
  OBVIOUS
<1>7. PICK items : items = Items(p, n, item)
  OBVIOUS
<1>8. Takes(items, p, w, texts)
  <2>1. Lies(p, FlattenSeq(pieces))
    BY <1>1, <1>4, <1>5
  <2>2. Takes(Items(p, n, item), p, FlattenSeq(pieces), texts)
    BY <1>6, <2>1, ItemsTake, SMTT(30)
  <2> QED BY <1>1, <1>7, <2>2
<1>9. /\ Array(o, item).ok = (CanRead(o, 1) /\ items.ok)
      /\ Array(o, item).offset = items.offset /\ Array(o, item).shown = items.shown
  BY <1>4, <1>5, <1>7 DEF Array
<1>10. Len(w) \in Nat
  BY LenProperties, SMTT(30)
<1>11. p + Len(w) = o + (1 + Len(w))
  BY <1>5, <1>10
<1>12. Array(o, item).ok /\ Array(o, item).offset = o + (1 + Len(w)) /\ Array(o, item).shown = texts
  BY <1>4, <1>8, <1>9, <1>11 DEF Takes
<1> QED BY <1>2, <1>4, <1>12 DEF Takes

\* What has a length of one byte
LEMMA ShortType ==
  ASSUME NEW S, NEW s \in Short(S)
  PROVE  s \in Seq(S) /\ Len(s) \in 0 .. 127 /\ Len(s) < 256 /\ \A i \in 1 .. Len(s) : s[i] \in S
<1>1. s \in Seq(S) /\ Len(s) < 128
  BY DEF Short
<1>2. PICK n \in Nat : n = Len(s)
  BY <1>1, LenProperties
<1>3. n \in 0 .. 127
  <2>1. n < 128
    BY <1>1, <1>2, Zenon
  <2> QED BY <2>1
<1>4. n < 256
  BY <1>3
<1> QED BY <1>1, <1>2, <1>3, <1>4, ElementOfSeq

\* How many items it has: a byte says so.
LEMMA ShortCount ==
  ASSUME NEW S, NEW s \in Short(S)
  PROVE  \E n \in 0 .. 255 : /\ n \in Nat /\ n = Len(s)
                              /\ s \in Seq(S) /\ \A i \in 1 .. n : s[i] \in S
<1>1. PICK m \in 0 .. 127 : m = Len(s)
  BY ShortType
<1>2. m \in 0 .. 255 /\ m \in Nat
  OBVIOUS
<1>3. s \in Seq(S) /\ \A i \in 1 .. m : s[i] \in S
  BY <1>1, ShortType
<1> QED BY <1>1, <1>2, <1>3, Zenon

\* Bytes of a width
LEMMA WideType ==
  ASSUME NEW n \in Nat, NEW w \in Wide(n)
  PROVE  w \in ByteStrings /\ Len(w) = n
BY DEF Wide, Byte, ByteStrings

\* Items that are written are sequences of bytes.
LEMMA ItemsType ==
  ASSUME NEW n \in Nat, NEW f, Sized(n, f), \A i \in 1 .. n : f[i] \in ByteStrings
  PROVE  f \in Seq(ByteStrings) /\ Len(f) = n
<1> DEFINE T == ByteStrings
<1>1. \A i \in 1 .. n : f[i] \in T
  OBVIOUS
<1> HIDE DEF T
<1>2. f \in [1 .. n -> T]
  BY <1>1 DEF Sized
<1>3. f \in Seq(T) /\ Len(f) = n
  BY <1>2
<1> QED BY <1>3 DEF T

\* Characters with their length in front
LEMMA CharsType ==
  ASSUME NEW s \in ByteStrings, Len(s) < 256
  PROVE  Chars(s) \in ByteStrings /\ Len(Chars(s)) = 1 + Len(s)
<1>1. PICK n \in 0 .. 255 : n = Len(s)
  BY ShortLength
<1>2. Led(n, s) \in ByteStrings /\ Len(Led(n, s)) = 1 + Len(s)
  <2> DEFINE S == 0 .. 255
  <2>1. <<n>> \in Seq(S) /\ Len(<<n>>) = 1 /\ s \in Seq(S)
    BY DEF ByteStrings
  <2> HIDE DEF S
  <2>2. Led(n, s) \in Seq(S) /\ Len(Led(n, s)) = Len(<<n>>) + Len(s)
    BY <2>1, ConcatProperties DEF Led
  <2> QED BY <2>1, <2>2 DEF S, ByteStrings
<1> QED BY <1>1, <1>2 DEF Chars, Led

\* Two values, one behind the other
LEMMA JoinedType ==
  ASSUME NEW a \in ByteStrings, NEW b \in ByteStrings
  PROVE  a \o b \in ByteStrings /\ Len(a \o b) = Len(a) + Len(b)
<1> DEFINE S == 0 .. 255
<1>1. a \in Seq(S) /\ b \in Seq(S)
  BY DEF ByteStrings
<1> HIDE DEF S
<1>2. a \o b \in Seq(S) /\ Len(a \o b) = Len(a) + Len(b)
  BY <1>1, ConcatProperties
<1> QED BY <1>2 DEF S, ByteStrings

\* A number of items and the items
LEMMA CountedType ==
  ASSUME NEW pieces \in Seq(ByteStrings), Len(pieces) \in 0 .. 255
  PROVE  Counted(pieces) \in ByteStrings
<1>1. PICK w \in ByteStrings : w = FlattenSeq(pieces)
  BY FlatBytes
<1>2. PICK n \in 0 .. 255 : n = Len(pieces)
  OBVIOUS
<1>3. PICK head \in ByteStrings : head = <<n>>
  <2>1. <<n>> \in ByteStrings
    BY DEF ByteStrings
  <2> QED BY <2>1, Zenon
<1>4. head \o w \in ByteStrings
  BY JoinedType, SMTT(30)
<1>5. Counted(pieces) = head \o w
  BY <1>1, <1>2, <1>3 DEF Counted
<1> QED BY <1>4, <1>5

\* A name for a buffer
LEMMA NameType ==
  ASSUME NEW room, NEW s \in NameFor(room)
  PROVE  s \in ByteStrings /\ Len(s) < 256 /\ Len(s) < room /\ Chars(s) \in ByteStrings
<1>1. s \in Short(0 .. 255) /\ Len(s) < room
  BY DEF NameFor, Byte
<1>2. s \in ByteStrings /\ Len(s) < 256
  BY <1>1, ShortType DEF ByteStrings
<1> QED BY <1>1, <1>2, CharsType

-----------------------------------------------------------------------------
(* Every kind of field                                                     *)

\* The names of a list
LEMMA StringsTake ==
  ASSUME buf \in ByteStrings, NEW o \in Nat, NEW v \in Short(NameFor(TMP_LEN))
  PROVE  /\ Counted(NameItems(v)) \in ByteStrings
         /\ Lies(o, Counted(NameItems(v))) =>
              Takes(ArrayOfStrings(o), o, Counted(NameItems(v)),
                    Cut(Bracketed([i \in 1 .. Len(v) |-> StringText(v[i])]), LIST_ROOM))
<1>1. PICK n \in 0 .. 255 : /\ n \in Nat /\ n = Len(v)
                            /\ v \in Seq(NameFor(TMP_LEN)) /\ \A i \in 1 .. n : v[i] \in NameFor(TMP_LEN)
  BY ShortCount, Zenon
<1>2. n \in Nat /\ \A i \in 1 .. n : v[i] \in NameFor(TMP_LEN)
  BY <1>1, Zenon
<1>3. PICK texts : texts = [i \in 1 .. n |-> StringText(v[i])]
  OBVIOUS
<1>4. PICK pieces : pieces = NameItems(v)
  OBVIOUS
<1>5. pieces = [i \in 1 .. n |-> Chars(v[i])]
  BY <1>1, <1>4 DEF NameItems
<1>6. \A i \in 1 .. n : pieces[i] = Chars(v[i]) /\ pieces[i] \in ByteStrings
  BY <1>2, <1>5, NameType
<1>7. Sized(n, pieces)
  BY <1>5 DEF Sized
<1>8. pieces \in Seq(ByteStrings) /\ Len(pieces) = n
  BY <1>2, <1>6, <1>7, ItemsType
<1>9. Counted(pieces) \in ByteStrings
  BY <1>8, CountedType
<1>10. ASSUME NEW i \in 1 .. n, NEW x \in Nat, Lies(x, pieces[i])
       PROVE  Takes(TmpString[x], x, pieces[i], texts[i])
  <2>1. TmpString[x] = ShortString(x, TMP_LEN)
    BY DEF TmpString
  <2>2. texts[i] = StringText(v[i])
    BY <1>3
  <2>3. v[i] \in ByteStrings /\ Len(v[i]) < 256 /\ Len(v[i]) < TMP_LEN
    BY <1>2, NameType
  <2>4. Lies(x, Chars(v[i]))
    BY <1>6, <1>10
  <2>5. Takes(ShortString(x, TMP_LEN), x, Chars(v[i]), StringText(v[i]))
    BY <2>3, <2>4, StringTakes
  <2> QED BY <1>6, <2>1, <2>2, <2>5
<1>11. ASSUME Lies(o, Counted(pieces))
       PROVE  Takes(ArrayOfStrings(o), o, Counted(pieces), Cut(Bracketed(texts), LIST_ROOM))
  <2>1. Sized(n, texts)
    BY <1>3, SMTT(30) DEF Sized
  <2>2. Takes(Array(o, TmpString), o, Counted(pieces), texts)
    BY <1>8, <1>10, <1>11, <2>1, ArrayTakes DEF TakesEach
  <2>3. /\ ArrayOfStrings(o).ok = Array(o, TmpString).ok
        /\ ArrayOfStrings(o).offset = Array(o, TmpString).offset
        /\ ArrayOfStrings(o).shown = Cut(Bracketed(Array(o, TmpString).shown), LIST_ROOM)
    BY DEF ArrayOfStrings, Array
  <2> QED BY <2>2, <2>3 DEF Takes
<1> QED BY <1>1, <1>3, <1>4, <1>9, <1>11

\* Numbers of eight bytes
LEMMA NumbersTake ==
  ASSUME buf \in ByteStrings, NEW o \in Nat, NEW v \in Short(Wide(8))
  PROVE  /\ Counted(v) \in ByteStrings
         /\ Lies(o, Counted(v)) =>
              Takes(ArrayOfUint64(o), o, Counted(v),
                    Value(Bracketed([i \in 1 .. Len(v) |-> Unsigned(v[i])])))
<1>1. PICK n \in 0 .. 255 : /\ n \in Nat /\ n = Len(v)
                            /\ v \in Seq(Wide(8)) /\ \A i \in 1 .. n : v[i] \in Wide(8)
  BY ShortCount, Zenon
<1>2. n \in Nat /\ (\A i \in 1 .. n : v[i] \in Wide(8)) /\ v \in Seq(Wide(8))
  BY <1>1, Zenon
<1>3. PICK texts : texts = [i \in 1 .. n |-> Unsigned(v[i])]
  OBVIOUS
<1>6. \A i \in 1 .. n : v[i] \in ByteStrings /\ Len(v[i]) = 8
  BY <1>2, WideType
<1>7. Sized(n, v)
  <2>1. v \in [1 .. n -> Wide(8)]
    BY <1>1, LenProperties
  <2> QED BY <2>1 DEF Sized
<1>8. v \in Seq(ByteStrings)
  BY <1>2, <1>6, <1>7, ItemsType
<1>9. Counted(v) \in ByteStrings
  BY <1>1, <1>8, CountedType
<1>10. ASSUME NEW i \in 1 .. n, NEW x \in Nat, Lies(x, v[i])
       PROVE  Takes(Uint64[x], x, v[i], texts[i])
  <2>1. Uint64[x] = Fixed(x, 8, Unsigned(Bytes(x, 8)))
    BY DEF Uint64
  <2>2. texts[i] = Unsigned(v[i])
    BY <1>3
  <2>3. Bytes(x, 8) = v[i]
    BY <1>6, <1>10, LiesBytes
  <2>4. Takes(Fixed(x, 8, texts[i]), x, v[i], texts[i])
    BY <1>6, <1>10, FixedTakes
  <2> QED BY <2>1, <2>2, <2>3, <2>4
<1>11. ASSUME Lies(o, Counted(v))
       PROVE  Takes(ArrayOfUint64(o), o, Counted(v), Value(Bracketed(texts)))
  <2>1. Sized(n, texts)
    BY <1>3, SMTT(30) DEF Sized
  <2>2. Takes(Array(o, Uint64), o, Counted(v), texts)
    BY <1>1, <1>8, <1>10, <1>11, <2>1, ArrayTakes DEF TakesEach
  <2>3. /\ ArrayOfUint64(o).ok = Array(o, Uint64).ok
        /\ ArrayOfUint64(o).offset = Array(o, Uint64).offset
        /\ ArrayOfUint64(o).shown = Value(Bracketed(Array(o, Uint64).shown))
    BY DEF ArrayOfUint64, Array
  <2> QED BY <2>2, <2>3 DEF Takes
<1> QED BY <1>1, <1>3, <1>9, <1>11

\* An account or a key, and its weight behind it
LEMMA WeightedTakes ==
  ASSUME buf \in ByteStrings, NEW o \in Nat, NEW w \in ByteStrings, NEW weight \in Wide(2),
         NEW who, NEW text, Lies(o, w \o weight), Takes(who, o, w, text)
  PROVE  Takes(Weighted(who), o, w \o weight, Bracketed(<<text, Unsigned(weight)>>))
<1>1. weight \in ByteStrings /\ Len(weight) = 2
  BY WideType
<1>2. Lies(o + Len(w), weight) /\ Len(w \o weight) = Len(w) + Len(weight)
  <2>1. PICK b \in ByteStrings : b = weight
    BY <1>1
  <2>2. Lies(o, w \o b)
    BY <2>1
  <2>3. Lies(o + Len(w), b) /\ Len(w \o b) = Len(w) + Len(b)
    BY <2>2, LiesParts
  <2> QED BY <2>1, <2>3
<1>3. PICK n \in Nat : n = Len(w)
  BY LenProperties
<1>4. PICK p \in Nat : p = o + n
  OBVIOUS
<1>5. Lies(p, weight)
  BY <1>2, <1>3, <1>4
<1>6. who.ok /\ who.offset = p /\ who.shown = text
  BY <1>3, <1>4 DEF Takes
<1>7. Bytes(p, 2) = weight
  BY <1>1, <1>5, LiesBytes
<1>8. PICK number : number = Uint16(p)
  OBVIOUS
<1>9. Takes(number, p, weight, Unsigned(weight))
  <2>1. number = Fixed(p, 2, Unsigned(weight))
    BY <1>7, <1>8 DEF Uint16
  <2>2. Takes(Fixed(p, 2, Unsigned(weight)), p, weight, Unsigned(weight))
    BY <1>1, <1>5, FixedTakes
  <2> QED BY <2>1, <2>2
<1>10. Weighted(who) = Pair(who, number)
  BY <1>6, <1>8 DEF Weighted
<1>11. /\ Pair(who, number).ok = (who.ok /\ number.ok) /\ Pair(who, number).offset = number.offset
       /\ Pair(who, number).shown = Bracketed(<<who.shown, number.shown>>)
  BY DEF Pair
<1>12. number.ok /\ number.offset = p + 2 /\ number.shown = Unsigned(weight)
  BY <1>1, <1>9 DEF Takes
<1>13. p + 2 = o + Len(w \o weight)
  BY <1>1, <1>2, <1>3, <1>4
<1>14. /\ Weighted(who).ok /\ Weighted(who).offset = o + Len(w \o weight)
       /\ Weighted(who).shown = Bracketed(<<text, Unsigned(weight)>>)
  BY <1>6, <1>10, <1>11, <1>12, <1>13, Zenon
<1> QED BY <1>14 DEF Takes

\* An account of an authority
LEMMA AccountTakes ==
  ASSUME buf \in ByteStrings, NEW x \in Nat, NEW a \in Account
  PROVE  /\ AccountBytes(a) \in ByteStrings
         /\ Lies(x, AccountBytes(a)) => Takes(AccountAuth[x], x, AccountBytes(a), AccountText(a))
<1>1. a.who \in NameFor(MAX_ACCOUNT_NAME_LEN) /\ a.weight \in Wide(2)
  BY DEF Account
<1>2. /\ a.who \in ByteStrings /\ Len(a.who) < 256 /\ Len(a.who) < MAX_ACCOUNT_NAME_LEN
      /\ Chars(a.who) \in ByteStrings
  BY <1>1, NameType
<1>3. a.weight \in ByteStrings
  BY <1>1, WideType
<1>4. AccountBytes(a) \in ByteStrings
  BY <1>2, <1>3, JoinedType DEF AccountBytes
<1>5. ASSUME Lies(x, AccountBytes(a))
      PROVE  Takes(AccountAuth[x], x, AccountBytes(a), AccountText(a))
  <2>1. PICK who : who = ShortString(x, MAX_ACCOUNT_NAME_LEN)
    OBVIOUS
  <2>2. AccountAuth[x] = Weighted(who)
    BY <2>1 DEF AccountAuth
  <2>3. Lies(x, Chars(a.who) \o a.weight)
    BY <1>5 DEF AccountBytes
  <2>4. Lies(x, Chars(a.who))
    BY <1>2, <1>3, <2>3, LiesParts
  <2>5. Takes(who, x, Chars(a.who), StringText(a.who))
    BY <1>2, <2>1, <2>4, StringTakes
  <2>6. Takes(Weighted(who), x, Chars(a.who) \o a.weight,
              Bracketed(<<StringText(a.who), Unsigned(a.weight)>>))
    BY <1>1, <1>2, <2>3, <2>5, WeightedTakes
  <2> QED BY <2>2, <2>6 DEF AccountBytes, AccountText
<1> QED BY <1>4, <1>5

\* A key
LEMMA KeyTakes ==
  ASSUME buf \in ByteStrings, NEW o \in Nat, NEW w \in Wide(PUBKEY_COMPRESSED_LEN), Lies(o, w)
  PROVE  Takes(PublicKey(o), o, w, KeyText(w, Checksum(w)))
<1>1. PICK n \in Nat : n = PUBKEY_COMPRESSED_LEN
  BY DEF PUBKEY_COMPRESSED_LEN
<1>2. w \in ByteStrings /\ n = Len(w)
  BY <1>1, WideType
<1>3. Bytes(o, n) = w
  BY <1>2, LiesBytes
<1>4. PublicKey(o) = Fixed(o, n, KeyText(w, Checksum(w)))
  BY <1>1, <1>3 DEF PublicKey
<1> QED BY <1>2, <1>4, FixedTakes

\* A key of an authority
LEMMA KeyPairTakes ==
  ASSUME buf \in ByteStrings, NEW x \in Nat, NEW k \in Key
  PROVE  /\ KeyBytes(k) \in ByteStrings
         /\ Lies(x, KeyBytes(k)) => Takes(KeyAuth[x], x, KeyBytes(k), KeyPairText(k))
<1>1. k.who \in Wide(PUBKEY_COMPRESSED_LEN) /\ k.weight \in Wide(2)
  BY DEF Key
<1>2. k.who \in ByteStrings
  BY <1>1, WideType DEF PUBKEY_COMPRESSED_LEN
<1>3. k.weight \in ByteStrings
  BY <1>1, WideType
<1>4. KeyBytes(k) \in ByteStrings
  BY <1>2, <1>3, JoinedType DEF KeyBytes
<1>5. ASSUME Lies(x, KeyBytes(k))
      PROVE  Takes(KeyAuth[x], x, KeyBytes(k), KeyPairText(k))
  <2>1. PICK who : who = PublicKey(x)
    OBVIOUS
  <2>2. KeyAuth[x] = Weighted(who)
    BY <2>1 DEF KeyAuth
  <2>3. Lies(x, k.who \o k.weight)
    BY <1>5 DEF KeyBytes
  <2>4. Lies(x, k.who)
    BY <1>2, <1>3, <2>3, LiesParts
  <2>5. Takes(who, x, k.who, KeyText(k.who, Checksum(k.who)))
    BY <1>1, <2>1, <2>4, KeyTakes
  <2>6. Takes(Weighted(who), x, k.who \o k.weight,
              Bracketed(<<KeyText(k.who, Checksum(k.who)), Unsigned(k.weight)>>))
    BY <1>1, <1>2, <2>3, <2>5, WeightedTakes, SMTT(30)
  <2> QED BY <2>2, <2>6 DEF KeyBytes, KeyPairText
<1> QED BY <1>4, <1>5

\* The accounts of an authority
LEMMA AccountsTake ==
  ASSUME buf \in ByteStrings, NEW o \in Nat, NEW v \in Short(Account)
  PROVE  /\ Counted(AccountItems(v)) \in ByteStrings
         /\ Lies(o, Counted(AccountItems(v))) =>
              Takes(Array(o, AccountAuth), o, Counted(AccountItems(v)),
                    [i \in 1 .. Len(v) |-> AccountText(v[i])])
<1>1. PICK n \in 0 .. 255 : /\ n \in Nat /\ n = Len(v)
                            /\ v \in Seq(Account) /\ \A i \in 1 .. n : v[i] \in Account
  BY ShortCount, Zenon
<1>2. n \in Nat /\ \A i \in 1 .. n : v[i] \in Account
  BY <1>1, Zenon
<1>3. PICK texts : texts = [i \in 1 .. n |-> AccountText(v[i])]
  OBVIOUS
<1>4. PICK pieces : pieces = AccountItems(v)
  OBVIOUS
<1>5. pieces = [i \in 1 .. n |-> AccountBytes(v[i])]
  BY <1>1, <1>4 DEF AccountItems
<1>6. \A i \in 1 .. n : pieces[i] = AccountBytes(v[i]) /\ pieces[i] \in ByteStrings
  <2>1. 0 \in Nat
    OBVIOUS
  <2> QED BY <1>2, <1>5, <2>1, AccountTakes
<1>7. Sized(n, pieces)
  BY <1>5 DEF Sized
<1>8. pieces \in Seq(ByteStrings) /\ Len(pieces) = n
  BY <1>2, <1>6, <1>7, ItemsType
<1>9. Counted(pieces) \in ByteStrings
  BY <1>8, CountedType
<1>10. ASSUME NEW i \in 1 .. n, NEW x \in Nat, Lies(x, pieces[i])
       PROVE  Takes(AccountAuth[x], x, pieces[i], texts[i])
  <2>1. texts[i] = AccountText(v[i])
    BY <1>3
  <2>2. Lies(x, AccountBytes(v[i])) /\ v[i] \in Account
    BY <1>2, <1>6, <1>10
  <2>3. Takes(AccountAuth[x], x, AccountBytes(v[i]), AccountText(v[i]))
    BY <2>2, AccountTakes
  <2> QED BY <1>6, <2>1, <2>3
<1>11. ASSUME Lies(o, Counted(pieces))
       PROVE  Takes(Array(o, AccountAuth), o, Counted(pieces), texts)
  <2>1. Sized(n, texts)
    BY <1>3 DEF Sized
  <2> QED BY <1>8, <1>10, <1>11, <2>1, ArrayTakes DEF TakesEach
<1> QED BY <1>1, <1>3, <1>4, <1>9, <1>11

\* Its keys
LEMMA KeysTake ==
  ASSUME buf \in ByteStrings, NEW o \in Nat, NEW v \in Short(Key)
  PROVE  /\ Counted(KeyItems(v)) \in ByteStrings
         /\ Lies(o, Counted(KeyItems(v))) =>
              Takes(Array(o, KeyAuth), o, Counted(KeyItems(v)),
                    [i \in 1 .. Len(v) |-> KeyPairText(v[i])])
<1>1. PICK n \in 0 .. 255 : /\ n \in Nat /\ n = Len(v)
                            /\ v \in Seq(Key) /\ \A i \in 1 .. n : v[i] \in Key
  BY ShortCount, Zenon
<1>2. n \in Nat /\ \A i \in 1 .. n : v[i] \in Key
  BY <1>1, Zenon
<1>3. PICK texts : texts = [i \in 1 .. n |-> KeyPairText(v[i])]
  OBVIOUS
<1>4. PICK pieces : pieces = KeyItems(v)
  OBVIOUS
<1>5. pieces = [i \in 1 .. n |-> KeyBytes(v[i])]
  BY <1>1, <1>4 DEF KeyItems
<1>6. \A i \in 1 .. n : pieces[i] = KeyBytes(v[i]) /\ pieces[i] \in ByteStrings
  <2>1. 0 \in Nat
    OBVIOUS
  <2> QED BY <1>2, <1>5, <2>1, KeyPairTakes
<1>7. Sized(n, pieces)
  BY <1>5 DEF Sized
<1>8. pieces \in Seq(ByteStrings) /\ Len(pieces) = n
  BY <1>2, <1>6, <1>7, ItemsType
<1>9. Counted(pieces) \in ByteStrings
  BY <1>8, CountedType
<1>10. ASSUME NEW i \in 1 .. n, NEW x \in Nat, Lies(x, pieces[i])
       PROVE  Takes(KeyAuth[x], x, pieces[i], texts[i])
  <2>1. texts[i] = KeyPairText(v[i])
    BY <1>3
  <2>2. Lies(x, KeyBytes(v[i])) /\ v[i] \in Key
    BY <1>2, <1>6, <1>10
  <2>3. Takes(KeyAuth[x], x, KeyBytes(v[i]), KeyPairText(v[i]))
    BY <2>2, KeyPairTakes
  <2> QED BY <1>6, <2>1, <2>3
<1>11. ASSUME Lies(o, Counted(pieces))
       PROVE  Takes(Array(o, KeyAuth), o, Counted(pieces), texts)
  <2>1. Sized(n, texts)
    BY <1>3 DEF Sized
  <2> QED BY <1>8, <1>10, <1>11, <2>1, ArrayTakes DEF TakesEach
<1> QED BY <1>1, <1>3, <1>4, <1>9, <1>11

\* An authority
LEMMA AuthorityTakes ==
  ASSUME buf \in ByteStrings, NEW o \in Nat, NEW a \in AuthorityValue
  PROVE  /\ AuthorityBytes(a) \in ByteStrings
         /\ Lies(o, AuthorityBytes(a)) => Takes(Authority(o), o, AuthorityBytes(a), AuthorityText(a))
<1>1. a.weight \in Wide(4) /\ a.accounts \in Short(Account) /\ a.keys \in Short(Key)
  BY DEF AuthorityValue
<1>2. PICK w \in ByteStrings : w = a.weight /\ Len(w) = 4
  BY <1>1, WideType
<1>3. PICK c \in ByteStrings : c = Counted(AccountItems(a.accounts))
  <2>1. 0 \in Nat
    OBVIOUS
  <2> QED BY <1>1, <2>1, AccountsTake
<1>4. PICK d \in ByteStrings : d = Counted(KeyItems(a.keys))
  <2>1. 0 \in Nat
    OBVIOUS
  <2> QED BY <1>1, <2>1, KeysTake
<1>5. PICK e \in ByteStrings : e = c \o d /\ Len(e) = Len(c) + Len(d)
  BY JoinedType
<1>6. AuthorityBytes(a) = w \o e
  BY <1>2, <1>3, <1>4, <1>5 DEF AuthorityBytes
<1>7. w \o e \in ByteStrings /\ Len(w \o e) = Len(w) + Len(e)
  BY JoinedType
<1>8. ASSUME Lies(o, w \o e) PROVE Takes(Authority(o), o, w \o e, AuthorityText(a))
  <2>1. Lies(o, w) /\ Lies(o + Len(w), e)
    BY <1>8, LiesParts
  <2>2. PICK p \in Nat : p = o + 4
    OBVIOUS
  <2>3. Lies(p, c \o d)
    BY <1>2, <1>5, <2>1, <2>2
  <2>4. PICK nc \in Nat : nc = Len(c)
    BY LenProperties DEF ByteStrings
  <2>5. PICK nd \in Nat : nd = Len(d)
    BY LenProperties DEF ByteStrings
  <2>6. PICK q \in Nat : q = p + nc
    OBVIOUS
  <2>7. Lies(p, c) /\ Lies(q, d)
    BY <2>3, <2>4, <2>6, LiesParts
  <2>8. PICK accounts : accounts = Array(p, AccountAuth)
    OBVIOUS
  <2>9. Takes(accounts, p, c, [i \in 1 .. Len(a.accounts) |-> AccountText(a.accounts[i])])
    BY <1>1, <1>3, <2>7, <2>8, AccountsTake
  <2>10. accounts.offset = q
    BY <2>4, <2>6, <2>9 DEF Takes
  <2>11. PICK keys : keys = Array(q, KeyAuth)
    OBVIOUS
  <2>12. Takes(keys, q, d, [i \in 1 .. Len(a.keys) |-> KeyPairText(a.keys[i])])
    BY <1>1, <1>4, <2>7, <2>11, KeysTake
  <2>13. PICK weight : weight = Uint32(o)
    OBVIOUS
  <2>14. Takes(weight, o, w, Decimal(a.weight))
    <3>1. Bytes(o, 4) = w
      BY <1>2, <2>1, LiesBytes
    <3>2. weight = Fixed(o, 4, Decimal(a.weight))
      BY <1>2, <2>13, <3>1 DEF Uint32
    <3>3. Takes(Fixed(o, 4, Decimal(a.weight)), o, w, Decimal(a.weight))
      BY <1>2, <2>1, FixedTakes
    <3> QED BY <3>2, <3>3
  <2>15. Authority(o) = AuthorityOf(o, weight, accounts, keys)
    BY <2>2, <2>8, <2>10, <2>11, <2>13 DEF Authority
  <2>16. PICK r : r = AuthorityOf(o, weight, accounts, keys)
    OBVIOUS
  <2>17. /\ r.ok = (weight.ok /\ accounts.ok /\ keys.ok) /\ r.offset = keys.offset
         /\ r.shown = Value("Weight: " \o weight.shown \o ", " \o Bracketed(accounts.shown)
                              \o ", " \o Bracketed(keys.shown))
    BY <2>16 DEF AuthorityOf
  <2>18. /\ weight.ok /\ weight.shown = Decimal(a.weight)
         /\ accounts.ok /\ accounts.shown = [i \in 1 .. Len(a.accounts) |-> AccountText(a.accounts[i])]
         /\ keys.ok /\ keys.shown = [i \in 1 .. Len(a.keys) |-> KeyPairText(a.keys[i])]
         /\ keys.offset = q + Len(d)
    BY <2>9, <2>12, <2>14 DEF Takes
  <2>19. r.shown = AuthorityText(a)
    BY <2>17, <2>18, Zenon DEF AuthorityText
  <2>20. q + Len(d) = o + Len(w \o e)
    BY <1>2, <1>5, <1>7, <2>2, <2>4, <2>5, <2>6
  <2>21. r.ok /\ r.offset = o + Len(w \o e)
    BY <2>17, <2>18, <2>20
  <2> QED BY <2>15, <2>16, <2>19, <2>21 DEF Takes
<1> QED BY <1>6, <1>7, <1>8

\* An authority that may be missing
LEMMA OptionalTakes ==
  ASSUME buf \in ByteStrings, NEW o \in Nat, NEW v \in Seq(AuthorityValue), Len(v) <= 1
  PROVE  /\ FieldBytes("optional_authority", v) \in ByteStrings
         /\ Lies(o, FieldBytes("optional_authority", v)) =>
              Takes(OptionalAuthority(o), o, FieldBytes("optional_authority", v),
                    FieldText("optional_authority", v))
<1> DEFINE w == FieldBytes("optional_authority", v)
           text == FieldText("optional_authority", v)
<1>1. /\ w = IF Len(v) = 0 THEN <<0>> ELSE <<1>> \o AuthorityBytes(v[1])
      /\ text = IF Len(v) = 0 THEN "no changes" ELSE AuthorityText(v[1])
  BY DEF FieldBytes, FieldText
<1> HIDE DEF w, text
<1>2. PICK authority : authority = Authority(o + 1)
  OBVIOUS
<1>3. OptionalAuthority(o) = OptionallyOf(o, authority)
  BY <1>2 DEF OptionalAuthority
<1>4. PICK r : r = OptionallyOf(o, authority)
  OBVIOUS
<1>5. /\ r.ok = (CanRead(o, 1) /\ (ByteAt(o) = 0 \/ authority.ok))
      /\ r.offset = IF ByteAt(o) = 0 THEN o + 1 ELSE authority.offset
      /\ r.shown = IF ByteAt(o) = 0 THEN "no changes" ELSE authority.shown
  BY <1>4 DEF OptionallyOf
<1>6. CASE Len(v) = 0
  <2>1. w = <<0>> /\ text = "no changes"
    BY <1>1, <1>6
  <2>2. PICK b \in ByteStrings : b = <<>> /\ Len(b) = 0
    BY EmptySeq DEF ByteStrings
  <2>3. w = Led(0, b)
    <3>1. <<0>> \o <<>> = <<0>>
      OBVIOUS
    <3> QED BY <2>1, <2>2, <3>1, Zenon DEF Led
  <2>4. w \in ByteStrings /\ Len(w) = 1
    <3>1. <<0>> \in ByteStrings /\ Len(<<0>>) = 1
      BY DEF ByteStrings
    <3> QED BY <2>1, <3>1, Zenon
  <2>5. ASSUME Lies(o, w) PROVE Takes(r, o, w, text)
    <3>1. 0 \in 0 .. 255
      OBVIOUS
    <3>2. Lies(o, Led(0, b))
      BY <2>3, <2>5, Zenon
    <3>3. CanRead(o, 1) /\ ByteAt(o) = 0
      BY <3>1, <3>2, LiesByte
    <3> QED BY <1>5, <2>1, <2>4, <3>3 DEF Takes
  <2> QED BY <1>3, <1>4, <2>4, <2>5 DEF w, text
<1>7. CASE Len(v) # 0
  <2>1. Len(v) = 1
    <3>1. PICK n \in Nat : n = Len(v)
      BY LenProperties
    <3> QED BY <1>7, <3>1
  <2>2. v[1] \in AuthorityValue
    <3>1. 1 \in 1 .. Len(v)
      BY <2>1
    <3> QED BY <3>1, ElementOfSeq
  <2>3. PICK b \in ByteStrings : b = AuthorityBytes(v[1])
    BY <2>2, AuthorityTakes
  <2>4. w = Led(1, b) /\ text = AuthorityText(v[1])
    BY <1>1, <1>7, <2>3 DEF Led
  <2>5. w \in ByteStrings
    <3>1. PICK one \in ByteStrings : one = <<1>>
      <4>1. <<1>> \in ByteStrings
        BY DEF ByteStrings
      <4> QED BY <4>1, Zenon
    <3> QED BY <2>4, <3>1, JoinedType DEF Led
  <2>6. ASSUME Lies(o, w) PROVE Takes(r, o, w, text)
    <3>1. 1 \in 0 .. 255 /\ o + 1 \in Nat
      OBVIOUS
    <3>2. Lies(o, Led(1, b))
      BY <2>4, <2>6, Zenon
    <3>3. CanRead(o, 1) /\ ByteAt(o) = 1 /\ Lies(o + 1, b) /\ Len(Led(1, b)) = 1 + Len(b)
      BY <3>1, <3>2, LiesByte
    <3>4. Takes(authority, o + 1, b, AuthorityText(v[1]))
      BY <1>2, <2>2, <2>3, <3>1, <3>3, AuthorityTakes
    <3>5. authority.ok /\ authority.offset = o + 1 + Len(b) /\ authority.shown = text
      BY <2>4, <3>4 DEF Takes
    <3>6. o + 1 + Len(b) = o + Len(w)
      <4>1. PICK n \in Nat : n = Len(b)
        BY LenProperties
      <4>2. Len(w) = 1 + n
        BY <2>4, <3>3, <4>1, Zenon
      <4> QED BY <4>1, <4>2
    <3>7. r.ok /\ r.offset = authority.offset /\ r.shown = authority.shown
      <4>1. ByteAt(o) # 0
        BY <3>3
      <4> QED BY <1>5, <3>3, <3>5, <4>1, Zenon
    <3> QED BY <3>5, <3>6, <3>7, Zenon DEF Takes
  <2> QED BY <1>3, <1>4, <2>5, <2>6 DEF w, text
<1> QED BY <1>6, <1>7

\* A decoder succeeds with these bytes and nothing behind them.
Reaches(r, o, w) == r.ok /\ r.offset = o + Len(w)

\* One beneficiary behind others
LEMMA BeneficiaryReaches ==
  ASSUME buf \in ByteStrings, NEW x \in Nat, NEW a \in Account, NEW before,
         before.ok, before.offset = x, Lies(x, AccountBytes(a))
  PROVE  Reaches(NextBeneficiary(before), x, AccountBytes(a))
<1>1. a.who \in NameFor(MAX_ACCOUNT_NAME_LEN) /\ a.weight \in Wide(2)
  BY DEF Account
<1>2. PICK who \in ByteStrings :
        who = a.who /\ Len(who) < 256 /\ Len(who) < MAX_ACCOUNT_NAME_LEN
  BY <1>1, NameType
<1>3. PICK n \in 0 .. 255 : n = Len(who)
  BY <1>2, ShortLength
<1>4. PICK weight \in ByteStrings : weight = a.weight /\ Len(weight) = 2
  BY <1>1, WideType
<1>5. PICK chars \in ByteStrings : chars = Chars(who) /\ Len(chars) = 1 + Len(who)
  BY <1>2, CharsType
<1>6. AccountBytes(a) = chars \o weight
  BY <1>2, <1>4, <1>5 DEF AccountBytes
<1>7. Lies(x, chars \o weight)
  BY <1>6, Zenon
<1>8. Lies(x, chars) /\ Lies(x + Len(chars), weight) /\ Len(chars \o weight) = Len(chars) + Len(weight)
  BY <1>7, LiesParts, SMTT(30)
<1>9. chars = Led(n, who)
  BY <1>3, <1>5 DEF Chars, Led
<1>10. Lies(x, Led(n, who))
  BY <1>8, <1>9, Zenon
<1>11. CanRead(x, 1) /\ ByteAt(x) = n /\ Lies(x + 1, who)
  BY <1>10, LiesByte
<1>12. PICK p \in Nat : p = x + 1
  OBVIOUS
<1>13. CanRead(p, n)
  BY <1>3, <1>11, <1>12, LiesBytes, SMTT(30)
<1>14. PICK at \in Nat : at = p + n /\ at = x + Len(chars)
  <2>1. Len(chars) = 1 + n
    BY <1>3, <1>5, Zenon
  <2>2. p + n \in Nat /\ p + n = x + (1 + n)
    BY <1>12
  <2> QED BY <2>1, <2>2, Zenon
<1>15. CanRead(at, 2)
  <2>1. Lies(at, weight)
    BY <1>8, <1>14, Zenon
  <2>2. 2 = Len(weight)
    BY <1>4
  <2> QED BY <2>1, <2>2, LiesBytes
<1>16. NextBeneficiary(before) = Beneficiary(before, n)
  BY <1>11 DEF NextBeneficiary
<1>17. PICK r : r = Beneficiary(before, n)
  OBVIOUS
<1>18. n <= MAX_ACCOUNT_NAME_LEN
  BY <1>2, <1>3 DEF MAX_ACCOUNT_NAME_LEN
<1>19. /\ r.ok = (before.ok /\ CanRead(x, 1) /\ n <= MAX_ACCOUNT_NAME_LEN /\ CanRead(p, n)
                    /\ CanRead(at, 2))
       /\ r.offset = at + 2
  BY <1>12, <1>14, <1>17 DEF Beneficiary, Fixed
<1>20. at + 2 = x + Len(AccountBytes(a))
  <2>1. Len(AccountBytes(a)) = Len(chars) + 2
    BY <1>4, <1>6, <1>8, Zenon
  <2>2. Len(chars) = 1 + n
    BY <1>3, <1>5
  <2> QED BY <1>14, <2>1, <2>2
<1>21. r.ok /\ r.offset = x + Len(AccountBytes(a))
  BY <1>11, <1>13, <1>15, <1>18, <1>19, <1>20
<1> QED BY <1>16, <1>17, <1>21 DEF Reaches

\* All of them
LEMMA BeneficiariesReach ==
  ASSUME buf \in ByteStrings, NEW o \in Nat, NEW v \in Short(Account),
         NEW n \in Nat, n = Len(v), NEW pieces \in Seq(ByteStrings), n = Len(pieces),
         \A i \in 1 .. n : pieces[i] = AccountBytes(v[i]),
         Lies(o, FlattenSeq(pieces))
  PROVE  Reaches(Beneficiaries(o, n), o, FlattenSeq(pieces))
<1> DEFINE start == [ok |-> TRUE, offset |-> o, shown |-> <<>>,
                     room |-> [k \in 1 .. MAX_ACCOUNT_NAME_LEN |-> 0]]
           run == CHOOSE f : IsList(f, n, start)
<1>1. IsList(run, n, start)
  <2>1. \E f : IsList(f, n, start)
    BY BeneficiariesExist
  <2> QED BY <2>1
<1>2. Beneficiaries(o, n) = run[n]
  BY DEF Beneficiaries, IsList
<1>3. start.ok /\ start.offset = o
  OBVIOUS
<1> HIDE DEF run, start
<1>4. PICK at \in [0 .. n -> Nat] :
        /\ at[0] = o /\ at[n] = o + Len(FlattenSeq(pieces))
        /\ \A i \in 1 .. n : Lies(at[i - 1], pieces[i]) /\ at[i] = at[i - 1] + Len(pieces[i])
  <2>1. \E at \in [0 .. Len(pieces) -> Nat] :
          /\ at[0] = o /\ at[Len(pieces)] = o + Len(FlattenSeq(pieces))
          /\ \A i \in 1 .. Len(pieces) :
               Lies(at[i - 1], pieces[i]) /\ at[i] = at[i - 1] + Len(pieces[i])
    BY PlacesLie
  <2> QED BY <2>1, Zenon
<1>5. \A i \in 1 .. n : v[i] \in Account
  BY ShortType
<1> DEFINE So(k) == run[k].ok /\ run[k].offset = at[k]
           Bad == {k \in 0 .. n : ~So(k)}
<1>6. So(0)
  <2>1. run[0] = start
    BY <1>1 DEF IsList
  <2> QED BY <1>3, <1>4, <2>1
<1>7. ASSUME NEW k \in 1 .. n, So(k - 1) PROVE So(k)
  <2>1. k \in 0 .. n /\ k # 0 /\ k - 1 \in 0 .. n
    OBVIOUS
  <2>2. run[k] = NextBeneficiary(run[k - 1])
    BY <1>1, <2>1 DEF IsList
  <2>3. PICK x \in Nat : x = at[k - 1]
    BY <1>4, <2>1
  <2>4. PICK before : before = run[k - 1]
    OBVIOUS
  <2>5. before.ok /\ before.offset = x
    BY <1>7, <2>3, <2>4
  <2>6. Lies(x, AccountBytes(v[k])) /\ v[k] \in Account
    BY <1>4, <1>5, <2>3
  <2>7. Reaches(NextBeneficiary(before), x, AccountBytes(v[k]))
    BY <2>5, <2>6, BeneficiaryReaches
  <2>8. run[k].ok /\ run[k].offset = x + Len(pieces[k])
    BY <2>2, <2>4, <2>7 DEF Reaches
  <2> QED BY <1>4, <2>3, <2>8
<1>8. Bad = {}
  <2> SUFFICES ASSUME Bad # {} PROVE FALSE
    OBVIOUS
  <2>1. PICK k \in Bad : \A m \in Bad : k <= m
    <3>1. Bad \subseteq Nat
      OBVIOUS
    <3> HIDE DEF Bad
    <3> QED BY <3>1, LeastNumber
  <2>2. k \in 0 .. n /\ ~So(k)
    OBVIOUS
  <2> HIDE DEF So
  <2>3. k # 0
    BY <1>6, <2>2
  <2>4. k - 1 \in 0 .. n /\ k \in 1 .. n /\ ~(k <= k - 1)
    BY <2>2, <2>3
  <2>5. So(k - 1)
    BY <2>1, <2>4
  <2> QED BY <1>7, <2>2, <2>4, <2>5
<1>9. So(n)
  <2> HIDE DEF So
  <2>1. n \in 0 .. n
    OBVIOUS
  <2> QED BY <1>8, <2>1
<1>10. run[n].ok /\ run[n].offset = o + Len(FlattenSeq(pieces))
  BY <1>4, <1>9
<1> QED BY <1>2, <1>10 DEF Reaches

\* The extensions that hold them
LEMMA ExtensionsReach ==
  ASSUME buf \in ByteStrings, NEW o \in Nat, NEW v \in Short(Account)
  PROVE  /\ FieldBytes("beneficiaries", v) \in ByteStrings
         /\ Lies(o, FieldBytes("beneficiaries", v)) =>
              Reaches(BeneficiariesExtensions(o), o, FieldBytes("beneficiaries", v))
<1> DEFINE w == FieldBytes("beneficiaries", v)
<1>1. w = IF Len(v) = 0 THEN <<0>> ELSE <<1>> \o (<<0>> \o Counted(AccountItems(v)))
  BY DEF FieldBytes
<1> HIDE DEF w
<1>2. PICK accounts : accounts = Beneficiaries(o + 3, ByteAt(o + 2))
  OBVIOUS
<1>3. PICK r : r = ExtensionsOf(o, accounts)
  OBVIOUS
<1>4. BeneficiariesExtensions(o) = r
  BY <1>2, <1>3 DEF BeneficiariesExtensions
<1>5. /\ r.ok = (/\ CanRead(o, 1)
                 /\ \/ ByteAt(o) = 0
                    \/ ByteAt(o) = 1 /\ CanRead(o + 1, 2) /\ ByteAt(o + 1) = 0 /\ accounts.ok)
      /\ r.offset = IF ByteAt(o) = 0 THEN o + 1 ELSE accounts.offset
  BY <1>3 DEF ExtensionsOf
<1>6. CASE Len(v) = 0
  <2>1. w = <<0>>
    BY <1>1, <1>6
  <2>2. PICK b \in ByteStrings : b = <<>>
    BY EmptySeq DEF ByteStrings
  <2>3. w = Led(0, b)
    <3>1. <<0>> \o <<>> = <<0>>
      OBVIOUS
    <3> QED BY <2>1, <2>2, <3>1, Zenon DEF Led
  <2>4. w \in ByteStrings /\ Len(w) = 1
    <3>1. <<0>> \in ByteStrings /\ Len(<<0>>) = 1
      BY DEF ByteStrings
    <3> QED BY <2>1, <3>1, Zenon
  <2>5. ASSUME Lies(o, w) PROVE Reaches(r, o, w)
    <3>1. 0 \in 0 .. 255
      OBVIOUS
    <3>2. Lies(o, Led(0, b))
      BY <2>3, <2>5, Zenon
    <3>3. CanRead(o, 1) /\ ByteAt(o) = 0
      BY <3>1, <3>2, LiesByte
    <3> QED BY <1>5, <2>4, <3>3 DEF Reaches
  <2> QED BY <1>4, <2>4, <2>5 DEF w
<1>7. CASE Len(v) # 0
  <2>1. PICK n \in 0 .. 255 : n \in Nat /\ n = Len(v) /\ \A i \in 1 .. n : v[i] \in Account
    BY ShortCount, Zenon
  <2>2. n \in Nat /\ \A i \in 1 .. n : v[i] \in Account
    BY <2>1, Zenon
  <2>3. PICK pieces : pieces = AccountItems(v)
    OBVIOUS
  <2>4. pieces = [i \in 1 .. n |-> AccountBytes(v[i])]
    BY <2>1, <2>3 DEF AccountItems
  <2>5. \A i \in 1 .. n : pieces[i] = AccountBytes(v[i]) /\ pieces[i] \in ByteStrings
    BY <2>2, <2>4, AccountTakes
  <2>6. Sized(n, pieces)
    BY <2>4 DEF Sized
  <2>7. pieces \in Seq(ByteStrings) /\ Len(pieces) = n
    BY <2>2, <2>5, <2>6, ItemsType
  <2>8. PICK flat \in ByteStrings : flat = FlattenSeq(pieces)
    BY <2>7, FlatBytes
  <2>9. PICK c \in ByteStrings : c = Counted(pieces)
    BY <2>7, CountedType
  <2>10. c = Led(n, flat)
    BY <2>7, <2>8, <2>9 DEF Counted, Led
  <2>11. PICK zero \in ByteStrings : zero = <<0>>
    <3>1. <<0>> \in ByteStrings
      BY DEF ByteStrings
    <3> QED BY <3>1, Zenon
  <2>12. PICK b \in ByteStrings : b = Led(0, c)
    BY <2>11, JoinedType DEF Led
  <2>13. PICK one \in ByteStrings : one = <<1>>
    <3>1. <<1>> \in ByteStrings
      BY DEF ByteStrings
    <3> QED BY <3>1, Zenon
  <2>14. w = Led(1, b)
    BY <1>1, <1>7, <2>3, <2>9, <2>12 DEF Led
  <2>15. w \in ByteStrings
    BY <2>13, <2>14, JoinedType DEF Led
  <2>16. ASSUME Lies(o, w) PROVE Reaches(r, o, w)
    <3>1. 0 \in 0 .. 255 /\ 1 \in 0 .. 255
      OBVIOUS
    <3>2. Lies(o, Led(1, b))
      BY <2>14, <2>16, Zenon
    <3>3. CanRead(o, 1) /\ ByteAt(o) = 1 /\ Lies(o + 1, b) /\ Len(Led(1, b)) = 1 + Len(b)
      BY <3>1, <3>2, LiesByte
    <3>4. PICK p \in Nat : p = o + 1
      OBVIOUS
    <3>5. Lies(p, Led(0, c))
      BY <2>12, <3>3, <3>4
    <3>6. ByteAt(p) = 0 /\ Lies(p + 1, c) /\ Len(Led(0, c)) = 1 + Len(c)
      BY <3>1, <3>5, LiesByte
    <3>7. PICK q \in Nat : q = p + 1
      OBVIOUS
    <3>8. Lies(q, Led(n, flat))
      BY <2>10, <3>6, <3>7
    <3>9. /\ CanRead(q, 1) /\ ByteAt(q) = n /\ Lies(q + 1, flat)
          /\ Len(Led(n, flat)) = 1 + Len(flat)
      BY <3>8, LiesByte
    <3>10. PICK from \in Nat : from = q + 1
      OBVIOUS
    <3>11. Reaches(Beneficiaries(from, n), from, FlattenSeq(pieces))
      <4>1. Lies(from, FlattenSeq(pieces))
        BY <2>8, <3>9, <3>10
      <4> QED BY <2>1, <2>2, <2>5, <2>7, <4>1, BeneficiariesReach
    <3>12. o + 3 = from /\ o + 2 = q
      BY <3>4, <3>7, <3>10
    <3>13. accounts = Beneficiaries(from, n)
      BY <1>2, <3>9, <3>12
    <3>14. accounts.ok /\ accounts.offset = from + Len(flat)
      BY <2>8, <3>11, <3>13 DEF Reaches
    <3>15. CanRead(p, 2)
      <4>1. Len(buf) \in Nat
        BY LenProperties
      <4> QED BY <3>7, <3>9, <4>1 DEF CanRead
    <3>16. r.ok
      BY <1>5, <3>3, <3>4, <3>6, <3>14, <3>15
    <3>17. r.offset = accounts.offset
      <4>1. ByteAt(o) # 0
        BY <3>3
      <4> QED BY <1>5, <4>1
    <3>18. from + Len(flat) = o + Len(w)
      <4>1. PICK m \in Nat : m = Len(flat)
        BY LenProperties DEF ByteStrings
      <4>2. Len(c) = 1 + m
        BY <2>10, <3>9, <4>1, Zenon
      <4>3. Len(b) = 1 + (1 + m)
        BY <2>12, <3>6, <4>2, Zenon
      <4>4. Len(w) = 1 + (1 + (1 + m))
        BY <2>14, <3>3, <4>3, Zenon
      <4>5. from = o + 3
        BY <3>12
      <4>6. from + m = o + (1 + (1 + (1 + m)))
        BY <4>5
      <4> QED BY <4>1, <4>4, <4>6, Zenon
    <3> QED BY <3>14, <3>16, <3>17, <3>18 DEF Reaches
  <2> QED BY <1>4, <2>15, <2>16 DEF w
<1> QED BY <1>6, <1>7

\* A byte, and as many bytes as a number has
LEMMA OneTakes ==
  ASSUME buf \in ByteStrings, NEW o \in Nat, NEW n \in Nat, NEW w \in Wide(n), Lies(o, w)
  PROVE  /\ Bytes(o, n) = w /\ (n = 1 => ByteAt(o) = w[1])
         /\ \A text : Takes(Fixed(o, n, text), o, w, text)
<1>1. w \in ByteStrings /\ n = Len(w)
  BY WideType
<1>2. Bytes(o, n) = w /\ CanRead(o, n)
  BY <1>1, LiesBytes
<1>3. ASSUME n = 1 PROVE ByteAt(o) = w[1]
  <2>1. 1 \in 1 .. Len(w)
    BY <1>1, <1>3
  <2>2. o + 1 <= Len(buf) /\ buf[o + 1] = w[1]
    BY <1>1, <1>3, <2>1 DEF Lies
  <2>3. Len(buf) \in Nat
    BY LenProperties
  <2> QED BY <1>2, <1>3, <2>2, <2>3 DEF ByteAt
<1>4. \A text : Takes(Fixed(o, n, text), o, w, text)
  BY <1>1, FixedTakes
<1> QED BY <1>2, <1>3, <1>4

\* A field of fixed width: one of these kinds
Plain == {"operation_name", "boolean", "date_time", "public_key", "asset", "weight",
          "uint32", "uint16"}

\* ... is its bytes.
LEMMA PlainValue ==
  ASSUME NEW kind \in Plain, NEW v \in FieldValues(kind)
  PROVE  /\ Width[kind] \in Nat /\ v \in Wide(Width[kind])
         /\ FieldBytes(kind, v) = v /\ v \in ByteStrings
<1>1. Width[kind] \in Nat
  BY DEF Plain, Width, PUBKEY_COMPRESSED_LEN, ASSET_LEN
<1>2. FieldValues(kind) = Wide(Width[kind])
  BY DEF Plain, FieldValues
<1>3. FieldBytes(kind, v) = v
  BY DEF Plain, FieldBytes
<1>4. v \in ByteStrings
  BY <1>1, <1>2, WideType
<1> QED BY <1>1, <1>2, <1>3, <1>4

\* Its decoder reads them.
LEMMA PlainTakes ==
  ASSUME buf \in ByteStrings, NEW o \in Nat, NEW kind \in Plain, NEW v \in FieldValues(kind),
         Lies(o, v)
  PROVE  Takes(Decode(kind, o), o, v, FieldText(kind, v))
<1>1. PICK n \in Nat : n = Width[kind] /\ v \in Wide(n)
  BY PlainValue
<1>2. /\ Bytes(o, n) = v /\ (n = 1 => ByteAt(o) = v[1])
      /\ \A text : Takes(Fixed(o, n, text), o, v, text)
  BY <1>1, OneTakes
<1> SUFFICES Decode(kind, o) = Fixed(o, n, FieldText(kind, v))
  BY <1>2
<1>3. CASE kind = "operation_name"
  BY <1>1, <1>2, <1>3 DEF Decode, OperationName, FieldText, Width
<1>4. CASE kind = "boolean"
  BY <1>1, <1>2, <1>4 DEF Decode, FieldText, Width
<1>5. CASE kind = "date_time"
  BY <1>1, <1>2, <1>5 DEF Decode, FieldText, Width
<1>6. CASE kind = "public_key"
  BY <1>1, <1>2, <1>6 DEF Decode, PublicKey, FieldText, Width
<1>7. CASE kind = "asset"
  BY <1>1, <1>2, <1>7 DEF Decode, AssetField, FieldText, Width
<1>8. CASE kind = "weight"
  BY <1>1, <1>2, <1>8 DEF Decode, Weight, FieldText, Width
<1>9. CASE kind = "uint32"
  BY <1>1, <1>2, <1>9 DEF Decode, Uint32, FieldText, Width
<1>10. CASE kind = "uint16"
  BY <1>1, <1>2, <1>10 DEF Decode, Uint16, FieldText, Width
<1> QED BY <1>3, <1>4, <1>5, <1>6, <1>7, <1>8, <1>9, <1>10 DEF Plain

\* What a client writes of a value are bytes.
LEMMA FieldBytesType ==
  ASSUME NEW kind \in Kinds, NEW v \in FieldValues(kind), buf \in ByteStrings
  PROVE  FieldBytes(kind, v) \in ByteStrings
<1>0. 0 \in Nat
  OBVIOUS
<1>1. CASE kind \in Plain
  BY <1>1, PlainValue
<1>2. CASE kind = "string"
  <2>1. v \in Short(0 .. 255) /\ FieldBytes(kind, v) = Chars(v)
    BY <1>2 DEF FieldValues, FieldBytes, Byte
  <2>2. v \in ByteStrings /\ Len(v) < 256
    BY <2>1, ShortType DEF ByteStrings
  <2> QED BY <2>1, <2>2, CharsType
<1>3. CASE kind = "array_of_strings"
  <2>1. v \in Short(NameFor(TMP_LEN)) /\ FieldBytes(kind, v) = Counted(NameItems(v))
    BY <1>3 DEF FieldValues, FieldBytes
  <2> QED BY <1>0, <2>1, StringsTake
<1>4. CASE kind = "array_of_u64"
  <2>1. v \in Short(Wide(8)) /\ FieldBytes(kind, v) = Counted(v)
    BY <1>4 DEF FieldValues, FieldBytes
  <2> QED BY <1>0, <2>1, NumbersTake
<1>5. CASE kind = "authority"
  <2>1. v \in AuthorityValue /\ FieldBytes(kind, v) = AuthorityBytes(v)
    BY <1>5 DEF FieldValues, FieldBytes
  <2> QED BY <1>0, <2>1, AuthorityTakes
<1>6. CASE kind = "optional_authority"
  <2>1. v \in Seq(AuthorityValue) /\ Len(v) <= 1
    BY <1>6 DEF FieldValues
  <2> QED BY <1>0, <1>6, <2>1, OptionalTakes
<1>7. CASE kind = "empty_extensions"
  <2>1. FieldBytes(kind, v) = <<0>>
    BY <1>7 DEF FieldValues, FieldBytes
  <2> QED BY <2>1 DEF ByteStrings
<1>8. CASE kind = "beneficiaries"
  <2>1. v \in Short(Account)
    BY <1>8 DEF FieldValues
  <2> QED BY <1>0, <1>8, <2>1, ExtensionsReach
<1> QED BY <1>1, <1>2, <1>3, <1>4, <1>5, <1>6, <1>7, <1>8 DEF Kinds, Plain

\* Whatever decoder: it reads what a client writes of a value, and shows the
\* value, if its text is one the program ends itself.
LEMMA DecodeTakes ==
  ASSUME buf \in ByteStrings, NEW o \in Nat, NEW kind \in Kinds, NEW v \in FieldValues(kind),
         Lies(o, FieldBytes(kind, v))
  PROVE  /\ Reaches(Decode(kind, o), o, FieldBytes(kind, v))
         /\ kind # "beneficiaries" /\ TextEnds(kind, v)
              => Decode(kind, o).shown = FieldText(kind, v)
<1> DEFINE w == FieldBytes(kind, v)
           text == FieldText(kind, v)
           r == Decode(kind, o)
<1> SUFFICES (kind = "beneficiaries" /\ Reaches(r, o, w)) \/ Takes(r, o, w, text)
  BY DEF Reaches, Takes
<1>1. CASE kind \in Plain
  <2>1. w = v
    BY <1>1, PlainValue
  <2> QED BY <1>1, <2>1, PlainTakes
<1>2. CASE kind = "string"
  <2>1. v \in Short(0 .. 255) /\ w = Chars(v) /\ text = StringText(v) /\ r = String(o)
    BY <1>2 DEF FieldValues, FieldBytes, FieldText, Decode, Byte
  <2>2. v \in ByteStrings /\ Len(v) < 256
    BY <2>1, ShortType DEF ByteStrings
  <2>3. Takes(String(o), o, Chars(v), StringText(v))
    BY <2>1, <2>2, StringTakes
  <2> QED BY <2>1, <2>3
<1>3. CASE kind = "array_of_strings"
  <2>1. /\ v \in Short(NameFor(TMP_LEN)) /\ w = Counted(NameItems(v)) /\ r = ArrayOfStrings(o)
        /\ text = Cut(Bracketed([i \in 1 .. Len(v) |-> StringText(v[i])]), LIST_ROOM)
    BY <1>3 DEF FieldValues, FieldBytes, FieldText, Decode
  <2> QED BY <2>1, StringsTake
<1>4. CASE kind = "array_of_u64"
  <2>1. /\ v \in Short(Wide(8)) /\ w = Counted(v) /\ r = ArrayOfUint64(o)
        /\ text = Value(Bracketed([i \in 1 .. Len(v) |-> Unsigned(v[i])]))
    BY <1>4 DEF FieldValues, FieldBytes, FieldText, Decode
  <2> QED BY <2>1, NumbersTake
<1>5. CASE kind = "authority"
  <2>1. /\ v \in AuthorityValue /\ w = AuthorityBytes(v) /\ r = Authority(o)
        /\ text = AuthorityText(v)
    BY <1>5 DEF FieldValues, FieldBytes, FieldText, Decode
  <2> QED BY <2>1, AuthorityTakes
<1>6. CASE kind = "optional_authority"
  <2>1. v \in Seq(AuthorityValue) /\ Len(v) <= 1 /\ r = OptionalAuthority(o)
    BY <1>6 DEF FieldValues, Decode
  <2> QED BY <1>6, <2>1, OptionalTakes
<1>7. CASE kind = "empty_extensions"
  <2>1. w = <<0>> /\ text = "[ ]" /\ r = EmptyExtensions(o)
    BY <1>7 DEF FieldValues, FieldBytes, FieldText, Decode
  <2>2. PICK b \in ByteStrings : b = <<>>
    BY EmptySeq DEF ByteStrings
  <2>3. w = Led(0, b) /\ Len(w) = 1
    <3>1. <<0>> \o <<>> = <<0>> /\ Len(<<0>>) = 1
      OBVIOUS
    <3> QED BY <2>1, <2>2, <3>1, Zenon DEF Led
  <2>4. 0 \in 0 .. 255
    OBVIOUS
  <2>5. Lies(o, Led(0, b))
    BY <2>3, Zenon
  <2>6. CanRead(o, 1) /\ ByteAt(o) = 0
    BY <2>4, <2>5, LiesByte
  <2>7. r.ok /\ r.offset = o + 1 /\ r.shown = "[ ]"
    <3>1. /\ EmptyExtensions(o).ok = (CanRead(o, 1) /\ ByteAt(o) = 0)
          /\ EmptyExtensions(o).offset = o + 1 /\ EmptyExtensions(o).shown = "[ ]"
      BY DEF EmptyExtensions
    <3> QED BY <2>1, <2>6, <3>1, Zenon
  <2> QED BY <2>1, <2>3, <2>7 DEF Takes
<1>8. CASE kind = "beneficiaries"
  <2>1. v \in Short(Account) /\ r = BeneficiariesExtensions(o)
    BY <1>8 DEF FieldValues, Decode
  <2> QED BY <1>8, <2>1, ExtensionsReach
<1> QED BY <1>1, <1>2, <1>3, <1>4, <1>5, <1>6, <1>7, <1>8 DEF Kinds, Plain

\* The fields of an operation, one behind the other
LEMMA LaidType ==
  ASSUME buf \in ByteStrings, NEW kinds \in Seq(Kinds), NEW values,
         \A k \in 1 .. Len(kinds) : values[k] \in FieldValues(kinds[k])
  PROVE  Laid(kinds, values) \in Seq(ByteStrings) /\ Len(Laid(kinds, values)) = Len(kinds)
<1>1. PICK n \in Nat : n = Len(kinds)
  BY LenProperties
<1>2. PICK f : f = Laid(kinds, values)
  OBVIOUS
<1>3. f = [k \in 1 .. n |-> FieldBytes(kinds[k], values[k])]
  BY <1>1, <1>2 DEF Laid
<1>4. ASSUME NEW k \in 1 .. n PROVE f[k] \in ByteStrings
  <2>1. kinds[k] \in Kinds /\ values[k] \in FieldValues(kinds[k])
    BY <1>1, ElementOfSeq
  <2>2. FieldBytes(kinds[k], values[k]) \in ByteStrings
    BY <2>1, FieldBytesType
  <2> QED BY <1>3, <2>2
<1>5. Sized(n, f)
  BY <1>3 DEF Sized
<1>6. f \in Seq(ByteStrings) /\ Len(f) = n
  BY <1>4, <1>5, ItemsType
<1> QED BY <1>1, <1>2, <1>6
===============================================================================

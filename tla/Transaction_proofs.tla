-------------------------- MODULE Transaction_proofs --------------------------
(***************************************************************************)
(* About a request byte by byte, for every request and whatever lies in    *)
(* memory around it.                                                       *)
(*                                                                         *)
(* A transaction whose fields are read has an own path only if all of the  *)
(* path stands before them.  bip32_path_read looks where an element        *)
(* begins, so a path may reach behind the request; buffer_seek_cur then    *)
(* leaves the offset where the path begins.  The argument is that the      *)
(* first byte of an own path is then taken for a tag, and is none.         *)
(*                                                                         *)
(* The decoders hash the bytes of the operation once and in order, and a   *)
(* field that is shown is read again from the bytes that were hashed in    *)
(* its turn.  The argument is that each decoder goes on where the one      *)
(* before it ended, in the first pass and, by induction on the fields, in  *)
(* the second; Operation_proofs has what each decoder reads.               *)
(*                                                                         *)
(* A transaction that is serialised as it should be is accepted, all of    *)
(* its operation is signed, and each of its values is shown.  The argument *)
(* is that its seven fields lie where buffer_read_tlv comes to them, and   *)
(* in the operation each value lies where its decoder comes to it.         *)
(***************************************************************************)
EXTENDS Transaction, Operation_proofs

\* A byte of a request is one.
LEMMA RawByte ==
  ASSUME NEW q \in Requests, NEW i \in 1 .. Len(q.bytes)
  PROVE  q.bytes[i] \in 0 .. 255
<1>1. q.bytes \in Seq(0 .. 255)
  BY TransactionAssumption
<1> QED BY <1>1, ElementOfSeq, SMTT(30)

\* A request has a size.
LEMMA SizeType ==
  ASSUME request \in Requests
  PROVE  Size \in Nat /\ Size >= 1
<1>1. request.bytes \in Seq(0 .. 255) /\ request.bytes # <<>>
  BY TransactionAssumption
<1> QED BY <1>1 DEF Size, raw

\* A field that is read has a length, and what lies behind it is not before it
\* and not behind the request.
LEMMA TlvGoesOn ==
  ASSUME request \in Requests, NEW o \in Nat, TlvReads(o)
  PROVE  TlvEnd(o) \in o .. Size /\ FieldLength(o) \in Nat
<1>1. Size \in Nat
  BY SizeType
<1>2. /\ Size - o >= 2 /\ LengthBytes(o) <= 4 /\ Size - (o + 2) >= LengthBytes(o)
  BY DEF TlvReads, HasHead, Left
<1>3. o + 2 \in 1 .. Len(request.bytes)
  BY <1>1, <1>2 DEF Size, raw
<1>4. raw[o + 2] \in 0 .. 255
  BY <1>3, RawByte DEF raw
<1>5. LengthBytes(o) \in 0 .. 127
  BY <1>4 DEF LengthBytes
<1>6. FieldLength(o) \in Nat
  <2>1. CASE raw[o + 2] <= 127
    BY <1>4, <2>1 DEF FieldLength
  <2>2. CASE raw[o + 2] > 127
    <3> DEFINE n == LengthBytes(o)
               digit(k) == IF k < n THEN raw[o + 2 + n - k] ELSE 0
    <3>1. n \in 0 .. 127 /\ o + 2 + n <= Len(request.bytes) /\ Len(request.bytes) \in Nat
      <4>1. Len(request.bytes) = Size
        BY DEF Size, raw
      <4>2. n \in 0 .. 127 /\ Size - (o + 2) >= n
        BY <1>2, <1>5
      <4> HIDE DEF n
      <4> QED BY <1>1, <4>1, <4>2
    <3>2. ASSUME NEW k \in 0 .. 3 PROVE digit(k) \in 0 .. 255
      <4> HIDE DEF n
      <4>1. CASE k < n
        <5>1. o + 2 + n - k \in 1 .. Len(request.bytes)
          BY <3>1, <4>1
        <5> QED BY <4>1, <5>1, RawByte DEF raw
      <4> QED BY <4>1
    <3>3. LongLength(o + 2, n) \in Nat
      <4> DEFINE fourth == IF digit(3) = 0 THEN 0 ELSE 16777216
      <4>1. digit(0) \in Nat /\ digit(1) \in Nat /\ digit(2) \in Nat
        BY <3>2
      <4>2. fourth \in Nat
        OBVIOUS
      <4>3. LongLength(o + 2, n) = digit(0) + 256 * digit(1) + 65536 * digit(2) + fourth
        BY DEF LongLength
      <4> HIDE DEF digit, fourth
      <4> QED BY <4>1, <4>2, <4>3
    <3> QED BY <2>2, <3>3 DEF FieldLength
  <2> QED BY <1>4, <2>1, <2>2
<1>7. Taken(FieldLength(o)) \in 0 .. 255
  BY <1>6 DEF Taken
<1>8. TlvEnd(o) = o + 2 + LengthBytes(o) + Taken(FieldLength(o))
  BY DEF TlvEnd, Body
<1>9. Size - (o + 2 + LengthBytes(o)) >= Taken(FieldLength(o))
  BY DEF TlvReads, Body, Left
<1>10. \A m \in 0 .. 127, t \in 0 .. 255 :
         Size - (o + 2 + m) >= t => o + 2 + m + t \in o .. Size
  BY <1>1
<1> QED BY <1>5, <1>6, <1>7, <1>8, <1>9, <1>10

\* A path as it was read: its elements follow the first byte in memory.
AsRead(p) == Len(p) \in 1 .. MAX_BIP32_PATH /\ p = [i \in 1 .. Len(p) |-> Element(i)]

\* All of a path lies in the request, and before the offset.
InFront(p) == 1 + 4 * Len(p) <= Size /\ 1 + 4 * Len(p) <= offset

PathInv ==
  /\ request \in Requests
  /\ offset \in Nat /\ fields \in 0 .. 7
  /\ phase \in {"path", "digest"} => fields = 0
  /\ phase \in {"arrived", "hashing", "hashed"} => fields = 6
  /\ path # <<>> => AsRead(path)
  /\ phase = "fields" /\ fields = 0 => AsRead(path) /\ offset = BehindPath(Len(path))
  /\ Own(path) /\ fields > 0 => InFront(path)

\* Nothing is read when a request arrives.
LEMMA PathInit == Init => PathInv
BY DEF Init, PathInv, Own

\* The path is read as it is, and the offset is behind it or at its beginning.
LEMMA ReadPathStep == PathInv /\ ReadPath => PathInv'
<1> SUFFICES ASSUME PathInv, ReadPath PROVE PathInv'
  OBVIOUS
<1>1. Size \in Nat /\ Size >= 1
  BY SizeType DEF PathInv
<1>2. fields = 0 /\ fields' = 0 /\ request' = request /\ around' = around /\ phase = "path"
  BY DEF ReadPath, PathInv
<1>3. CASE phase' = "refused" /\ path' = path /\ offset' = offset
  BY <1>2, <1>3 DEF PathInv, AsRead, Element, Memory, IsTransaction, Size, raw
<1>4. CASE /\ PathReads(raw[1])
           /\ path' = [i \in 1 .. raw[1] |-> Element(i)]
           /\ offset' = BehindPath(raw[1])
           /\ phase' \in {"fields", "digest", "accepted"}
  <2>1. raw[1] \in 1 .. MAX_BIP32_PATH
    BY <1>4 DEF PathReads
  <2>2. Len(path') = raw[1]
    BY <1>4, <2>1 DEF MAX_BIP32_PATH
  <2>3. AsRead(path')
    BY <1>4, <2>1, <2>2 DEF AsRead
  <2>4. /\ AsRead(path)' /\ offset' = BehindPath(Len(path))'
    BY <1>2, <1>4, <2>2, <2>3 DEF AsRead, Element, Memory, IsTransaction, Size, raw, BehindPath
  <2>5. offset' \in Nat
    BY <1>1, <1>4, <2>1 DEF BehindPath, MAX_BIP32_PATH
  <2>6. ~(fields' > 0)
    BY <1>2
  <2>7. phase' = "digest" => fields' = 0
    BY <1>2
  <2>8. request' \in Requests /\ fields' \in 0 .. 7
    BY <1>2 DEF PathInv
  <2> QED BY <1>4, <2>4, <2>5, <2>6, <2>7, <2>8 DEF PathInv
<1> QED BY <1>3, <1>4 DEF ReadPath

\* The first field: if the path were cut, its own first byte would be the tag.
LEMMA FirstFieldBehind ==
  ASSUME PathInv, phase = "fields", fields = 0, Own(path), TlvReads(offset)
  PROVE  InFront(path)
<1>1. Size \in Nat /\ AsRead(path) /\ offset = BehindPath(Len(path))
  BY SizeType DEF PathInv
<1>2. Len(path) \in Nat
  BY <1>1 DEF AsRead, MAX_BIP32_PATH
<1>3. CASE 1 + 4 * Len(path) <= Size
  BY <1>1, <1>2, <1>3 DEF BehindPath, InFront
<1>4. CASE ~(1 + 4 * Len(path) <= Size)
  <2>1. offset = 1
    BY <1>1, <1>4 DEF BehindPath
  <2>2. Size >= 3 /\ raw[2] % 32 = 4
    BY <1>1, <2>1 DEF TlvReads, HasHead, Left
  <2>3. path[1] = Element(1)
    BY <1>1 DEF AsRead, MAX_BIP32_PATH
  <2>4. path[1][1] = 128
    BY DEF Own
  <2>5. Element(1)[1] = Memory(1)
    BY DEF Element
  <2>6. Memory(1) = raw[2]
    BY <1>1, <2>2 DEF Memory
  <2> QED BY <2>2, <2>3, <2>4, <2>5, <2>6
<1> QED BY <1>3, <1>4

\* What each step leaves of the path
LEMMA PathKept ==
  ASSUME PathInv, UNCHANGED <<request, around, path>>
  PROVE  /\ (path # <<>> => AsRead(path))'
         /\ Own(path)' = Own(path) /\ Size' = Size
BY DEF PathInv, AsRead, Element, Memory, IsTransaction, Size, raw, Own

\* A field moves the offset on.
LEMMA FieldStep ==
  ASSUME PathInv, UNCHANGED <<request, around, path>>,
         TlvReads(offset), offset' = TlvEnd(offset),
         phase \in {"fields", "hashed"}, fields' \in 1 .. 7,
         phase' \in {"fields", "arrived", "accepted", "refused"},
         phase' = "arrived" => fields' = 6
  PROVE  PathInv'
<1>1. offset' \in Nat /\ offset' >= offset
  BY TlvGoesOn, SizeType DEF PathInv
<1>2. Own(path) => InFront(path)
  <2>1. CASE fields > 0
    BY <2>1 DEF PathInv
  <2>2. CASE fields = 0
    <3>1. phase = "fields"
      BY <2>2 DEF PathInv
    <3> QED BY <2>2, <3>1, FirstFieldBehind
  <2> QED BY <2>1, <2>2 DEF PathInv
<1>3. Own(path) => Len(path) \in Nat
  BY DEF PathInv, AsRead, Own, MAX_BIP32_PATH
<1>4. (Own(path) => InFront(path))'
  <2>1. Size' = Size /\ Size \in Nat /\ offset \in Nat /\ Own(path)' = Own(path)
    BY PathKept, SizeType DEF PathInv
  <2>2. ASSUME Own(path) PROVE InFront(path)'
    <3>1. 1 + 4 * Len(path) <= Size /\ 1 + 4 * Len(path) <= offset
      BY <1>2, <2>2 DEF InFront
    <3>2. 1 + 4 * Len(path) <= offset'
      BY <1>1, <1>3, <2>1, <2>2, <3>1
    <3> QED BY <2>1, <3>1, <3>2 DEF InFront
  <2> QED BY <2>1, <2>2
<1> QED BY <1>1, <1>4, PathKept DEF PathInv

\* Each step keeps it.
LEMMA PathStep == PathInv /\ [Next]_vars => PathInv'
<1> SUFFICES ASSUME PathInv, [Next]_vars PROVE PathInv'
  OBVIOUS
<1>1. CASE ReadPath
  BY <1>1, ReadPathStep
<1>2. ASSUME UNCHANGED <<request, around, path, offset, fields>>,
             phase' = phase \/ phase' = "refused"
      PROVE  PathInv'
  <2>1. (Own(path) /\ fields > 0 => InFront(path))'
    BY <1>2, PathKept DEF PathInv, InFront
  <2>2. BehindPath(Len(path))' = BehindPath(Len(path)) /\ (AsRead(path) => AsRead(path)')
    BY <1>2 DEF BehindPath, Size, raw, AsRead, Element, Memory, IsTransaction
  <2> QED BY <1>2, <2>1, <2>2, PathKept DEF PathInv
<1>3. CASE ReadField
  <2>1. CASE TlvReads(offset)
    <3>1. fields' = fields + 1 /\ fields' \in 1 .. 7 /\ fields < 5
      BY <1>3, <2>1 DEF ReadField, PathInv
    <3> QED BY <1>3, <2>1, <3>1, FieldStep DEF ReadField
  <2>2. CASE ~TlvReads(offset)
    BY <1>2, <1>3, <2>2 DEF ReadField
  <2> QED BY <2>1, <2>2
<1>4. CASE ReadOperation
  <2>1. CASE TlvReads(offset)
    BY <1>4, <2>1, FieldStep DEF ReadOperation
  <2>2. CASE ~TlvReads(offset)
    BY <1>2, <1>4, <2>2 DEF ReadOperation
  <2> QED BY <2>1, <2>2
<1>5. CASE ReadExtensions
  <2>1. CASE TlvReads(offset)
    BY <1>5, <2>1, FieldStep DEF ReadExtensions
  <2>2. CASE ~TlvReads(offset)
    BY <1>2, <1>5, <2>2 DEF ReadExtensions
  <2> QED BY <2>1, <2>2
<1>6. CASE ReadDigest
  <2>1. offset' \in Nat /\ fields' = 0 /\ fields = 0
    BY <1>6, SizeType DEF ReadDigest, PathInv
  <2>2. phase' \in {"accepted", "refused"} /\ UNCHANGED <<request, around, path>>
    BY <1>6 DEF ReadDigest
  <2> QED BY <2>1, <2>2, PathKept DEF PathInv
<1>7. CASE Decoding
  <2>1. UNCHANGED <<request, around, path, offset, fields>>
    BY <1>7 DEF Decoding
  <2>2. \/ phase' = phase \/ phase' = "refused"
        \/ phase' = "hung"
        \/ phase \in {"arrived", "hashing"} /\ phase' \in {"hashing", "hashed"}
    BY <1>7 DEF Decoding, GetParser, HashField, ShowField, Hang
  <2>3. CASE phase \in {"arrived", "hashing"} /\ phase' \in {"hashing", "hashed"}
    <3>1. (Own(path) /\ fields > 0 => InFront(path))'
      BY <2>1, PathKept DEF PathInv, InFront
    <3> QED BY <2>1, <2>3, <3>1, PathKept DEF PathInv
  <2>4. CASE phase' = "hung"
    <3>1. (Own(path) /\ fields > 0 => InFront(path))'
      BY <2>1, PathKept DEF PathInv, InFront
    <3> QED BY <2>1, <2>4, <3>1, PathKept DEF PathInv
  <2> QED BY <1>2, <2>1, <2>2, <2>3, <2>4
<1>8. CASE UNCHANGED vars
  BY <1>2, <1>8 DEF vars, operationVars
<1> QED BY <1>1, <1>3, <1>4, <1>5, <1>6, <1>7, <1>8 DEF Next

\* The elements of a path that lies in the request are its bytes.
LEMMA InFrontIsSent == PathInv => OwnPathInFront
<1> SUFFICES ASSUME PathInv, Own(path), fields > 0
             PROVE  /\ offset > 4 * Len(path)
                    /\ \A i \in 1 .. Len(path) : path[i] = SubSeq(raw, 4 * i - 2, 4 * i + 1)
  BY DEF OwnPathInFront
<1>1. AsRead(path) /\ InFront(path) /\ Size \in Nat /\ offset \in Nat
  BY SizeType DEF PathInv, Own
<1>2. Len(path) \in 1 .. 5
  BY <1>1 DEF AsRead, MAX_BIP32_PATH
<1>3. offset > 4 * Len(path)
  BY <1>1, <1>2 DEF InFront
<1>4. ASSUME NEW i \in 1 .. Len(path) PROVE path[i] = SubSeq(raw, 4 * i - 2, 4 * i + 1)
  <2>1. path[i] = [k \in 1 .. 4 |-> Memory(4 * (i - 1) + k)]
    BY <1>1 DEF AsRead, Element
  <2>2. \A k \in 1 .. 4 : 4 * (i - 1) + k \in 0 .. Size - 1
    BY <1>1, <1>2 DEF InFront
  <2>3. \A k \in 1 .. 4 : Memory(4 * (i - 1) + k) = raw[4 * i - 3 + k]
    BY <1>2, <2>2 DEF Memory
  <2>4. SubSeq(raw, 4 * i - 2, 4 * i + 1) = [k \in 1 .. 4 |-> raw[4 * i - 3 + k]]
    <3>1. (4 * i + 1) - (4 * i - 2) + 1 = 4 /\ \A k \in 1 .. 4 : (4 * i - 2) + k - 1 = 4 * i - 3 + k
      BY <1>2
    <3> QED BY <3>1, <1>2, SubSeqProperties
  <2> QED BY <2>1, <2>3, <2>4
<1> QED BY <1>3, <1>4

\* transaction_parse reads the fields of a transaction for an own path only
\* behind that path, which is the one that was sent: for every request, and
\* whatever the bytes around it are.
THEOREM OwnPathsAreWhole == Spec => []OwnPathInFront
BY PathInit, PathStep, InFrontIsSent, PTL DEF Spec

-----------------------------------------------------------------------------
(* The operation in both passes                                            *)

\* Memory holds bytes.
LEMMA MemoryByte ==
  ASSUME request \in Requests, around \in Outside, NEW i \in Int
  PROVE  Memory(i) \in 0 .. 255
<1>1. Size = Len(request.bytes) /\ Size \in Nat
  BY SizeType DEF Size, raw
<1>2. CASE i \in 0 .. Size - 1
  <2>1. i + 1 \in 1 .. Len(request.bytes)
    BY <1>1, <1>2
  <2>2. raw[i + 1] \in 0 .. 255
    BY <2>1, RawByte DEF raw
  <2> QED BY <1>2, <2>2 DEF Memory
<1>3. CASE i \notin 0 .. Size - 1
  <2>1. around \in 0 .. 255
    BY TransactionAssumption
  <2> QED BY <1>3, <2>1 DEF Memory
<1> QED BY <1>2, <1>3

\* The decoders so far have succeeded, each from where the one before it ended,
\* and what they hashed are the bytes up to there.
DecodedInv ==
  /\ parser \in Seq(Kinds) /\ Len(parser) \in 1 .. 9
  /\ ends \in Seq(0 .. Len(buf)) /\ Len(ends) <= Len(parser)
  /\ \A i \in 1 .. Len(ends) :
       /\ Decode(parser[i], From(i - 1)).ok
       /\ Decode(parser[i], From(i - 1)).offset = ends[i]
       /\ ends[i] <= From(Len(ends))
  /\ hashed = SubSeq(buf, 1, From(Len(ends)))

\* The request and how far it is read
RequestInv ==
  /\ request \in Requests /\ around \in Outside
  /\ offset \in 1 .. Size /\ fields \in 0 .. 7 /\ Len(path) <= MAX_BIP32_PATH
  /\ phase \in {"path", "fields", "arrived", "hashing", "hashed", "digest",
                "accepted", "refused", "hung"}

\* The operation and how far it is decoded
BytesInv ==
  /\ operation \in [bytes : Seq(0 .. 255), number : 0 .. 255, offset : 0 .. Len(buf)]
  /\ phase \in {"path", "fields", "arrived", "digest"} => parser = <<>> /\ hashed = <<>>
  /\ phase = "arrived" => operation.offset = 0
  /\ parser = <<>> => ends = <<>>
  /\ parser # <<>> => DecodedInv
  /\ phase = "hashing" =>
       parser # <<>> /\ Len(ends) < Len(parser) /\ operation.offset = From(Len(ends))
  /\ phase = "hashed" => parser # <<>>
  /\ phase \in {"hashed", "accepted", "hung"} => Len(ends) = Len(parser)

\* The field on the display
DisplayInv ==
  /\ position \in -1 .. 8
  /\ position >= 0 => phase \in {"accepted", "hung"}
  /\ position >= 0 /\ parser # <<>> =>
       /\ position + 1 \in 1 .. Len(parser)
       /\ shown = Decode(parser[position + 1], From(position)).shown
       /\ operation.offset = ends[position + 1]

OperationInv == RequestInv /\ BytesInv /\ DisplayInv

\* Nothing is decoded when a request arrives.
LEMMA OperationInit == Init => OperationInv
<1> SUFFICES ASSUME Init PROVE OperationInv
  OBVIOUS
<1>1. request \in Requests /\ Size \in Nat /\ Size >= 1
  BY SizeType DEF Init
<1>2. buf = <<>> /\ operation.offset = 0
  BY DEF Init, buf
<1>3. RequestInv
  BY <1>1 DEF Init, RequestInv, MAX_BIP32_PATH
<1>4. BytesInv
  BY <1>2 DEF Init, BytesInv
<1>5. DisplayInv
  BY DEF Init, DisplayInv
<1> QED BY <1>3, <1>4, <1>5 DEF OperationInv

\* What Reread defines
IsReread(run, p) ==
  run = [k \in 0 .. p |->
           Decode(parser[k + 1], IF k = 0 THEN FromStart ELSE run[k - 1].offset)]

\* The second pass comes to each field where the first one did.
LEMMA RereadAsBefore ==
  ASSUME DecodedInv, NEW p \in Nat, p < Len(ends)
  PROVE  Reread(p) = Decode(parser[p + 1], From(p))
<1> DEFINE g == [k \in 0 .. p |-> Decode(parser[k + 1], From(k))]
<1>1. Len(ends) \in Nat
  BY DEF DecodedInv
<1>2. ASSUME NEW k \in 0 .. p, NEW f, k # 0 => f[k - 1] = g[k - 1]
      PROVE  g[k] = Decode(parser[k + 1], IF k = 0 THEN FromStart ELSE f[k - 1].offset)
  <2>1. CASE k = 0
    BY <2>1 DEF From, FromStart
  <2>2. CASE k # 0
    <3>1. PICK j \in 0 .. p : j = k - 1 /\ k = j + 1
      BY <2>2
    <3>2. k \in 1 .. Len(ends)
      BY <1>1, <2>2
    <3>3. Decode(parser[k], From(j)).offset = ends[k]
      BY <3>1, <3>2 DEF DecodedInv
    <3>4. g[j] = Decode(parser[k], From(j))
      BY <3>1
    <3>5. f[k - 1].offset = From(k)
      BY <1>2, <2>2, <3>1, <3>3, <3>4 DEF From
    <3> QED BY <2>2, <3>5
  <2> QED BY <2>1, <2>2
<1>3. IsReread(g, p)
  <2>1. ASSUME NEW k \in 0 .. p
        PROVE  g[k] = Decode(parser[k + 1], IF k = 0 THEN FromStart ELSE g[k - 1].offset)
    BY <1>2
  <2> QED BY <2>1 DEF IsReread
<1>4. ASSUME NEW f, IsReread(f, p) PROVE f[p] = g[p]
  <2> DEFINE Bad == {k \in 0 .. p : f[k] # g[k]}
  <2> HIDE DEF g
  <2> SUFFICES ASSUME Bad # {} PROVE FALSE
    OBVIOUS
  <2>1. PICK k \in Bad : \A m \in Bad : k <= m
    <3>1. Bad \subseteq Nat
      OBVIOUS
    <3> HIDE DEF Bad
    <3> QED BY <3>1, LeastNumber
  <2>2. k \in 0 .. p /\ f[k] # g[k]
    BY <2>1
  <2>3. k # 0 => f[k - 1] = g[k - 1]
    <3>1. k # 0 => k - 1 \in 0 .. p /\ ~(k <= k - 1)
      BY <2>2
    <3> QED BY <2>1, <3>1
  <2>4. f[k] = Decode(parser[k + 1], IF k = 0 THEN FromStart ELSE f[k - 1].offset)
    BY <1>4, <2>2 DEF IsReread
  <2>5. g[k] = Decode(parser[k + 1], IF k = 0 THEN FromStart ELSE f[k - 1].offset)
    BY <1>2, <2>2, <2>3
  <2> QED BY <2>2, <2>4, <2>5
<1>5. Reread(p) = g[p]
  <2> DEFINE run == CHOOSE f : IsReread(f, p)
  <2>1. IsReread(run, p)
    BY <1>3
  <2>2. Reread(p) = run[p]
    BY DEF Reread, IsReread
  <2> QED BY <1>4, <2>1, <2>2
<1> QED BY <1>5

\* Where a field begins is in the operation.
LEMMA FromType ==
  ASSUME DecodedInv, buf \in Seq(0 .. 255), NEW k \in 0 .. Len(ends)
  PROVE  From(k) \in 0 .. Len(buf)
<1>1. ends \in Seq(0 .. Len(buf)) /\ Len(ends) \in Nat
  BY DEF DecodedInv
<1>2. CASE k = 0
  BY <1>2 DEF From
<1>3. CASE k # 0
  <2>1. k \in 1 .. Len(ends)
    BY <1>1, <1>3
  <2>2. ends[k] \in 0 .. Len(buf)
    BY <1>1, <2>1, ElementOfSeq
  <2> QED BY <1>3, <2>2 DEF From
<1> QED BY <1>2, <1>3

\* The same fields of the same bytes
LEMMA DecodedKept ==
  ASSUME DecodedInv, buf' = buf, UNCHANGED <<parser, ends, hashed>>
  PROVE  DecodedInv'
<1>1. From(Len(ends))' = From(Len(ends))
  BY DEF From
<1>2. ASSUME NEW i \in 1 .. Len(ends)
      PROVE  Decode(parser[i], From(i - 1))' = Decode(parser[i], From(i - 1))
  <2>1. parser[i] \in Kinds
    <3>1. parser \in Seq(Kinds) /\ i \in 1 .. Len(parser)
      BY DEF DecodedInv
    <3> QED BY <3>1, ElementOfSeq
  <2>2. PICK o : o = From(i - 1)
    OBVIOUS
  <2>3. From(i - 1)' = o
    BY <2>2 DEF From
  <2>4. PICK kind \in Kinds : kind = parser[i]
    BY <2>1
  <2> QED BY <2>2, <2>3, <2>4, DecodeSame
<1> QED BY <1>1, <1>2 DEF DecodedInv

\* A step that leaves the operation alone
LEMMA BytesKept ==
  ASSUME BytesInv, UNCHANGED <<operation, parser, ends, hashed>>,
         \/ phase' = "refused"
         \/ phase' = phase
         \/ phase \in {"path", "fields", "arrived", "digest"}
              /\ phase' \in {"fields", "arrived", "digest", "accepted"}
              /\ (phase' = "arrived" => operation.offset = 0)
         \/ phase = "hashed" /\ phase' = "accepted"
         \/ phase = "accepted" /\ phase' = "hung"
  PROVE  BytesInv'
<1>1. buf' = buf
  BY DEF buf
<1>2. (parser # <<>> => DecodedInv)'
  BY <1>1, DecodedKept DEF BytesInv
<1>3. From(Len(ends))' = From(Len(ends))
  BY DEF From
<1> QED BY <1>1, <1>2, <1>3 DEF BytesInv

\* A step before anything is shown
LEMMA NothingShown ==
  ASSUME DisplayInv, phase \notin {"accepted", "hung"}, UNCHANGED position
  PROVE  DisplayInv'
BY DEF DisplayInv

\* A step that reads a field of the request, or refuses it
LEMMA TlvStep ==
  ASSUME RequestInv, UNCHANGED <<request, around, path>>,
         \/ TlvReads(offset) /\ offset' = TlvEnd(offset)
         \/ offset' = offset,
         fields' \in 0 .. 7,
         phase' \in {"fields", "arrived", "accepted", "refused"}
  PROVE  RequestInv'
<1>1. Size \in Nat /\ Size' = Size
  BY SizeType DEF RequestInv, Size, raw
<1>2. offset' \in 1 .. Size
  <2>1. CASE offset' = offset
    BY <2>1 DEF RequestInv
  <2>2. ASSUME TlvReads(offset), offset' = TlvEnd(offset)
        PROVE  offset' \in 1 .. Size
    <3>1. offset \in Nat /\ offset >= 1
      BY DEF RequestInv
    <3>2. TlvEnd(offset) \in offset .. Size
      BY <2>2, <3>1, TlvGoesOn DEF RequestInv
    <3> QED BY <1>1, <2>2, <3>1, <3>2
  <2> QED BY <2>1, <2>2
<1> QED BY <1>1, <1>2 DEF RequestInv

\* The request is read within its bounds.
LEMMA RequestStep == OperationInv /\ [Next]_vars => RequestInv'
<1> SUFFICES ASSUME RequestInv, OperationInv, [Next]_vars PROVE RequestInv'
  BY DEF OperationInv
<1>1. Size \in Nat /\ Size >= 1
  BY SizeType DEF RequestInv
<1>2. ASSUME UNCHANGED <<request, around, offset, path, fields>>,
             phase' \in {"hashing", "hashed", "accepted", "refused", "hung", phase}
      PROVE  RequestInv'
  BY <1>2 DEF RequestInv, Size, raw
<1>3. CASE ReadPath
  <2>1. CASE phase' = "refused" /\ UNCHANGED <<path, offset>>
    BY <1>2, <1>3, <2>1 DEF ReadPath
  <2>2. ASSUME PathReads(raw[1]), path' = [i \in 1 .. raw[1] |-> Element(i)],
               offset' = BehindPath(raw[1]), phase' \in {"fields", "digest", "accepted"}
        PROVE  RequestInv'
    <3>1. raw[1] \in 1 .. MAX_BIP32_PATH
      BY <2>2 DEF PathReads
    <3>2. Len(path') <= MAX_BIP32_PATH
      BY <2>2, <3>1 DEF MAX_BIP32_PATH
    <3>3. offset' \in 1 .. Size
      BY <1>1, <2>2, <3>1 DEF BehindPath, MAX_BIP32_PATH
    <3>4. request' = request /\ around' = around /\ fields' = fields /\ Size' = Size
      BY <1>3 DEF ReadPath, Size, raw
    <3> QED BY <2>2, <3>2, <3>3, <3>4 DEF RequestInv, MAX_BIP32_PATH
  <2> QED BY <1>3, <2>1, <2>2 DEF ReadPath
<1>4. CASE ReadField
  <2>1. fields' \in 0 .. 7
    BY <1>4 DEF ReadField, RequestInv
  <2> QED BY <1>4, <2>1, TlvStep DEF ReadField
<1>5. CASE ReadOperation
  <2>1. fields' \in 0 .. 7
    BY <1>5 DEF ReadOperation, RequestInv
  <2> QED BY <1>5, <2>1, TlvStep DEF ReadOperation
<1>6. CASE ReadExtensions
  <2>1. fields' \in 0 .. 7
    BY <1>6 DEF ReadExtensions, RequestInv
  <2> QED BY <1>6, <2>1, TlvStep DEF ReadExtensions
<1>7. CASE ReadDigest
  <2>1. offset' \in 1 .. Size
    BY <1>1, <1>7 DEF ReadDigest, RequestInv
  <2>2. /\ UNCHANGED <<request, around, path, fields>> /\ Size' = Size
        /\ phase' \in {"accepted", "refused"}
    BY <1>7 DEF ReadDigest, Size, raw
  <2> QED BY <2>1, <2>2 DEF RequestInv
<1>8. CASE Decoding
  BY <1>2, <1>8 DEF Decoding, GetParser, HashField, ShowField, Hang
<1>9. CASE UNCHANGED vars
  BY <1>2, <1>9 DEF vars, operationVars
<1> QED BY <1>3, <1>4, <1>5, <1>6, <1>7, <1>8, <1>9 DEF Next

\* The operation that is read is made of bytes.
LEMMA OperationArrives ==
  ASSUME OperationInv, ReadOperation
  PROVE  BytesInv'
<1>1. CASE ~TlvReads(offset)
  BY <1>1, BytesKept DEF ReadOperation, OperationInv
<1>2. CASE TlvReads(offset)
  <2> DEFINE length == FieldLength(offset)
             from == TlvEnd(offset) - length
             bytes == [i \in 1 .. length |-> Memory(from + i - 1)]
  <2>1. TlvEnd(offset) \in Int /\ length \in Nat
    <3>1. offset \in Nat /\ request \in Requests
      BY SizeType DEF OperationInv, RequestInv
    <3>2. TlvEnd(offset) \in offset .. Size /\ length \in Nat
      BY <1>2, <3>1, TlvGoesOn
    <3> QED BY <3>2
  <2>2. ASSUME NEW i \in Int PROVE Memory(i) \in 0 .. 255
    BY MemoryByte DEF OperationInv, RequestInv
  <2>3. from \in Int
    <3> HIDE DEF length
    <3> QED BY <2>1
  <2>4. bytes \in Seq(0 .. 255)
    <3> HIDE DEF length, from
    <3> QED BY <2>1, <2>2, <2>3
  <2>5. Memory(from) \in 0 .. 255
    BY <2>2, <2>3
  <2>6. operation' = [bytes |-> bytes, number |-> Memory(from), offset |-> 0]
    BY <1>2 DEF ReadOperation
  <2>7. phase = "fields" /\ phase' = "arrived" /\ UNCHANGED <<parser, ends, hashed>>
    BY <1>2 DEF ReadOperation
  <2> HIDE DEF bytes, from
  <2>8. operation' \in [bytes : Seq(0 .. 255), number : 0 .. 255, offset : 0 .. Len(buf')]
    <3>1. buf' = bytes /\ 0 \in 0 .. Len(bytes)
      BY <2>4, <2>6 DEF buf
    <3> QED BY <2>4, <2>5, <2>6, <3>1
  <2> QED BY <2>6, <2>7, <2>8 DEF BytesInv, OperationInv
<1> QED BY <1>1, <1>2

\* A decoder that succeeds has read the bytes behind those read before.
LEMMA FieldHashed ==
  ASSUME DecodedInv, Len(ends) < Len(parser), buf \in Seq(0 .. 255), buf' = buf,
         NEW r, r = Decode(parser[Len(ends) + 1], From(Len(ends))), r.ok,
         parser' = parser, ends' = Append(ends, r.offset), hashed' = hashed \o r.hashed
  PROVE  DecodedInv' /\ r.offset \in 0 .. Len(buf) /\ From(Len(ends))' = r.offset
<1>1. PICK n \in Nat : n = Len(ends)
  BY DEF DecodedInv
<1>2. PICK kind \in Kinds : kind = parser[n + 1]
  <2>1. parser \in Seq(Kinds) /\ n + 1 \in 1 .. Len(parser)
    BY <1>1 DEF DecodedInv
  <2> QED BY <2>1, ElementOfSeq
<1>3. PICK o \in 0 .. Len(buf) : o = From(n)
  BY <1>1, FromType
<1>4. r = Decode(kind, o)
  BY <1>1, <1>2, <1>3
<1>5. r.offset \in o .. Len(buf) /\ r.hashed = SubSeq(buf, o + 1, r.offset)
  <2>1. Reads(Decode(kind, o), o)
    BY DecodeReads
  <2> QED BY <1>4, <2>1 DEF Reads
<1>6. r.offset \in 0 .. Len(buf) /\ Len(buf) \in Nat
  BY <1>5
<1>7. ends' \in Seq(0 .. Len(buf)) /\ Len(ends') = n + 1 /\ ends'[n + 1] = r.offset
  BY <1>1, <1>6 DEF DecodedInv
<1>8. ASSUME NEW k \in 0 .. n PROVE From(k)' = From(k)
  <2>1. ends \in Seq(0 .. Len(buf))
    BY DEF DecodedInv
  <2>2. k # 0 => ends'[k] = ends[k]
    BY <1>1, <1>6, <2>1
  <2> QED BY <2>2 DEF From
<1>9. From(Len(ends))' = r.offset
  BY <1>7 DEF From
<1>10. ASSUME NEW i \in 1 .. n + 1
       PROVE  /\ Decode(parser[i], From(i - 1))'.ok
              /\ Decode(parser[i], From(i - 1))'.offset = ends'[i]
              /\ ends'[i] <= r.offset
  <2>1. PICK at : at = From(i - 1)
    OBVIOUS
  <2>2. From(i - 1)' = at
    BY <1>8, <2>1
  <2>3. PICK which \in Kinds : which = parser[i]
    <3>1. parser \in Seq(Kinds) /\ i \in 1 .. Len(parser)
      BY <1>1 DEF DecodedInv
    <3> QED BY <3>1, ElementOfSeq
  <2>4. Decode(parser[i], From(i - 1))' = Decode(which, at)
    BY <2>2, <2>3, DecodeSame
  <2>5. CASE i = n + 1
    <3>1. Decode(which, at) = r
      BY <1>1, <2>1, <2>3, <2>5
    <3>2. r.offset <= r.offset
      BY <1>6
    <3> QED BY <1>7, <2>4, <2>5, <3>1, <3>2
  <2>6. CASE i # n + 1
    <3>1. i \in 1 .. Len(ends)
      BY <1>1, <2>6
    <3>2. Decode(which, at).ok /\ Decode(which, at).offset = ends[i]
      BY <2>1, <2>3, <3>1 DEF DecodedInv
    <3>3. ends'[i] = ends[i]
      BY <1>1, <1>6, <3>1 DEF DecodedInv
    <3>4. ends[i] <= r.offset
      <4>1. ends[i] <= o /\ ends \in Seq(0 .. Len(buf))
        BY <1>1, <1>3, <3>1 DEF DecodedInv
      <4>2. ends[i] \in 0 .. Len(buf)
        BY <3>1, <4>1, ElementOfSeq
      <4> QED BY <1>5, <1>6, <4>1, <4>2
    <3> QED BY <2>4, <3>2, <3>3, <3>4
  <2> QED BY <2>5, <2>6
<1>11. hashed' = SubSeq(buf, 1, r.offset)
  <2>1. hashed = SubSeq(buf, 1, o)
    BY <1>1, <1>3 DEF DecodedInv
  <2>2. PICK z \in Nat : z = 0
    OBVIOUS
  <2>3. SubSeq(buf, z + 1, o) \o SubSeq(buf, o + 1, r.offset) = SubSeq(buf, z + 1, r.offset)
    BY <1>5, <2>2, Pieces
  <2>4. z + 1 = 1
    BY <2>2
  <2>5. hashed' = SubSeq(buf, z + 1, o) \o SubSeq(buf, o + 1, r.offset)
    BY <1>5, <2>1, <2>4
  <2> QED BY <2>3, <2>4, <2>5
<1>12. DecodedInv'
  <2>1. Len(ends') <= Len(parser')
    BY <1>1, <1>7 DEF DecodedInv
  <2> QED BY <1>7, <1>9, <1>10, <1>11, <2>1 DEF DecodedInv
<1> QED BY <1>6, <1>9, <1>12

\* The next decoder
LEMMA HashStep == OperationInv /\ HashField => BytesInv'
<1> SUFFICES ASSUME BytesInv, HashField PROVE BytesInv'
  BY DEF OperationInv
<1>1. PICK r : /\ r = Decode(parser[decoded + 1], operation.offset)
               /\ LET last == decoded + 1 = Len(parser)
                  IN IF r.ok
                     THEN /\ operation' = [operation EXCEPT !.offset = IF last THEN 0 ELSE r.offset]
                          /\ hashed' = hashed \o r.hashed
                          /\ ends' = Append(ends, r.offset)
                          /\ phase' = IF last THEN "hashed" ELSE phase
                     ELSE phase' = "refused" /\ UNCHANGED <<operation, hashed, ends>>
  BY DEF HashField
<1>2. phase = "hashing" /\ parser' = parser
  BY DEF HashField
<1>3. /\ parser # <<>> /\ DecodedInv /\ Len(ends) < Len(parser)
      /\ operation.offset = From(Len(ends))
  BY <1>2 DEF BytesInv
<1>4. CASE ~r.ok
  BY <1>1, <1>2, <1>4, BytesKept
<1>5. CASE r.ok
  <2>1. /\ operation \in [bytes : Seq(0 .. 255), number : 0 .. 255, offset : 0 .. Len(buf)]
        /\ buf \in Seq(0 .. 255)
    BY DEF BytesInv, buf
  <2>2. buf' = buf
    BY <1>1, <1>5, <2>1 DEF buf
  <2>3. DecodedInv' /\ r.offset \in 0 .. Len(buf) /\ From(Len(ends))' = r.offset
    <3>1. r = Decode(parser[Len(ends) + 1], From(Len(ends)))
      BY <1>1, <1>3 DEF decoded
    <3> QED BY <1>1, <1>2, <1>3, <1>5, <2>1, <2>2, <3>1, FieldHashed
  <2>4. Len(ends') = Len(ends) + 1 /\ Len(ends) \in Nat /\ Len(parser) \in Nat
    BY <1>1, <1>3, <1>5 DEF DecodedInv
  <2>5. CASE Len(ends) + 1 = Len(parser)
    <3>1. operation' = [operation EXCEPT !.offset = 0] /\ phase' = "hashed"
      BY <1>1, <1>5, <2>5 DEF decoded
    <3>2. operation' \in [bytes : Seq(0 .. 255), number : 0 .. 255, offset : 0 .. Len(buf)]
      <4>1. 0 \in 0 .. Len(buf)
        BY <2>1
      <4> QED BY <2>1, <3>1, <4>1
    <3> QED BY <1>2, <1>3, <2>2, <2>3, <2>4, <2>5, <3>1, <3>2 DEF BytesInv
  <2>6. CASE Len(ends) + 1 # Len(parser)
    <3>1. operation' = [operation EXCEPT !.offset = r.offset] /\ phase' = "hashing"
      BY <1>1, <1>2, <1>5, <2>6 DEF decoded
    <3>2. /\ operation' \in [bytes : Seq(0 .. 255), number : 0 .. 255, offset : 0 .. Len(buf)]
          /\ operation'.offset = r.offset
      BY <2>1, <2>3, <3>1
    <3> QED BY <1>2, <1>3, <2>2, <2>3, <2>4, <2>6, <3>1, <3>2 DEF BytesInv
  <2> QED BY <2>5, <2>6
<1> QED BY <1>4, <1>5

\* What a field that is shown is: what its decoder made of it before.
LEMMA ShowsAgain ==
  ASSUME BytesInv, NEW p \in 0 .. Len(parser) - 1, ShowField(p)
  PROVE  /\ parser # <<>> /\ DecodedInv /\ p < Len(ends) /\ p \in 0 .. 8
         /\ ends[p + 1] \in 0 .. Len(buf)
         /\ operation' = [operation EXCEPT !.offset = ends[p + 1]]
         /\ shown' = Decode(parser[p + 1], From(p)).shown
<1>1. phase = "accepted" /\ Len(ends) = Len(parser)
  BY DEF ShowField, BytesInv
<1>2. parser # <<>> /\ DecodedInv
  <2>1. parser # <<>>
    <3>1. CASE parser = <<>>
      <4>1. Len(parser) = 0
        BY <3>1
      <4> QED BY <4>1
    <3> QED BY <3>1
  <2> QED BY <2>1 DEF BytesInv
<1>3. p < Len(ends) /\ p \in 0 .. 8 /\ p \in Nat
  <2>1. Len(parser) \in 1 .. 9
    BY <1>2 DEF DecodedInv
  <2> QED BY <1>1, <2>1
<1>4. ends[p + 1] \in 0 .. Len(buf)
  <2>1. ends \in Seq(0 .. Len(buf)) /\ p + 1 \in 1 .. Len(ends)
    BY <1>2, <1>3 DEF DecodedInv
  <2> QED BY <2>1, ElementOfSeq
<1>5. Reread(p) = Decode(parser[p + 1], From(p))
  BY <1>2, <1>3, RereadAsBefore
<1>6. Decode(parser[p + 1], From(p)).offset = ends[p + 1]
  <2>1. PICK i \in 1 .. Len(ends) : i = p + 1 /\ i - 1 = p
    BY <1>2, <1>3 DEF DecodedInv
  <2>2. Decode(parser[i], From(i - 1)).offset = ends[i]
    BY <1>2 DEF DecodedInv
  <2> QED BY <2>1, <2>2
<1>7. /\ operation' = [operation EXCEPT !.offset = Reread(p).offset]
      /\ shown' = Reread(p).shown
  BY DEF ShowField
<1> QED BY <1>2, <1>3, <1>4, <1>5, <1>6, <1>7

\* Each step goes through the operation as it should.
LEMMA BytesStep == OperationInv /\ [Next]_vars => BytesInv'
<1> SUFFICES ASSUME BytesInv, OperationInv, [Next]_vars PROVE BytesInv'
  BY DEF OperationInv
<1>1. CASE ReadPath
  BY <1>1, BytesKept DEF ReadPath
<1>2. CASE ReadField
  BY <1>2, BytesKept DEF ReadField
<1>3. CASE ReadOperation
  BY <1>3, OperationArrives
<1>4. CASE ReadExtensions
  BY <1>4, BytesKept DEF ReadExtensions
<1>5. CASE ReadDigest
  <2>1. CASE phase' = "refused" /\ UNCHANGED hashed
    BY <1>5, <2>1, BytesKept DEF ReadDigest
  <2>2. CASE phase' = "accepted"
    <3>1. phase = "digest" /\ UNCHANGED <<operation, parser, ends>> /\ parser = <<>>
      BY <1>5 DEF ReadDigest, BytesInv
    <3> QED BY <2>2, <3>1 DEF BytesInv, buf
  <2> QED BY <1>5, <2>1, <2>2 DEF ReadDigest
<1>6. CASE GetParser
  <2>1. phase = "arrived" /\ parser = <<>> /\ ends = <<>> /\ hashed = <<>>
        /\ operation.offset = 0 /\ UNCHANGED <<operation, ends, hashed>>
    BY <1>6 DEF GetParser, BytesInv
  <2>2. CASE operation.number \notin Supported
    <3>1. phase' = "refused" /\ parser' = parser
      BY <1>6, <2>2 DEF GetParser
    <3> QED BY <2>1, <3>1, BytesKept
  <2>3. CASE operation.number \in Supported
    <3>1. phase' = "hashing" /\ parser' = Parser(operation.number)
      BY <1>6, <2>3 DEF GetParser
    <3>2. parser' \in Seq(Kinds) /\ Len(parser') \in 1 .. 9
      BY <2>3, <3>1, ParserKinds
    <3>3. Len(ends') = 0 /\ From(Len(ends))' = 0 /\ parser' # <<>>
      <4>1. ends' = <<>> /\ Len(ends') = 0
        BY <2>1
      <4>2. parser' # <<>>
        BY <3>2
      <4> QED BY <4>1, <4>2 DEF From
    <3>4. operation' \in [bytes : Seq(0 .. 255), number : 0 .. 255, offset : 0 .. Len(buf')]
      BY <2>1 DEF BytesInv, buf
    <3>5. DecodedInv'
      <4>1. hashed' = SubSeq(buf', 1, 0)
        BY <2>1, <3>4 DEF buf
      <4>2. \A i \in 1 .. Len(ends') : FALSE
        BY <3>3
      <4>3. ends' \in Seq(0 .. Len(buf')) /\ Len(ends') <= Len(parser')
        BY <2>1, <3>2, <3>3
      <4> QED BY <3>2, <3>3, <4>1, <4>2, <4>3 DEF DecodedInv
    <3> QED BY <2>1, <3>1, <3>2, <3>3, <3>4, <3>5 DEF BytesInv
  <2> QED BY <2>2, <2>3
<1>7. CASE HashField
  BY <1>7, HashStep
<1>8. ASSUME NEW p \in 0 .. Len(parser) - 1, ShowField(p) PROVE BytesInv'
  <2>1. /\ parser # <<>> /\ DecodedInv /\ ends[p + 1] \in 0 .. Len(buf)
        /\ operation' = [operation EXCEPT !.offset = ends[p + 1]]
    BY <1>8, ShowsAgain
  <2>2. phase = "accepted" /\ UNCHANGED <<phase, parser, ends, hashed>>
    BY <1>8 DEF ShowField
  <2>3. /\ operation' \in [bytes : Seq(0 .. 255), number : 0 .. 255, offset : 0 .. Len(buf)]
        /\ buf' = buf
    BY <2>1 DEF BytesInv, buf
  <2>4. DecodedInv'
    BY <2>1, <2>2, <2>3, DecodedKept
  <2> QED BY <2>1, <2>2, <2>3, <2>4 DEF BytesInv
<1>9. ASSUME NEW p \in 0 .. Len(parser) - 1, Hang(p) PROVE BytesInv'
  BY <1>9, BytesKept DEF Hang
<1>10. CASE UNCHANGED vars
  BY <1>10, BytesKept DEF vars, operationVars
<1> QED BY <1>1, <1>2, <1>3, <1>4, <1>5, <1>6, <1>7, <1>8, <1>9, <1>10 DEF Next, Decoding

\* What is on the display stays there until another field is shown.
LEMMA DisplayStep == OperationInv /\ [Next]_vars => DisplayInv'
<1> SUFFICES ASSUME BytesInv, DisplayInv, [Next]_vars PROVE DisplayInv'
  BY DEF OperationInv
<1>1. CASE ReadPath \/ ReadField \/ ReadOperation \/ ReadExtensions \/ GetParser \/ HashField
  <2>1. phase \notin {"accepted", "hung"} /\ UNCHANGED position
    BY <1>1 DEF ReadPath, ReadField, ReadOperation, ReadExtensions, GetParser, HashField
  <2> QED BY <2>1, NothingShown
<1>2. CASE ReadDigest
  <2>1. phase = "digest" /\ parser = <<>> /\ parser' = parser
    BY <1>2 DEF ReadDigest, BytesInv
  <2>2. \/ position' = 0 /\ phase' = "accepted"
        \/ UNCHANGED position
    BY <1>2 DEF ReadDigest
  <2> QED BY <2>1, <2>2 DEF DisplayInv
<1>3. ASSUME NEW p \in 0 .. Len(parser) - 1, ShowField(p) PROVE DisplayInv'
  <2>1. /\ parser # <<>> /\ DecodedInv /\ p < Len(ends) /\ p \in 0 .. 8
        /\ operation' = [operation EXCEPT !.offset = ends[p + 1]]
        /\ shown' = Decode(parser[p + 1], From(p)).shown
    BY <1>3, ShowsAgain
  <2>2. position' = p /\ phase' = "accepted" /\ UNCHANGED <<parser, ends>>
    BY <1>3 DEF ShowField
  <2>3. buf' = buf /\ operation'.offset = ends[p + 1]
    BY <2>1 DEF BytesInv, buf
  <2>4. PICK kind \in Kinds : kind = parser[p + 1]
    <3>1. parser \in Seq(Kinds) /\ p + 1 \in 1 .. Len(parser)
      BY <2>1 DEF DecodedInv
    <3> QED BY <3>1, ElementOfSeq
  <2>5. PICK o : o = From(p)
    OBVIOUS
  <2>6. From(position)' = o
    BY <2>2, <2>5 DEF From
  <2>7. Decode(parser[position + 1], From(position))' = Decode(kind, o)
    BY <2>2, <2>3, <2>4, <2>6, DecodeSame
  <2>8. shown' = Decode(parser[position + 1], From(position))'.shown
    BY <2>1, <2>4, <2>5, <2>7
  <2>9. position' + 1 \in 1 .. Len(parser')
    BY <2>1, <2>2 DEF DecodedInv
  <2> QED BY <2>1, <2>2, <2>3, <2>8, <2>9 DEF DisplayInv
<1>4. ASSUME UNCHANGED <<operation, parser, ends, position, shown>>,
             phase' = phase \/ phase' = "hung"
      PROVE  DisplayInv'
  <2>1. buf' = buf
    BY <1>4 DEF buf
  <2>2. ASSUME position >= 0, parser # <<>>
        PROVE  Decode(parser[position + 1], From(position))'
                 = Decode(parser[position + 1], From(position))
    <3>1. PICK kind \in Kinds : kind = parser[position + 1]
      <4>1. parser \in Seq(Kinds) /\ position + 1 \in 1 .. Len(parser)
        BY <2>2 DEF BytesInv, DecodedInv, DisplayInv
      <4> QED BY <4>1, ElementOfSeq
    <3>2. PICK o : o = From(position)
      OBVIOUS
    <3>3. From(position)' = o
      BY <1>4, <3>2 DEF From
    <3> QED BY <1>4, <2>1, <3>1, <3>2, <3>3, DecodeSame
  <2> QED BY <1>4, <2>1, <2>2 DEF DisplayInv
<1>5. ASSUME NEW p \in 0 .. Len(parser) - 1, Hang(p) PROVE DisplayInv'
  BY <1>4, <1>5 DEF Hang
<1>6. CASE UNCHANGED vars
  BY <1>4, <1>6 DEF vars, operationVars
<1> QED BY <1>1, <1>2, <1>3, <1>5, <1>6 DEF Next, Decoding

\* Each step keeps what the three theorems rest on.
LEMMA OperationStep == OperationInv /\ [Next]_vars => OperationInv'
BY RequestStep, BytesStep, DisplayStep DEF OperationInv

\* transaction_parse: what is given to cx_hash of an operation are the bytes
\* its decoders went over, each once and in order, for every content of the
\* operation.
THEOREM HashedInOrder == Spec => []HashedAsRead
<1>1. OperationInv => HashedAsRead
  <2> SUFFICES ASSUME OperationInv, phase = "hashing"
               PROVE  hashed = SubSeq(buf, 1, operation.offset)
    BY DEF HashedAsRead
  <2> QED BY DEF OperationInv, BytesInv, DecodedInv
<1> QED BY <1>1, OperationInit, OperationStep, PTL DEF Spec

\* parse_field: a field on the display is what the decoder that hashed it reads
\* of the bytes that were hashed, for every operation, and in whatever order
\* the user turns to its fields.
THEOREM ShownFromHashed == Spec => []ShownAsHashed
<1>1. OperationInv => ShownAsHashed
  <2> SUFFICES ASSUME OperationInv, position >= 0, parser # <<>>
               PROVE  LET r == Decode(parser[position + 1], From(position))
                      IN /\ r.ok /\ shown = r.shown
                         /\ operation.offset = ends[position + 1]
                         /\ r.hashed = SubSeq(hashed, From(position) + 1, ends[position + 1])
    BY DEF ShownAsHashed
  <2>1. /\ DecodedInv /\ Len(ends) = Len(parser) /\ buf \in Seq(0 .. 255)
        /\ position \in 0 .. 8 /\ position + 1 \in 1 .. Len(parser)
    BY DEF OperationInv, BytesInv, DisplayInv, buf
  <2>2. PICK i \in 1 .. Len(ends) : i = position + 1 /\ i - 1 = position
    BY <2>1
  <2>3. PICK kind \in Kinds : kind = parser[i]
    <3>1. parser \in Seq(Kinds) /\ i \in 1 .. Len(parser)
      BY <2>1 DEF DecodedInv
    <3> QED BY <3>1, ElementOfSeq
  <2>4. PICK r : r = Decode(kind, From(position))
    OBVIOUS
  <2>5. r.ok /\ r.offset = ends[i]
    BY <2>1, <2>2, <2>3, <2>4 DEF DecodedInv
  <2>6. PICK o \in 0 .. Len(buf) : o = From(position)
    BY <2>1, FromType
  <2>7. r.offset \in o .. Len(buf) /\ r.hashed = SubSeq(buf, o + 1, r.offset)
    BY <2>1, <2>3, <2>4, <2>5, <2>6, DecodeReads, SMTT(60) DEF Reads
  <2>8. PICK whole : whole = From(Len(ends))
    OBVIOUS
  <2>9. hashed = SubSeq(buf, 1, whole)
    BY <2>1, <2>8 DEF DecodedInv
  <2>10. whole \in 0 .. Len(buf) /\ r.offset \in o .. whole
    <3>1. whole \in 0 .. Len(buf)
      <4>1. Len(ends) \in 0 .. Len(ends)
        BY <2>1
      <4> QED BY <2>1, <2>8, <4>1, FromType
    <3>2. ends[i] <= whole
      BY <2>1, <2>8 DEF DecodedInv
    <3> QED BY <2>5, <2>7, <3>1, <3>2
  <2>11. SubSeq(hashed, o + 1, r.offset) = SubSeq(buf, o + 1, r.offset)
    <3>1. o \in Nat
      OBVIOUS
    <3>2. SubSeq(SubSeq(buf, 1, whole), o + 1, r.offset) = SubSeq(buf, o + 1, r.offset)
      BY <2>1, <2>10, <3>1, PieceOfPiece
    <3> QED BY <2>9, <3>2
  <2>12. shown = r.shown /\ operation.offset = ends[i]
    BY <2>2, <2>3, <2>4 DEF OperationInv, DisplayInv
  <2> QED BY <2>2, <2>3, <2>4, <2>5, <2>6, <2>7, <2>11, <2>12
<1> QED BY <1>1, OperationInit, OperationStep, PTL DEF Spec

\* The traversals of transaction_parse and parse_field stay within the request,
\* the operation and its parser, whatever lengths a request holds.
THEOREM TransactionTypes == Spec => []TypeOK
<1>1. OperationInv => TypeOK
  <2> SUFFICES ASSUME OperationInv PROVE TypeOK
    OBVIOUS
  <2>1. decoded \in 0 .. Len(parser)
    <3>1. CASE parser = <<>>
      BY <3>1 DEF OperationInv, BytesInv, decoded
    <3>2. CASE parser # <<>>
      BY <3>2 DEF OperationInv, BytesInv, DecodedInv, decoded
    <3> QED BY <3>1, <3>2
  <2>2. operation.offset \in 0 .. Len(buf)
    BY DEF OperationInv, BytesInv
  <2> QED BY <2>1, <2>2 DEF OperationInv, RequestInv, DisplayInv, TypeOK
<1> QED BY <1>1, OperationInit, OperationStep, PTL DEF Spec

-----------------------------------------------------------------------------
(* What is signed of a transaction that is serialised as it should be      *)

\* What is left of a sequence behind its first o elements
Onward(s, o) == SubSeq(s, o + 1, Len(s))

\* It is a, and behind that b.
Parts(s, o, a, b) == Onward(s, o) = a \o b

\* What is left behind the first of two parts is the second.
LEMMA Remains ==
  ASSUME NEW s \in ByteStrings, NEW o \in 0 .. Len(s),
         NEW a \in ByteStrings, NEW b \in ByteStrings, Parts(s, o, a, b)
  PROVE  /\ o + Len(a) <= Len(s)
         /\ \A i \in 1 .. Len(a) : s[o + i] = a[i]
         /\ Onward(s, o + Len(a)) = b
<1> DEFINE S == 0 .. 255
<1>0. s \in Seq(S) /\ a \in Seq(S) /\ b \in Seq(S)
  BY DEF ByteStrings
<1> HIDE DEF S
<1>1. PICK size \in Nat, la \in Nat, lb \in Nat : size = Len(s) /\ la = Len(a) /\ lb = Len(b)
  BY <1>0, LenProperties
<1>2. PICK from \in Nat : from = o + la
  BY <1>1
<1> DEFINE t == SubSeq(s, o + 1, size)
           u == SubSeq(s, from + 1, size)
<1>3. o \in 0 .. size /\ \A i \in 1 .. size : s[i] \in S
  BY <1>0, <1>1, ElementOfSeq
<1>4. Len(t) = size - o /\ \A i \in 1 .. size - o : t[i] = s[o + i]
  <2>1. \A i \in o + 1 .. size : s[i] \in S
    BY <1>3
  <2>2. /\ Len(t) = IF o + 1 <= size THEN size - (o + 1) + 1 ELSE 0
        /\ \A i \in 1 .. size - (o + 1) + 1 : t[i] = s[o + 1 + i - 1]
    BY <1>3, <2>1, SubSeqProperties
  <2> HIDE DEF t
  <2>3. size - (o + 1) + 1 = size - o /\ \A i \in 1 .. size - o : o + 1 + i - 1 = o + i
    BY <1>3
  <2>4. o + 1 > size => size - o = 0
    BY <1>3
  <2> QED BY <2>2, <2>3, <2>4
<1>5. Len(t) = la + lb /\ \A i \in 1 .. la + lb : t[i] = IF i <= la THEN a[i] ELSE b[i - la]
  <2>1. t = a \o b
    BY <1>1 DEF Onward, Parts
  <2>2. /\ Len(a \o b) = Len(a) + Len(b)
        /\ \A i \in 1 .. Len(a) + Len(b) : (a \o b)[i] = IF i <= Len(a) THEN a[i] ELSE b[i - Len(a)]
    BY <1>0, ConcatProperties
  <2> HIDE DEF t
  <2> QED BY <1>1, <2>1, <2>2
<1> HIDE DEF t
<1>6. size - o = la + lb
  BY <1>4, <1>5
<1>7. from <= size /\ size - from = lb
  BY <1>2, <1>3, <1>6
<1>8. ASSUME NEW i \in 1 .. la PROVE s[o + i] = a[i]
  <2>1. i \in 1 .. la + lb /\ i <= la
    OBVIOUS
  <2> QED BY <1>4, <1>5, <1>6, <2>1
<1>9. ASSUME NEW i \in 1 .. lb PROVE s[from + i] = b[i]
  <2>1. PICK j \in Nat : j = la + i
    OBVIOUS
  <2>2. j \in 1 .. la + lb /\ o + j = from + i /\ j - la = i /\ ~(j <= la)
    BY <1>2, <1>3, <2>1
  <2> QED BY <1>4, <1>5, <1>6, <2>2
<1>10. \A i \in from + 1 .. size : s[i] \in S
  BY <1>3
<1>11. u \in Seq(S)
  BY <1>10, SubSeqProperties
<1>12. Len(u) = lb /\ \A i \in 1 .. lb : u[i] = s[from + i]
  <2>1. /\ Len(u) = IF from + 1 <= size THEN size - (from + 1) + 1 ELSE 0
        /\ \A i \in 1 .. size - (from + 1) + 1 : u[i] = s[from + 1 + i - 1]
    BY <1>10, SubSeqProperties
  <2> HIDE DEF u
  <2>2. size - (from + 1) + 1 = lb /\ \A i \in 1 .. lb : from + 1 + i - 1 = from + i
    BY <1>7
  <2>3. from + 1 > size => lb = 0
    BY <1>7
  <2>4. Len(u) = lb
    BY <2>1, <2>2, <2>3
  <2>5. ASSUME NEW i \in 1 .. lb PROVE u[i] = s[from + i]
    BY <2>1, <2>2
  <2> QED BY <2>4, <2>5
<1> HIDE DEF u
<1>13. u = b
  <2>1. \A i \in 1 .. Len(u) : u[i] = b[i]
    BY <1>9, <1>12
  <2> QED BY <1>0, <1>1, <1>11, <1>12, <2>1, SeqEqual
<1>14. Onward(s, o + Len(a)) = b
  BY <1>1, <1>2, <1>13 DEF Onward, u
<1>15. o + Len(a) <= Len(s)
  BY <1>1, <1>2, <1>7
<1>16. \A i \in 1 .. Len(a) : s[o + i] = a[i]
  BY <1>1, <1>8
<1> QED BY <1>14, <1>15, <1>16

\* A length of one byte is taken as it is.
LEMMA TakenWhole == \A n \in 0 .. 255 : Taken(n) = n
BY DEF Taken

\* A head and a value behind it
LEMMA HeadAndValue ==
  ASSUME NEW head \in Seq(0 .. 255), NEW n \in 2 .. 3, Len(head) = n,
         NEW v \in Seq(0 .. 255)
  PROVE  /\ head \o v \in Seq(0 .. 255) /\ Len(head \o v) = n + Len(v)
         /\ \A i \in 1 .. n : (head \o v)[i] = head[i]
         /\ \A i \in 1 .. Len(v) : (head \o v)[n + i] = v[i]
<1>1. PICK m \in Nat : m = Len(v)
  BY LenProperties
<1>2. /\ head \o v \in Seq(0 .. 255) /\ Len(head \o v) = n + m
      /\ \A i \in 1 .. n + m : (head \o v)[i] = IF i <= n THEN head[i] ELSE v[i - n]
  BY <1>1, ConcatProperties
<1>3. ASSUME NEW i \in 1 .. n PROVE (head \o v)[i] = head[i]
  <2>1. i \in 1 .. n + m /\ i <= n
    BY <1>1
  <2> QED BY <1>2, <2>1
<1>4. ASSUME NEW i \in 1 .. m PROVE (head \o v)[n + i] = v[i]
  <2>1. n + i \in 1 .. n + m /\ ~(n + i <= n) /\ (n + i) - n = i
    BY <1>1
  <2> QED BY <1>2, <2>1
<1> QED BY <1>1, <1>2, <1>3, <1>4

\* A value as it is serialised: a head of two or three bytes, then the value
LEMMA DerType ==
  ASSUME NEW v \in Seq(0 .. 255), Len(v) < 256
  PROVE  \E n \in 2 .. 3 :
           /\ n = IF Len(v) < 128 THEN 2 ELSE 3
           /\ Der(v) \in Seq(0 .. 255) /\ Len(Der(v)) = n + Len(v)
           /\ \A i \in 1 .. Len(v) : Der(v)[n + i] = v[i]
           /\ Der(v)[1] = 4
           /\ n = 2 => Der(v)[2] = Len(v)
           /\ n = 3 => Der(v)[2] = 129 /\ Der(v)[3] = Len(v)
<1>1. PICK m \in 0 .. 255 : m = Len(v)
  BY ShortLength DEF ByteStrings
<1>2. CASE m < 128
  <2> DEFINE head == <<4, m>>
  <2>1. head \in Seq(0 .. 255) /\ Len(head) = 2 /\ head[1] = 4 /\ head[2] = m
    OBVIOUS
  <2>2. PICK n \in 2 .. 3 : n = 2
    OBVIOUS
  <2>3. Der(v) = head \o v
    <3>1. (IF Len(v) < 128 THEN <<4, Len(v)>> ELSE <<4, 129, Len(v)>>) = head
      BY <1>1, <1>2
    <3> HIDE DEF head
    <3> QED BY <3>1 DEF Der
  <2> HIDE DEF head
  <2>4. /\ head \o v \in Seq(0 .. 255) /\ Len(head \o v) = n + Len(v)
        /\ \A i \in 1 .. n : (head \o v)[i] = head[i]
        /\ \A i \in 1 .. Len(v) : (head \o v)[n + i] = v[i]
    BY <2>1, <2>2, HeadAndValue
  <2>5. Der(v)[1] = 4 /\ Der(v)[2] = m
    BY <2>1, <2>2, <2>3, <2>4
  <2>6. /\ Der(v) \in Seq(0 .. 255) /\ Len(Der(v)) = n + Len(v)
        /\ \A i \in 1 .. Len(v) : Der(v)[n + i] = v[i]
    BY <2>3, <2>4
  <2>7. /\ n = IF Len(v) < 128 THEN 2 ELSE 3
        /\ Der(v)[1] = 4
        /\ n = 2 => Der(v)[2] = Len(v)
        /\ n = 3 => Der(v)[2] = 129 /\ Der(v)[3] = Len(v)
    BY <1>1, <1>2, <2>2, <2>5
  <2> WITNESS n \in 2 .. 3
  <2> QED BY <2>6, <2>7
<1>3. CASE ~(m < 128)
  <2> DEFINE head == <<4, 129, m>>
  <2>1. head \in Seq(0 .. 255) /\ Len(head) = 3 /\ head[1] = 4 /\ head[2] = 129 /\ head[3] = m
    OBVIOUS
  <2>2. PICK n \in 2 .. 3 : n = 3
    OBVIOUS
  <2>3. Der(v) = head \o v
    <3>1. (IF Len(v) < 128 THEN <<4, Len(v)>> ELSE <<4, 129, Len(v)>>) = head
      BY <1>1, <1>3, SMTT(30)
    <3> HIDE DEF head
    <3> QED BY <3>1 DEF Der
  <2> HIDE DEF head
  <2>4. /\ head \o v \in Seq(0 .. 255) /\ Len(head \o v) = n + Len(v)
        /\ \A i \in 1 .. n : (head \o v)[i] = head[i]
        /\ \A i \in 1 .. Len(v) : (head \o v)[n + i] = v[i]
    BY <2>1, <2>2, HeadAndValue
  <2>5. Der(v)[1] = 4 /\ Der(v)[2] = 129 /\ Der(v)[3] = m
    BY <2>1, <2>2, <2>3, <2>4
  <2>6. /\ Der(v) \in Seq(0 .. 255) /\ Len(Der(v)) = n + Len(v)
        /\ \A i \in 1 .. Len(v) : Der(v)[n + i] = v[i]
    BY <2>3, <2>4
  <2>7. /\ n = IF Len(v) < 128 THEN 2 ELSE 3
        /\ Der(v)[1] = 4
        /\ n = 2 => Der(v)[2] = Len(v)
        /\ n = 3 => Der(v)[2] = 129 /\ Der(v)[3] = Len(v)
    BY <1>1, <1>3, <2>2, <2>5
  <2> WITNESS n \in 2 .. 3
  <2> QED BY <2>6, <2>7
<1> QED BY <1>2, <1>3

\* buffer_read_tlv gets back what was serialised, and leaves off behind it.
LEMMA DerIsRead ==
  ASSUME request \in Requests, NEW o \in 0 .. Size,
         NEW v \in ByteStrings, Len(v) < 256, NEW rest \in ByteStrings,
         Parts(raw, o, Der(v), rest)
  PROVE  /\ TlvReads(o)
         /\ FieldLength(o) = Len(v) /\ TlvEnd(o) = Body(o) + Len(v) /\ TlvEnd(o) <= Size
         /\ Body(o) \in Nat /\ \A i \in 1 .. Len(v) : raw[Body(o) + i] = v[i]
         /\ TlvData(o) = v
         /\ Onward(raw, TlvEnd(o)) = rest
<1>0. v \in Seq(0 .. 255) /\ rest \in Seq(0 .. 255)
  BY DEF ByteStrings
<1>1. raw \in Seq(0 .. 255) /\ Size = Len(raw) /\ Len(v) \in 0 .. 255
  BY <1>0, TransactionAssumption, ShortLength DEF raw, Size
<1>2. PICK n \in 2 .. 3 : /\ n = IF Len(v) < 128 THEN 2 ELSE 3
                          /\ Der(v) \in Seq(0 .. 255) /\ Len(Der(v)) = n + Len(v)
                          /\ \A i \in 1 .. Len(v) : Der(v)[n + i] = v[i]
                          /\ Der(v)[1] = 4
                          /\ n = 2 => Der(v)[2] = Len(v)
                          /\ n = 3 => Der(v)[2] = 129 /\ Der(v)[3] = Len(v)
  BY <1>0, DerType
<1>3. /\ o + Len(Der(v)) <= Size
      /\ \A i \in 1 .. Len(Der(v)) : raw[o + i] = Der(v)[i]
      /\ Onward(raw, o + Len(Der(v))) = rest
  <2>1. Der(v) \in Seq(0 .. 255) /\ o \in 0 .. Len(raw)
    BY <1>1, <1>2
  <2>2. /\ raw \in ByteStrings /\ o \in 0 .. Len(raw)
        /\ Der(v) \in ByteStrings /\ rest \in ByteStrings
    BY <1>1, <2>1 DEF ByteStrings
  <2>3. /\ o + Len(Der(v)) <= Len(raw)
        /\ \A i \in 1 .. Len(Der(v)) : raw[o + i] = Der(v)[i]
        /\ Onward(raw, o + Len(Der(v))) = rest
    BY <2>2, Remains
  <2> QED BY <1>1, <2>3
<1>4. /\ raw[o + 1] = 4 /\ raw[o + 2] = Der(v)[2] /\ (n = 3 => raw[o + 3] = Der(v)[3])
      /\ \A i \in 1 .. Len(v) : raw[o + (n + i)] = v[i]
  <2>1. 1 \in 1 .. Len(Der(v)) /\ 2 \in 1 .. Len(Der(v)) /\ (n = 3 => 3 \in 1 .. Len(Der(v)))
    BY <1>1, <1>2
  <2>2. \A i \in 1 .. Len(v) : n + i \in 1 .. Len(Der(v))
    BY <1>1, <1>2
  <2>3. raw[o + 1] = 4 /\ raw[o + 2] = Der(v)[2] /\ (n = 3 => raw[o + 3] = Der(v)[3])
    BY <1>2, <1>3, <2>1
  <2>4. ASSUME NEW i \in 1 .. Len(v) PROVE raw[o + (n + i)] = v[i]
    <3>1. raw[o + (n + i)] = Der(v)[n + i]
      BY <1>3, <2>2
    <3> QED BY <1>2, <3>1
  <2> QED BY <2>3, <2>4
<1>5. LengthBytes(o) = n - 2 /\ FieldLength(o) = Len(v)
  <2>1. CASE n = 2
    BY <1>1, <1>2, <1>4, <2>1 DEF LengthBytes, FieldLength
  <2>2. CASE n = 3
    <3>1. raw[o + 2] = 129 /\ raw[o + 3] = Len(v)
      BY <1>2, <1>4, <2>2
    <3>2. LengthBytes(o) = 1
      BY <3>1 DEF LengthBytes
    <3>3. LongLength(o + 2, 1) = raw[o + 3]
      <4>1. o + 2 + 1 - 0 = o + 3
        OBVIOUS
      <4> QED BY <1>1, <3>1, <4>1 DEF LongLength
    <3> QED BY <2>2, <3>1, <3>2, <3>3 DEF FieldLength
  <2> QED BY <1>2, <2>1, <2>2
<1>6. Body(o) = o + n /\ Body(o) \in Nat
  BY <1>5 DEF Body
<1>7. Taken(Len(v)) = Len(v)
  BY <1>1, TakenWhole
<1>8. TlvEnd(o) = Body(o) + Len(v) /\ TlvEnd(o) = o + Len(Der(v))
  <2>1. TlvEnd(o) = Body(o) + Len(v)
    BY <1>5, <1>7 DEF TlvEnd
  <2>2. PICK m \in 0 .. 255 : m = Len(v)
    BY <1>1
  <2>3. (o + n) + m = o + (n + m)
    BY <1>6
  <2>4. TlvEnd(o) = (o + n) + m
    BY <1>6, <2>1, <2>2
  <2>5. o + Len(Der(v)) = o + (n + m)
    <3>1. Len(Der(v)) = n + Len(v)
      BY <1>2
    <3> QED BY <2>2, <3>1
  <2> QED BY <2>1, <2>3, <2>4, <2>5
<1>9. \A i \in 1 .. Len(v) : raw[Body(o) + i] = v[i]
  <2>1. ASSUME NEW i \in 1 .. Len(v) PROVE Body(o) + i = o + (n + i)
    <3>1. PICK j \in Nat : j = i
      BY <1>1
    <3>2. o + n + j = o + (n + j)
      BY <1>6
    <3> QED BY <1>6, <3>1, <3>2
  <2> QED BY <1>4, <2>1
<1>10. TlvData(o) = v
  <2>1. TlvData(o) = [i \in 1 .. Len(v) |-> raw[Body(o) + i]]
    BY <1>1, <1>5, <1>7, SMTT(30) DEF TlvData
  <2>2. v = [i \in 1 .. Len(v) |-> v[i]]
    BY <1>0, LenProperties
  <2> QED BY <1>9, <2>1, <2>2
<1>11. TlvReads(o)
  <2>1. PICK m \in 0 .. 255, size \in Nat : m = Len(v) /\ size = Size
    BY <1>1, SizeType, SMTT(30)
  <2>2. o + (n + m) <= size
    <3>1. Len(Der(v)) = n + Len(v) /\ m = Len(v)
      BY <1>2, <2>1, Zenon
    <3>2. o + Len(Der(v)) <= size
      BY <1>3, <2>1, Zenon
    <3> QED BY <3>1, <3>2, Zenon
  <2>3. HasHead(o)
    <3>1. size - o >= 2 /\ size - (o + 2) >= n - 2 /\ n - 2 <= 4
      BY <2>2
    <3>2. raw[o + 1] % 32 = 4
      BY <1>4
    <3> QED BY <1>5, <2>1, <3>1, <3>2 DEF HasHead, Left
  <2>4. size - (o + n) >= m /\ m <= MAX_TRANSACTION_LEN
    BY <2>2 DEF MAX_TRANSACTION_LEN
  <2>5. FieldLength(o) = m /\ Taken(m) = m /\ Body(o) = o + n
    BY <1>5, <1>6, <1>7, <2>1
  <2> QED BY <2>1, <2>3, <2>4, <2>5 DEF TlvReads, Left
<1> QED BY <1>3, <1>5, <1>6, <1>8, <1>9, <1>10, <1>11

\* What a transaction that is serialised has from its first field on, from its
\* second, and so on to the end
Wire ==
  LET d(k) == Der(request.values[k])
      w6 == d(6) \o d(7)
      w5 == d(5) \o w6
      w4 == d(4) \o w5
      w3 == d(3) \o w4
      w2 == d(2) \o w3
  IN <<d(1) \o w2, w2, w3, w4, w5, w6, d(7), <<>> >>

\* What is signed before its first field, before its second, and so on to the
\* operation
Signed ==
  LET v == request.values
      s2 == v[1] \o v[2]
      s3 == s2 \o v[3]
      s4 == s3 \o v[4]
  IN << <<>>, v[1], s2, s3, s4, s4 \o v[5]>>

\* How far a serialised transaction is read, and what of it is signed
SerialInv ==
  /\ phase = "path" => header = <<>>
  /\ phase = "digest" => ~IsTransaction
  /\ Serialised(Len(path)) =>
       /\ phase = "fields" =>
            fields \in 0 .. 5 /\ Onward(raw, offset) = Wire[fields + 1] /\ header = Signed[fields + 1]
       /\ phase \in {"arrived", "hashing", "hashed"} => Onward(raw, offset) = Wire[7]
       /\ phase \in {"arrived", "hashing", "hashed", "accepted", "hung"} =>
            header = Signed[6] /\ buf = request.values[6]
       /\ phase \in {"accepted", "hung"} => trailer = <<FirstOf(request.values[7])>> /\ parser # <<>>

\* The values of a serialised transaction are bytes, and short.
LEMMA ValueType ==
  ASSUME ShortValues, NEW k \in 1 .. 7
  PROVE  /\ request.values[k] \in ByteStrings /\ Len(request.values[k]) < 256
         /\ Der(request.values[k]) \in ByteStrings
<1>1. request.values[k] \in Seq(0 .. 255) /\ Len(request.values[k]) < 256
  BY DEF ShortValues
<1>2. PICK v \in Seq(0 .. 255) : v = request.values[k]
  BY <1>1
<1>3. Der(v) \in Seq(0 .. 255)
  BY <1>1, <1>2, DerType
<1> QED BY <1>1, <1>2, <1>3 DEF ByteStrings

\* Two pieces of bytes, one behind the other, are bytes.
LEMMA BytesJoined ==
  ASSUME NEW a \in ByteStrings, NEW b \in ByteStrings
  PROVE  a \o b \in ByteStrings /\ a \o <<>> = a /\ <<>> \o a = a /\ <<>> \in ByteStrings
BY ConcatProperties, ConcatEmptySeq, EmptySeq DEF ByteStrings

\* In front of what is still to be read lies the next field.
LEMMA WireGoesOn ==
  ASSUME ShortValues, NEW k \in 0 .. 6
  PROVE  /\ Wire[k + 1] = Der(request.values[k + 1]) \o Wire[k + 2]
         /\ Wire[k + 2] \in ByteStrings
<1> DEFINE d(i) == Der(request.values[i])
<1>1. /\ d(1) \in ByteStrings /\ d(2) \in ByteStrings /\ d(3) \in ByteStrings
      /\ d(4) \in ByteStrings /\ d(5) \in ByteStrings /\ d(6) \in ByteStrings
      /\ d(7) \in ByteStrings
  BY ValueType, SMTT(30)
<1>2. /\ Wire[1] = d(1) \o Wire[2] /\ Wire[2] = d(2) \o Wire[3]
      /\ Wire[3] = d(3) \o Wire[4] /\ Wire[4] = d(4) \o Wire[5]
      /\ Wire[5] = d(5) \o Wire[6] /\ Wire[6] = d(6) \o Wire[7]
      /\ Wire[7] = d(7) /\ Wire[8] = <<>>
  BY DEF Wire
<1> HIDE DEF d
<1>3. Wire[8] \in ByteStrings /\ Wire[7] \in ByteStrings /\ Wire[7] = d(7) \o Wire[8]
  BY <1>1, <1>2, BytesJoined
<1>4. Wire[6] \in ByteStrings
  BY <1>1, <1>2, <1>3, BytesJoined
<1>5. Wire[5] \in ByteStrings
  BY <1>1, <1>2, <1>4, BytesJoined
<1>6. Wire[4] \in ByteStrings
  BY <1>1, <1>2, <1>5, BytesJoined
<1>7. Wire[3] \in ByteStrings
  BY <1>1, <1>2, <1>6, BytesJoined
<1>8. Wire[2] \in ByteStrings
  BY <1>1, <1>2, <1>7, BytesJoined
<1>9. Wire[k + 1] = d(k + 1) \o Wire[k + 2] /\ Wire[k + 2] \in ByteStrings
  <2>1. CASE k = 0
    <3>1. k + 1 = 1 /\ k + 2 = 2
      BY <2>1
    <3> QED BY <1>2, <1>8, <3>1
  <2>2. CASE k = 1
    <3>1. k + 1 = 2 /\ k + 2 = 3
      BY <2>2
    <3> QED BY <1>2, <1>7, <3>1
  <2>3. CASE k = 2
    <3>1. k + 1 = 3 /\ k + 2 = 4
      BY <2>3
    <3> QED BY <1>2, <1>6, <3>1
  <2>4. CASE k = 3
    <3>1. k + 1 = 4 /\ k + 2 = 5
      BY <2>4
    <3> QED BY <1>2, <1>5, <3>1
  <2>5. CASE k = 4
    <3>1. k + 1 = 5 /\ k + 2 = 6
      BY <2>5
    <3> QED BY <1>2, <1>4, <3>1
  <2>6. CASE k = 5
    <3>1. k + 1 = 6 /\ k + 2 = 7
      BY <2>6
    <3> QED BY <1>2, <1>3, <3>1
  <2>7. CASE k = 6
    <3>1. k + 1 = 7 /\ k + 2 = 8
      BY <2>7
    <3> QED BY <1>3, <3>1
  <2>8. k \in {0, 1, 2, 3, 4, 5, 6}
    OBVIOUS
  <2> QED BY <2>1, <2>2, <2>3, <2>4, <2>5, <2>6, <2>7, <2>8
<1> QED BY <1>9 DEF d

\* What is signed grows by a value.
LEMMA SignedGoesOn ==
  ASSUME ShortValues, NEW k \in 0 .. 4
  PROVE  Signed[k + 2] = Signed[k + 1] \o request.values[k + 1]
<1> DEFINE v(i) == request.values[i]
<1>1. /\ Signed[1] = <<>> /\ Signed[2] = v(1) /\ Signed[3] = Signed[2] \o v(2)
      /\ Signed[4] = Signed[3] \o v(3) /\ Signed[5] = Signed[4] \o v(4)
      /\ Signed[6] = Signed[5] \o v(5)
  BY DEF Signed
<1>2. Signed[2] = Signed[1] \o v(1)
  BY <1>1, ValueType, BytesJoined
<1> HIDE DEF v
<1>3. CASE k = 0
  <2>1. k + 1 = 1 /\ k + 2 = 2
    BY <1>3
  <2> QED BY <1>2, <2>1 DEF v
<1>4. CASE k = 1
  <2>1. k + 1 = 2 /\ k + 2 = 3
    BY <1>4
  <2> QED BY <1>1, <2>1 DEF v
<1>5. CASE k = 2
  <2>1. k + 1 = 3 /\ k + 2 = 4
    BY <1>5
  <2> QED BY <1>1, <2>1 DEF v
<1>6. CASE k = 3
  <2>1. k + 1 = 4 /\ k + 2 = 5
    BY <1>6
  <2> QED BY <1>1, <2>1 DEF v
<1>7. CASE k = 4
  <2>1. k + 1 = 5 /\ k + 2 = 6
    BY <1>7
  <2> QED BY <1>1, <2>1 DEF v
<1>8. k \in {0, 1, 2, 3, 4}
  OBVIOUS
<1> QED BY <1>3, <1>4, <1>5, <1>6, <1>7, <1>8

\* The next field of a serialised transaction is read as it is.
LEMMA NextField ==
  ASSUME request \in Requests, ShortValues, NEW o \in 0 .. Size, NEW k \in 0 .. 6,
         Onward(raw, o) = Wire[k + 1]
  PROVE  LET v == request.values[k + 1]
         IN /\ TlvReads(o) /\ FieldLength(o) = Len(v) /\ Len(v) \in Nat
            /\ TlvEnd(o) = Body(o) + Len(v) /\ TlvEnd(o) <= Size
            /\ Body(o) \in Nat /\ \A i \in 1 .. Len(v) : raw[Body(o) + i] = v[i]
            /\ TlvData(o) = v
            /\ Onward(raw, TlvEnd(o)) = Wire[k + 2]
<1>1. PICK v \in ByteStrings : v = request.values[k + 1]
  <2>1. k + 1 \in 1 .. 7
    OBVIOUS
  <2> QED BY <2>1, ValueType
<1>2. Len(v) < 256 /\ Len(v) \in Nat
  <2>1. Len(v) < 256
    BY <1>1, ValueType
  <2>2. Len(v) \in 0 .. 255
    BY <2>1, ShortLength DEF ByteStrings
  <2> QED BY <2>1, <2>2
<1>3. PICK rest \in ByteStrings : rest = Wire[k + 2]
  BY WireGoesOn
<1>4. Parts(raw, o, Der(v), rest)
  BY <1>1, <1>3, WireGoesOn DEF Parts
<1> QED BY <1>1, <1>2, <1>3, <1>4, DerIsRead

\* Nothing is signed when a request arrives.
LEMMA SerialInit == Init => SerialInv
BY DEF Init, SerialInv

\* The path of a serialised transaction is all there: its fields begin behind it.
LEMMA PathOfSerialised ==
  ASSUME request \in Requests, NEW n \in Nat, Serialised(n)
  PROVE  BehindPath(n) = 1 + 4 * n /\ Onward(raw, BehindPath(n)) = Wire[1]
<1>1. Size = Len(raw) /\ Size \in Nat
  BY SizeType DEF Size
<1>2. ShortValues /\ SubSeq(raw, 2 + 4 * n, Size) = Wire[1]
  BY DEF Serialised, Wire
<1>3. Len(Wire[1]) >= 2
  <2>1. PICK d \in ByteStrings, w \in ByteStrings : Wire[1] = d \o w /\ Len(d) >= 2
    <3>1. request.values[1] \in Seq(0 .. 255) /\ Len(request.values[1]) < 256
      BY <1>2 DEF ShortValues
    <3>2. Len(Der(request.values[1])) >= 2
      <4>1. PICK v \in Seq(0 .. 255) : v = request.values[1]
        BY <3>1
      <4> QED BY <3>1, <4>1, DerType
    <3>3. PICK k \in 0 .. 6 : k + 1 = 1 /\ k + 2 = 2
      OBVIOUS
    <3>4. Wire[1] = Der(request.values[1]) \o Wire[2] /\ Wire[2] \in ByteStrings
      BY <1>2, <3>3, WireGoesOn
    <3>5. Der(request.values[1]) \in ByteStrings
      BY <1>2, ValueType
    <3> QED BY <3>2, <3>4, <3>5
  <2>2. PICK ld \in Nat, lw \in Nat : ld = Len(d) /\ lw = Len(w)
    BY LenProperties DEF ByteStrings
  <2>3. Len(d \o w) = ld + lw
    BY <2>2, ConcatProperties DEF ByteStrings
  <2> QED BY <2>1, <2>2, <2>3
<1>4. 2 + 4 * n <= Size
  <2>1. SUFFICES ASSUME ~(2 + 4 * n <= Size) PROVE FALSE
    OBVIOUS
  <2>2. SubSeq(raw, 2 + 4 * n, Size) = <<>>
    BY <1>1, <2>1, SubSeqEmpty
  <2>3. Wire[1] = <<>> /\ Len(<<>>) = 0
    BY <1>2, <2>2, EmptySeq
  <2> QED BY <1>3, <2>3
<1>5. BehindPath(n) = 1 + 4 * n
  BY <1>1, <1>4 DEF BehindPath
<1>6. (1 + 4 * n) + 1 = 2 + 4 * n
  OBVIOUS
<1> QED BY <1>1, <1>2, <1>5, <1>6 DEF Onward

\* Until a transaction is accepted, a step that leaves all of this alone
LEMMA SerialKept ==
  ASSUME SerialInv, UNCHANGED <<request, path, offset, fields, header, trailer>>, buf' = buf,
         \/ phase' = phase /\ (parser' = <<>> => parser = <<>>)
         \/ phase' \in {"hashing", "hashed"} /\ phase \in {"arrived", "hashing"}
         \/ phase' = "refused"
         \/ phase' = "accepted" /\ ~IsTransaction
         \/ phase = "accepted" /\ phase' = "hung" /\ parser' = parser
  PROVE  SerialInv'
<1>1. /\ raw' = raw /\ IsTransaction' = IsTransaction /\ path' = path
      /\ Wire' = Wire /\ Signed' = Signed
  BY DEF raw, IsTransaction, Wire, Signed, Der
<1>2. Serialised(Len(path))' = Serialised(Len(path))
  BY <1>1 DEF Serialised, ShortValues, Size, raw, Der
<1>3. Onward(raw, offset)' = Onward(raw, offset)
  BY <1>1 DEF Onward
<1>4. Serialised(Len(path)) => IsTransaction
  BY DEF Serialised
<1> QED BY <1>1, <1>2, <1>3, <1>4 DEF SerialInv

\* The values are as they were, and what they are serialised to.
LEMMA SameRequest ==
  ASSUME request' = request
  PROVE  /\ raw' = raw /\ Size' = Size /\ Wire' = Wire /\ Signed' = Signed
         /\ IsTransaction' = IsTransaction
         /\ \A n : Serialised(n)' <=> Serialised(n)
<1>1. raw' = raw /\ Size' = Size /\ Wire' = Wire /\ Signed' = Signed /\ IsTransaction' = IsTransaction
  BY DEF raw, Size, IsTransaction, Wire, Signed, Der
<1>2. ASSUME NEW n PROVE Serialised(n)' <=> Serialised(n)
  BY <1>1 DEF Serialised, ShortValues, Der
<1> QED BY <1>1, <1>2

\* And so a path of as many elements.
LEMMA SamePath ==
  ASSUME request' = request, path' = path
  PROVE  Serialised(Len(path))' <=> Serialised(Len(path))
<1>1. PICK n : n = Len(path)
  OBVIOUS
<1>2. Serialised(n)' <=> Serialised(n)
  BY SameRequest
<1>3. Serialised(Len(path))' <=> Serialised(n)'
  BY <1>1 DEF Serialised
<1> QED BY <1>1, <1>2, <1>3

\* buffer_read_bip32_path leaves off where the first field begins.
LEMMA SerialPath == PathInv /\ SerialInv /\ ReadPath => SerialInv'
<1> SUFFICES ASSUME PathInv, SerialInv, ReadPath PROVE SerialInv'
  OBVIOUS
<1>1. /\ request' = request /\ fields' = 0 /\ header' = <<>> /\ phase = "path"
      /\ request \in Requests /\ UNCHANGED <<header, trailer, operation, fields, parser>>
  BY DEF ReadPath, PathInv, SerialInv
<1>2. CASE phase' = "refused" /\ UNCHANGED <<path, offset>>
  BY <1>1, <1>2, SerialKept DEF buf
<1>3. ASSUME PathReads(raw[1]), path' = [i \in 1 .. raw[1] |-> Element(i)],
             offset' = BehindPath(raw[1]),
             \/ IsTransaction /\ phase' = "fields"
             \/ ~IsTransaction /\ phase' \in {"digest", "accepted"}
      PROVE  SerialInv'
  <2>1. raw[1] \in 1 .. MAX_BIP32_PATH
    BY <1>3 DEF PathReads
  <2>2. PICK n \in Nat : n = raw[1] /\ Len(path') = n
    BY <1>3, <2>1 DEF MAX_BIP32_PATH
  <2>3. /\ raw' = raw /\ Wire' = Wire /\ Signed' = Signed /\ IsTransaction' = IsTransaction
        /\ Serialised(Len(path))' <=> Serialised(n)
    <3>1. Serialised(n)' <=> Serialised(n)
      BY <1>1, SameRequest
    <3>2. Serialised(Len(path))' <=> Serialised(n)'
      BY <2>2 DEF Serialised
    <3> QED BY <1>1, <3>1, <3>2, SameRequest
  <2>4. Serialised(n) => IsTransaction
    BY DEF Serialised
  <2>5. CASE ~IsTransaction
    BY <1>3, <2>3, <2>4, <2>5 DEF SerialInv
  <2>6. CASE IsTransaction
    <3>1. phase' = "fields"
      BY <1>3, <2>6
    <3>2. Serialised(n) => Onward(raw, offset') = Wire[1]
      BY <1>1, <1>3, <2>2, PathOfSerialised
    <3>3. Onward(raw, offset)' = Onward(raw, offset')
      BY <2>3 DEF Onward
    <3>4. Signed[1] = <<>>
      BY DEF Signed
    <3> QED BY <1>1, <2>3, <3>1, <3>2, <3>3, <3>4 DEF SerialInv
  <2> QED BY <2>5, <2>6
<1>4. \/ phase' = "refused" /\ UNCHANGED <<path, offset>>
      \/ /\ PathReads(raw[1]) /\ path' = [i \in 1 .. raw[1] |-> Element(i)]
         /\ offset' = BehindPath(raw[1])
         /\ \/ IsTransaction /\ phase' = "fields"
            \/ ~IsTransaction /\ phase' \in {"digest", "accepted"}
  <2>1. request.ins = "SIGN_HASH" \/ request.ins = "GET_PUBLIC_KEY" => ~IsTransaction
    BY DEF IsTransaction
  <2> QED BY <2>1 DEF ReadPath
<1> QED BY <1>2, <1>3, <1>4

\* A field before the operation: its value is signed behind those before it.
LEMMA SerialField == OperationInv /\ SerialInv /\ ReadField => SerialInv'
<1> SUFFICES ASSUME OperationInv, SerialInv, ReadField PROVE SerialInv'
  OBVIOUS
<1>1. CASE phase' = "refused"
  BY <1>1 DEF SerialInv
<1>2. CASE phase' # "refused"
  <2>1. /\ header' = header \o TlvData(offset) /\ offset' = TlvEnd(offset)
        /\ fields' = fields + 1 /\ phase = "fields" /\ phase' = "fields" /\ fields < 5
        /\ request' = request /\ path' = path
    BY <1>2 DEF ReadField
  <2>2. /\ raw' = raw /\ Wire' = Wire /\ Signed' = Signed
        /\ Serialised(Len(path))' <=> Serialised(Len(path))
    BY <2>1, SameRequest, SamePath
  <2>3. ASSUME Serialised(Len(path))
        PROVE  /\ fields' \in 0 .. 5 /\ Onward(raw, offset') = Wire[fields' + 1]
               /\ header' = Signed[fields' + 1]
    <3>1. ShortValues
      BY <2>3 DEF Serialised
    <3>2. PICK k \in 0 .. 4 : k = fields
      BY <2>1, <2>3 DEF SerialInv
    <3>3. Onward(raw, offset) = Wire[k + 1] /\ header = Signed[k + 1]
      BY <2>1, <2>3, <3>2 DEF SerialInv
    <3>4. request \in Requests /\ offset \in 0 .. Size
      BY SizeType DEF OperationInv, RequestInv
    <3>5. k \in 0 .. 6
      OBVIOUS
    <3>6. TlvData(offset) = request.values[k + 1] /\ Onward(raw, TlvEnd(offset)) = Wire[k + 2]
      BY <3>1, <3>3, <3>4, <3>5, NextField
    <3>7. Signed[k + 2] = Signed[k + 1] \o request.values[k + 1]
      BY <3>1, SignedGoesOn
    <3>8. fields' = k + 1 /\ fields' + 1 = k + 2 /\ fields' \in 0 .. 5
      BY <2>1, <3>2
    <3> QED BY <2>1, <3>3, <3>6, <3>7, <3>8
  <2>4. Onward(raw, offset)' = Onward(raw, offset')
    BY <2>2 DEF Onward
  <2> QED BY <2>1, <2>2, <2>3, <2>4 DEF SerialInv
<1> QED BY <1>1, <1>2

\* The operation arrives as it was serialised.
LEMMA SerialOperation == OperationInv /\ SerialInv /\ ReadOperation => SerialInv'
<1> SUFFICES ASSUME OperationInv, SerialInv, ReadOperation PROVE SerialInv'
  OBVIOUS
<1>1. CASE phase' = "refused"
  BY <1>1 DEF SerialInv
<1>2. CASE phase' # "refused"
  <2> DEFINE length == FieldLength(offset)
             from == TlvEnd(offset) - length
             bytes == [i \in 1 .. length |-> Memory(from + i - 1)]
  <2>1. /\ offset' = TlvEnd(offset) /\ phase = "fields" /\ phase' = "arrived" /\ fields = 5
        /\ request' = request /\ path' = path /\ header' = header
        /\ operation' = [bytes |-> bytes, number |-> Memory(from), offset |-> 0]
    BY <1>2 DEF ReadOperation
  <2>2. /\ raw' = raw /\ Wire' = Wire /\ Signed' = Signed
        /\ Serialised(Len(path))' <=> Serialised(Len(path))
    BY <2>1, SameRequest, SamePath
  <2>3. buf' = bytes
    <3> HIDE DEF bytes, from
    <3> QED BY <2>1 DEF buf
  <2>4. ASSUME Serialised(Len(path))
        PROVE  /\ Onward(raw, offset') = Wire[7] /\ header' = Signed[6]
               /\ bytes = request.values[6]
    <3>1. ShortValues
      BY <2>4 DEF Serialised
    <3>2. PICK k \in 0 .. 6 : k = 5 /\ k + 1 = 6 /\ k + 2 = 7
      OBVIOUS
    <3>3. Onward(raw, offset) = Wire[k + 1] /\ header = Signed[6]
      BY <2>1, <2>4, <3>2 DEF SerialInv
    <3>4. request \in Requests /\ offset \in 0 .. Size
      BY SizeType DEF OperationInv, RequestInv
    <3>5. PICK v : v = request.values[6]
      OBVIOUS
    <3>6. /\ length = Len(v) /\ Len(v) \in Nat
          /\ TlvEnd(offset) = Body(offset) + Len(v) /\ TlvEnd(offset) <= Size
          /\ Body(offset) \in Nat /\ \A i \in 1 .. Len(v) : raw[Body(offset) + i] = v[i]
          /\ Onward(raw, TlvEnd(offset)) = Wire[7]
      <4> HIDE DEF length, from, bytes
      <4>1. PICK w : w = request.values[k + 1]
        OBVIOUS
      <4>2. /\ FieldLength(offset) = Len(w) /\ Len(w) \in Nat
            /\ TlvEnd(offset) = Body(offset) + Len(w) /\ TlvEnd(offset) <= Size
            /\ Body(offset) \in Nat /\ \A i \in 1 .. Len(w) : raw[Body(offset) + i] = w[i]
            /\ Onward(raw, TlvEnd(offset)) = Wire[k + 2]
        BY <3>1, <3>3, <3>4, <4>1, NextField
      <4>3. w = v /\ Wire[k + 2] = Wire[7]
        BY <3>2, <3>5, <4>1
      <4>4. length = FieldLength(offset)
        BY DEF length
      <4> QED BY <4>2, <4>3, <4>4
    <3>7. v \in Seq(0 .. 255)
      BY <3>1, <3>5 DEF ShortValues
    <3>8. bytes = v
      <4>1. PICK o \in Nat, n \in Nat, size \in Nat :
              o = Body(offset) /\ n = Len(v) /\ size = Size
        BY <3>4, <3>6, SizeType
      <4>2. from = o /\ o + n <= size
        BY <3>6, <4>1
      <4>3. ASSUME NEW i \in 1 .. n PROVE Memory(o + i - 1) = v[i]
        <5>1. o + i - 1 \in 0 .. size - 1 /\ (o + i - 1) + 1 = o + i
          BY <4>2
        <5>2. Memory(o + i - 1) = raw[o + i]
          BY <4>1, <5>1 DEF Memory
        <5> QED BY <3>6, <4>1, <5>2
      <4>4. bytes = [i \in 1 .. n |-> Memory(o + i - 1)]
        BY <3>6, <4>1, <4>2
      <4>5. v = [i \in 1 .. n |-> v[i]]
        BY <3>7, <4>1, LenProperties
      <4> QED BY <4>3, <4>4, <4>5
    <3> QED BY <2>1, <3>3, <3>5, <3>6, <3>8
  <2>5. Onward(raw, offset)' = Onward(raw, offset')
    BY <2>2 DEF Onward
  <2> HIDE DEF bytes
  <2> QED BY <2>1, <2>2, <2>3, <2>4, <2>5 DEF SerialInv
<1> QED BY <1>1, <1>2

\* The extensions are what lies behind the operation.
LEMMA SerialExtensions == OperationInv /\ SerialInv /\ ReadExtensions => SerialInv'
<1> SUFFICES ASSUME OperationInv, SerialInv, ReadExtensions PROVE SerialInv'
  OBVIOUS
<1>1. CASE phase' = "refused"
  BY <1>1 DEF SerialInv
<1>2. CASE phase' # "refused"
  <2>1. /\ phase = "hashed" /\ phase' = "accepted" /\ trailer' = <<FirstOf(TlvData(offset))>>
        /\ UNCHANGED <<request, path, header, operation, parser>>
    BY <1>2 DEF ReadExtensions
  <2>2. /\ raw' = raw /\ Wire' = Wire /\ Signed' = Signed /\ buf' = buf
        /\ Serialised(Len(path))' <=> Serialised(Len(path))
    BY <2>1, SameRequest, SamePath DEF buf
  <2>3. ASSUME Serialised(Len(path)) PROVE TlvData(offset) = request.values[7]
    <3>1. ShortValues
      BY <2>3 DEF Serialised
    <3>2. PICK k \in 0 .. 6 : k = 6 /\ k + 1 = 7
      OBVIOUS
    <3>3. Onward(raw, offset) = Wire[k + 1]
      BY <2>1, <2>3, <3>2 DEF SerialInv
    <3>4. request \in Requests /\ offset \in 0 .. Size
      BY SizeType DEF OperationInv, RequestInv
    <3> QED BY <3>1, <3>2, <3>3, <3>4, NextField
  <2>4. parser # <<>>
    BY <2>1 DEF OperationInv, BytesInv
  <2>5. FirstOf(TlvData(offset)) = FirstOf(request.values[7]) \/ ~Serialised(Len(path))
    BY <2>3
  <2> QED BY <2>1, <2>2, <2>4, <2>5 DEF SerialInv, FirstOf
<1> QED BY <1>1, <1>2

\* Each step keeps it.
LEMMA SerialStep == PathInv /\ OperationInv /\ SerialInv /\ [Next]_vars => SerialInv'
<1> SUFFICES ASSUME PathInv, OperationInv, SerialInv, [Next]_vars PROVE SerialInv'
  OBVIOUS
<1>1. CASE ReadPath
  BY <1>1, SerialPath
<1>2. CASE ReadField
  BY <1>2, SerialField
<1>3. CASE ReadOperation
  BY <1>3, SerialOperation
<1>4. CASE ReadExtensions
  BY <1>4, SerialExtensions
<1>5. CASE ReadDigest
  <2>1. phase' = "accepted" \/ phase' = "refused"
    BY <1>5 DEF ReadDigest
  <2>2. ~IsTransaction /\ request' = request /\ path' = path
    BY <1>5 DEF ReadDigest, SerialInv
  <2>3. ~Serialised(Len(path))'
    BY <2>2 DEF Serialised, IsTransaction
  <2> QED BY <2>1, <2>3 DEF SerialInv
<1>6. ASSUME UNCHANGED <<request, path, offset, fields, header, trailer>>,
             GetParser \/ HashField \/ \E p \in 0 .. Len(parser) - 1 : ShowField(p) \/ Hang(p)
      PROVE  SerialInv'
  <2>1. operation \in [bytes : Seq(0 .. 255), number : 0 .. 255, offset : 0 .. Len(buf)]
    BY DEF OperationInv, BytesInv
  <2>2. CASE GetParser
    <3>1. buf' = buf /\ phase = "arrived" /\ phase' \in {"hashing", "refused"}
      BY <2>2 DEF GetParser, buf
    <3> QED BY <1>6, <3>1, SerialKept
  <2>3. CASE HashField
    <3>1. buf' = buf
      BY <2>1, <2>3 DEF HashField, buf
    <3>2. phase = "hashing" /\ phase' \in {"hashing", "hashed", "refused"}
      BY <2>3 DEF HashField
    <3> QED BY <1>6, <3>1, <3>2, SerialKept
  <2>4. ASSUME NEW p \in 0 .. Len(parser) - 1, ShowField(p) PROVE SerialInv'
    <3>1. buf' = buf
      BY <2>1, <2>4 DEF ShowField, buf
    <3>2. phase' = phase /\ parser' = parser
      BY <2>4 DEF ShowField
    <3> QED BY <1>6, <3>1, <3>2, SerialKept
  <2>5. ASSUME NEW p \in 0 .. Len(parser) - 1, Hang(p) PROVE SerialInv'
    BY <1>6, <2>5, SerialKept DEF Hang, buf
  <2> QED BY <1>6, <2>2, <2>3, <2>4, <2>5
<1>7. CASE Decoding
  BY <1>6, <1>7 DEF Decoding
<1>8. CASE UNCHANGED vars
  BY <1>8, SerialKept DEF vars, operationVars, buf
<1> QED BY <1>1, <1>2, <1>3, <1>4, <1>5, <1>7, <1>8 DEF Next

\* transaction_parse: for every transaction whose seven values are serialised as
\* they should be, of whatever content and whatever lengths below 256, what is
\* signed are its values in their order, and no byte of a head or of a
\* neighbour.
THEOREM SerialisedIsSigned == Spec => []SignedAsSerialised
<1>1. OperationInv /\ SerialInv => SignedAsSerialised
  <2> SUFFICES ASSUME OperationInv, SerialInv, phase = "accepted", Serialised(Len(path))
               PROVE  LET v == request.values
                      IN /\ header = v[1] \o v[2] \o v[3] \o v[4] \o v[5]
                         /\ hashed = SubSeq(v[6], 1, Len(hashed))
                         /\ trailer = <<FirstOf(v[7])>>
    BY DEF SignedAsSerialised
  <2>1. /\ header = Signed[6] /\ buf = request.values[6]
        /\ trailer = <<FirstOf(request.values[7])>> /\ parser # <<>>
    BY DEF SerialInv
  <2>2. LET v == request.values IN Signed[6] = v[1] \o v[2] \o v[3] \o v[4] \o v[5]
    BY DEF Signed
  <2>3. DecodedInv /\ buf \in Seq(0 .. 255)
    BY <2>1 DEF OperationInv, BytesInv, buf
  <2>4. PICK whole \in 0 .. Len(buf) : whole = From(Len(ends))
    <3>1. Len(ends) \in 0 .. Len(ends)
      BY <2>3 DEF DecodedInv
    <3> QED BY <2>3, <3>1, FromType
  <2>5. hashed = SubSeq(buf, 1, whole)
    BY <2>3, <2>4 DEF DecodedInv
  <2>6. Len(hashed) = whole
    BY <2>3, <2>4, <2>5
  <2> QED BY <2>1, <2>2, <2>5, <2>6
<1> QED BY <1>1, PathInit, PathStep, OperationInit, OperationStep, SerialInit, SerialStep, PTL
    DEF Spec

-----------------------------------------------------------------------------
(* What the decoders make of an operation that was serialised              *)

\* The parser is that of the first byte of the operation.
ContentsInv ==
  /\ buf # <<>> => operation.number = buf[1]
  /\ parser # <<>> => operation.number \in Supported /\ parser = Parser(operation.number)

\* No operation has arrived with a request.
LEMMA ContentsInit == Init => ContentsInv
BY DEF Init, ContentsInv, buf

\* The operation stays as it is, and so does its parser.
LEMMA ContentsKept ==
  ASSUME ContentsInv, UNCHANGED parser, buf' = buf, operation'.number = operation.number
  PROVE  ContentsInv'
BY DEF ContentsInv

\* Each step keeps it.
LEMMA ContentsStep == OperationInv /\ ContentsInv /\ [Next]_vars => ContentsInv'
<1> SUFFICES ASSUME OperationInv, ContentsInv, [Next]_vars PROVE ContentsInv'
  OBVIOUS
<1>1. operation \in [bytes : Seq(0 .. 255), number : 0 .. 255, offset : 0 .. Len(buf)]
  BY DEF OperationInv, BytesInv
<1>2. ASSUME UNCHANGED <<operation, parser>> PROVE ContentsInv'
  BY <1>2, ContentsKept DEF buf
<1>3. CASE ReadPath \/ ReadField \/ ReadExtensions \/ ReadDigest \/ UNCHANGED vars
  BY <1>2, <1>3 DEF ReadPath, ReadField, ReadExtensions, ReadDigest, vars, operationVars
<1>4. CASE ReadOperation
  <2>1. CASE UNCHANGED operation
    <3>1. UNCHANGED parser
      BY <1>4 DEF ReadOperation
    <3> QED BY <1>2, <2>1, <3>1
  <2>2. CASE ~UNCHANGED operation
    <3> DEFINE length == FieldLength(offset)
               from == TlvEnd(offset) - length
               bytes == [i \in 1 .. length |-> Memory(from + i - 1)]
    <3>1. /\ TlvReads(offset) /\ phase = "fields" /\ UNCHANGED parser
          /\ operation' = [bytes |-> bytes, number |-> Memory(from), offset |-> 0]
      BY <1>4, <2>2 DEF ReadOperation
    <3>2. parser' = <<>>
      BY <3>1 DEF OperationInv, BytesInv
    <3>3. request \in Requests /\ offset \in Nat
      BY SizeType DEF OperationInv, RequestInv
    <3>4. TlvEnd(offset) \in offset .. Size /\ length \in Nat
      BY <3>1, <3>3, TlvGoesOn
    <3>5. TlvEnd(offset) \in Int /\ from \in Int
      BY <3>3, <3>4, SizeType
    <3>6. ASSUME bytes # <<>> PROVE Memory(from) = bytes[1]
      <4>1. length # 0
        BY <3>6
      <4>2. 1 \in 1 .. length /\ from + 1 - 1 = from
        BY <3>4, <3>5, <4>1
      <4> HIDE DEF from, length
      <4> QED BY <4>2
    <3>7. buf' = bytes /\ operation'.number = Memory(from)
      <4> HIDE DEF bytes, from
      <4> QED BY <3>1 DEF buf
    <3> HIDE DEF bytes, from
    <3> QED BY <3>2, <3>6, <3>7 DEF ContentsInv
  <2> QED BY <2>1, <2>2
<1>5. CASE GetParser
  <2>1. buf' = buf /\ operation' = operation
    BY <1>5 DEF GetParser, buf
  <2>2. CASE operation.number \in Supported
    BY <1>5, <2>1, <2>2 DEF GetParser, ContentsInv
  <2>3. CASE operation.number \notin Supported
    BY <1>5, <2>1, <2>3, ContentsKept DEF GetParser
  <2> QED BY <2>2, <2>3
<1>6. CASE HashField
  <2>1. buf' = buf /\ operation'.number = operation.number /\ UNCHANGED parser
    BY <1>1, <1>6 DEF HashField, buf
  <2> QED BY <2>1, ContentsKept
<1>7. ASSUME NEW p \in 0 .. Len(parser) - 1, ShowField(p) \/ Hang(p) PROVE ContentsInv'
  <2>1. buf' = buf /\ operation'.number = operation.number /\ UNCHANGED parser
    BY <1>1, <1>7 DEF ShowField, Hang, buf
  <2> QED BY <2>1, ContentsKept
<1> QED BY <1>3, <1>4, <1>5, <1>6, <1>7 DEF Next, Decoding

\* An operation begins with its number.
LEMMA NumberInFront ==
  ASSUME buf \in Seq(0 .. 255), WholeOperation, buf = request.values[6]
  PROVE  LET c == request.contents
             kinds == Parser(c[1][1])
             pieces == Laid(kinds, c)
         IN /\ c[1][1] \in Supported /\ buf # <<>> /\ buf[1] = c[1][1]
            /\ kinds \in Seq(Kinds) /\ Len(c) = Len(kinds)
            /\ \A k \in 1 .. Len(kinds) : c[k] \in FieldValues(kinds[k])
            /\ pieces \in Seq(Seq(0 .. 255)) /\ Len(pieces) = Len(kinds)
            /\ Lies(0, FlattenSeq(pieces)) /\ Len(FlattenSeq(pieces)) = Len(buf)
<1>1. PICK c : c = request.contents
  OBVIOUS
<1>2. PICK n \in Supported : c[1] = <<n>>
  BY <1>1 DEF WholeOperation
<1>3. c[1][1] = n
  BY <1>2
<1>4. PICK kinds : kinds = Parser(n)
  OBVIOUS
<1>5. /\ Len(c) = Len(kinds) /\ \A k \in 1 .. Len(kinds) : c[k] \in FieldValues(kinds[k])
      /\ request.values[6] = FlattenSeq(Laid(kinds, c))
  BY <1>1, <1>3, <1>4 DEF WholeOperation
<1>6. kinds \in Seq(Kinds) /\ Len(kinds) \in 1 .. 9
  BY <1>4, ParserKinds
<1>7. PICK pieces : pieces = Laid(kinds, c)
  OBVIOUS
<1>8. pieces \in Seq(Seq(0 .. 255)) /\ Len(pieces) = Len(kinds)
  BY <1>5, <1>6, <1>7, LaidType DEF ByteStrings
<1>9. buf = FlattenSeq(pieces)
  BY <1>5, <1>7
<1>10. Lies(0, FlattenSeq(pieces)) /\ Len(FlattenSeq(pieces)) = Len(buf)
  <2>1. PICK size \in Nat : size = Len(buf)
    BY LenProperties
  <2>2. 0 + size <= size /\ \A i \in 1 .. size : 0 + i = i
    BY <2>1
  <2>3. Lies(0, buf)
    BY <2>1, <2>2 DEF Lies
  <2> QED BY <1>9, <2>3
<1>11. kinds[1] = "operation_name"
  BY <1>4, ParserKinds
<1>12. 1 \in 1 .. Len(kinds)
  <2>1. PICK m \in 1 .. 9 : m = Len(kinds)
    BY <1>6
  <2>2. 1 \in 1 .. m
    OBVIOUS
  <2> QED BY <2>1, <2>2
<1>13. pieces[1] = c[1]
  <2>1. pieces[1] = FieldBytes("operation_name", c[1])
    BY <1>7, <1>11, <1>12 DEF Laid
  <2> QED BY <2>1 DEF FieldBytes
<1>14. buf # <<>> /\ buf[1] = n
  <2>1. PICK at \in [0 .. Len(pieces) -> Nat] :
          at[0] = 0 /\ \A i \in 1 .. Len(pieces) : Lies(at[i - 1], pieces[i])
    <3>1. 0 \in Nat
      OBVIOUS
    <3> QED BY <1>8, <1>10, <3>1, PlacesLie DEF ByteStrings
  <2>2. 1 \in 1 .. Len(pieces) /\ 1 - 1 = 0
    BY <1>8, <1>12
  <2>3. Lies(0, <<n>>)
    BY <1>2, <1>13, <2>1, <2>2
  <2>4. Len(<<n>>) = 1 /\ <<n>>[1] = n /\ 1 \in 1 .. 1 /\ 0 + 1 = 1
    OBVIOUS
  <2>5. 1 <= Len(buf) /\ buf[1] = n
    BY <2>3, <2>4 DEF Lies
  <2> QED BY <2>5, EmptySeq
<1> QED BY <1>1, <1>3, <1>4, <1>5, <1>6, <1>7, <1>8, <1>10, <1>14

\* at is where the fields of the operation begin, and the last of it is its end.
FieldsLie(at) ==
  /\ at \in [0 .. Len(parser) -> Nat] /\ at[0] = 0 /\ at[Len(parser)] = Len(buf)
  /\ Len(request.contents) = Len(parser)
  /\ \A k \in 1 .. Len(parser) :
       /\ parser[k] \in Kinds /\ request.contents[k] \in FieldValues(parser[k])
       /\ Lies(at[k - 1], FieldBytes(parser[k], request.contents[k]))
       /\ at[k] = at[k - 1] + Len(FieldBytes(parser[k], request.contents[k]))

\* Each value lies in its place, and is one for the decoder that comes to it.
LEMMA ValuesLie ==
  ASSUME BytesInv, ContentsInv, WholeOperation, buf = request.values[6], parser # <<>>
  PROVE  \E at : FieldsLie(at)
<1>1. buf \in Seq(0 .. 255)
  BY DEF BytesInv, buf
<1>2. PICK c : c = request.contents
  OBVIOUS
<1>3. PICK n : n = c[1][1]
  OBVIOUS
<1>4. PICK kinds : kinds = Parser(n)
  OBVIOUS
<1>5. PICK pieces : pieces = Laid(kinds, c)
  OBVIOUS
<1>6. /\ n \in Supported /\ buf # <<>> /\ buf[1] = n
      /\ kinds \in Seq(Kinds) /\ Len(c) = Len(kinds)
      /\ \A k \in 1 .. Len(kinds) : c[k] \in FieldValues(kinds[k])
      /\ pieces \in Seq(Seq(0 .. 255)) /\ Len(pieces) = Len(kinds)
      /\ Lies(0, FlattenSeq(pieces)) /\ Len(FlattenSeq(pieces)) = Len(buf)
  BY <1>1, <1>2, <1>3, <1>4, <1>5, NumberInFront
<1>7. parser = kinds
  BY <1>4, <1>6 DEF ContentsInv
<1>8. \E at \in [0 .. Len(pieces) -> Nat] :
        /\ at[0] = 0 /\ at[Len(pieces)] = 0 + Len(FlattenSeq(pieces))
        /\ \A k \in 1 .. Len(pieces) :
             Lies(at[k - 1], pieces[k]) /\ at[k] = at[k - 1] + Len(pieces[k])
  <2>1. 0 \in Nat
    OBVIOUS
  <2> QED BY <1>1, <1>6, <2>1, PlacesLie DEF ByteStrings
<1>9. PICK m \in Nat : m = Len(parser)
  <2>1. Len(kinds) \in Nat
    BY <1>6, LenProperties
  <2> QED BY <1>7, <2>1
<1>10. PICK size \in Nat : size = Len(buf)
  BY <1>1, LenProperties
<1>11. 0 + size = size
  OBVIOUS
<1>12. PICK at \in [0 .. m -> Nat] :
        /\ at[0] = 0 /\ at[m] = size
        /\ \A k \in 1 .. m : Lies(at[k - 1], pieces[k]) /\ at[k] = at[k - 1] + Len(pieces[k])
  <2>1. Len(pieces) = m /\ 0 + Len(FlattenSeq(pieces)) = size
    BY <1>6, <1>7, <1>9, <1>10, <1>11
  <2> QED BY <1>8, <2>1, Zenon
<1>13. ASSUME NEW k \in 1 .. m
       PROVE  /\ parser[k] \in Kinds /\ c[k] \in FieldValues(parser[k])
              /\ pieces[k] = FieldBytes(parser[k], c[k])
  <2>1. parser \in Seq(Kinds) /\ k \in 1 .. Len(parser)
    BY <1>6, <1>7, <1>9
  <2>2. parser[k] \in Kinds
    BY <2>1, ElementOfSeq
  <2>3. pieces[k] = FieldBytes(kinds[k], c[k])
    BY <1>5, <1>7, <2>1 DEF Laid
  <2> QED BY <1>6, <1>7, <2>1, <2>2, <2>3
<1>14. FieldsLie(at)
  BY <1>2, <1>6, <1>7, <1>9, <1>10, <1>12, <1>13 DEF FieldsLie
<1> QED BY <1>14

\* The decoder that comes to it reads it whole.
LEMMA ValueTaken ==
  ASSUME BytesInv, NEW at, FieldsLie(at), NEW k \in 1 .. Len(parser)
  PROVE  LET r == Decode(parser[k], at[k - 1])
         IN /\ r.ok /\ r.offset = at[k]
            /\ parser[k] # "beneficiaries" /\ TextEnds(parser[k], request.contents[k])
                 => r.shown = FieldText(parser[k], request.contents[k])
<1>1. buf \in Seq(0 .. 255)
  BY DEF BytesInv, buf
<1>2. PICK o \in Nat : o = at[k - 1]
  <2>1. PICK m \in Nat : m = Len(parser)
    <3>1. Len(<<>>) = 0
      OBVIOUS
    <3>2. parser # <<>> => Len(parser) \in Nat
      BY DEF BytesInv, DecodedInv
    <3> QED BY <3>1, <3>2
  <2>2. at \in [0 .. m -> Nat] /\ k \in 1 .. m
    BY <2>1 DEF FieldsLie
  <2>3. k - 1 \in 0 .. m
    BY <2>2
  <2> QED BY <2>2, <2>3
<1>3. PICK v : v = request.contents[k]
  OBVIOUS
<1>4. PICK kind \in Kinds : kind = parser[k]
  BY DEF FieldsLie
<1>5. /\ v \in FieldValues(kind) /\ Lies(o, FieldBytes(kind, v))
      /\ at[k] = o + Len(FieldBytes(kind, v))
  BY <1>2, <1>3, <1>4 DEF FieldsLie
<1>6. /\ Reaches(Decode(kind, o), o, FieldBytes(kind, v))
      /\ kind # "beneficiaries" /\ TextEnds(kind, v)
           => Decode(kind, o).shown = FieldText(kind, v)
  BY <1>1, <1>5, DecodeTakes DEF ByteStrings
<1>7. Decode(kind, o).ok /\ Decode(kind, o).offset = at[k]
  BY <1>5, <1>6 DEF Reaches
<1> QED BY <1>2, <1>3, <1>4, <1>6, <1>7

\* So each field begins where it should.
LEMMA PlacesReached ==
  ASSUME BytesInv, NEW at, FieldsLie(at), parser # <<>>, NEW k \in 0 .. Len(ends)
  PROVE  From(k) = at[k]
<1>1. DecodedInv
  BY DEF BytesInv
<1>2. PICK n \in Nat : n = Len(ends)
  BY <1>1, LenProperties DEF DecodedInv
<1>3. PICK m \in 1 .. 9 : m = Len(parser)
  BY <1>1 DEF DecodedInv
<1>4. n <= m
  BY <1>1, <1>2, <1>3 DEF DecodedInv
<1> DEFINE Bad == {j \in 0 .. n : From(j) # at[j]}
<1> SUFFICES ASSUME Bad # {} PROVE FALSE
  BY <1>2
<1>5. PICK j \in Bad : \A i \in Bad : j <= i
  <2>1. Bad \subseteq Nat
    OBVIOUS
  <2> HIDE DEF Bad
  <2> QED BY <2>1, LeastNumber
<1>6. j \in 0 .. n /\ From(j) # at[j]
  OBVIOUS
<1>7. CASE j = 0
  BY <1>6, <1>7 DEF From, FieldsLie
<1>8. CASE j # 0
  <2>1. j \in 1 .. n /\ j \in 1 .. m /\ j - 1 \in 0 .. n /\ ~(j <= j - 1)
    BY <1>4, <1>6, <1>8
  <2>2. From(j - 1) = at[j - 1]
    BY <1>5, <2>1
  <2>3. Decode(parser[j], From(j - 1)).offset = ends[j]
    BY <1>1, <1>2, <2>1 DEF DecodedInv
  <2>4. Decode(parser[j], at[j - 1]).offset = at[j]
    BY <1>3, <2>1, ValueTaken
  <2>5. From(j) = ends[j]
    BY <1>8 DEF From
  <2> QED BY <1>6, <2>2, <2>3, <2>4, <2>5
<1> QED BY <1>7, <1>8

\* transaction_parse and transaction_hash: of an operation of any kind, with any
\* values in its fields and any lists and authorities among them, every byte is
\* signed, if only it is serialised as it should be.
THEOREM WholeOperationIsSigned == Spec => []SignedWhole
<1>1. OperationInv /\ SerialInv /\ ContentsInv => SignedWhole
  <2> SUFFICES ASSUME OperationInv, SerialInv, ContentsInv,
                      phase = "accepted", Serialised(Len(path)), WholeOperation
               PROVE  hashed = request.values[6]
    BY DEF SignedWhole
  <2>1. BytesInv /\ buf = request.values[6] /\ parser # <<>>
    BY DEF SerialInv, OperationInv
  <2>2. DecodedInv /\ Len(ends) = Len(parser) /\ buf \in Seq(0 .. 255)
    BY <2>1 DEF BytesInv, buf
  <2>3. PICK at : FieldsLie(at)
    BY <2>1, ValuesLie
  <2>4. From(Len(ends)) = Len(buf)
    <3>1. Len(ends) \in 0 .. Len(ends)
      BY <2>2 DEF DecodedInv
    <3>2. From(Len(ends)) = at[Len(ends)]
      BY <2>1, <2>3, <3>1, PlacesReached
    <3> QED BY <2>2, <2>3, <3>2 DEF FieldsLie
  <2>5. hashed = SubSeq(buf, 1, Len(buf))
    BY <2>2, <2>4 DEF DecodedInv
  <2>6. SubSeq(buf, 1, Len(buf)) = buf
    BY <2>2, SubSeqFull
  <2> QED BY <2>1, <2>5, <2>6
<1> QED BY <1>1, PathInit, PathStep, OperationInit, OperationStep, SerialInit, SerialStep,
           ContentsInit, ContentsStep, PTL DEF Spec

\* parse_field: whichever field of it the user turns to, after whichever others,
\* the display shows the value that the client serialised there, and nothing of
\* another field.  Two kinds of values are excepted: beneficiaries, and those
\* whose text has no end of its own (TextEnds).
THEOREM ValuesAreShown == Spec => []ShownAsSent
<1>1. OperationInv /\ SerialInv /\ ContentsInv => ShownAsSent
  <2> SUFFICES ASSUME OperationInv, SerialInv, ContentsInv,
                      position >= 0, Serialised(Len(path)), WholeOperation,
                      parser[position + 1] # "beneficiaries",
                      TextEnds(parser[position + 1], request.contents[position + 1])
               PROVE  shown = FieldText(parser[position + 1], request.contents[position + 1])
    BY DEF ShownAsSent
  <2>1. BytesInv /\ DisplayInv /\ phase \in {"accepted", "hung"}
    BY DEF OperationInv, DisplayInv
  <2>2. buf = request.values[6] /\ parser # <<>>
    BY <2>1 DEF SerialInv
  <2>3. PICK at : FieldsLie(at)
    BY <2>1, <2>2, ValuesLie
  <2>4. PICK k \in 1 .. Len(parser) : k = position + 1
    BY <2>1, <2>2 DEF DisplayInv
  <2>5. position \in 0 .. 8 /\ position = k - 1
    BY <2>1, <2>4 DEF DisplayInv
  <2>6. DecodedInv /\ Len(ends) = Len(parser)
    BY <2>1, <2>2 DEF BytesInv
  <2>7. From(position) = at[k - 1]
    <3>1. PICK m \in 1 .. 9 : m = Len(parser)
      BY <2>6 DEF DecodedInv
    <3>2. position \in 0 .. Len(ends)
      BY <2>4, <2>5, <2>6, <3>1
    <3> QED BY <2>1, <2>2, <2>3, <2>5, <3>2, PlacesReached
  <2>8. shown = Decode(parser[k], at[k - 1]).shown
    BY <2>1, <2>2, <2>4, <2>7 DEF DisplayInv
  <2>9. Decode(parser[k], at[k - 1]).shown = FieldText(parser[k], request.contents[k])
    BY <2>1, <2>3, <2>4, ValueTaken
  <2> QED BY <2>4, <2>8, <2>9
<1> QED BY <1>1, PathInit, PathStep, OperationInit, OperationStep, SerialInit, SerialStep,
           ContentsInit, ContentsStep, PTL DEF Spec

-----------------------------------------------------------------------------
(* The path                                                                *)

\* Where fields are read, and where a request is accepted, all elements of its path
\* were read before.
PathThere ==
  /\ phase = "path" => path = <<>>
  /\ path # <<>> => Len(path) = raw[1]
  /\ phase = "accepted" => path # <<>> /\ shownPath = PathText(path)
  /\ phase \in {"fields", "arrived", "hashing", "hashed", "digest"} => path # <<>>

\* There is none when a request arrives.
LEMMA PathThereInit == Init => PathThere
BY DEF Init, PathThere

\* Each step keeps it.
LEMMA PathThereStep == PathThere /\ [Next]_vars => PathThere'
<1> SUFFICES ASSUME PathThere, [Next]_vars PROVE PathThere'
  OBVIOUS
<1>1. CASE ReadPath
  <2>1. raw' = raw
    BY <1>1 DEF ReadPath, raw
  <2>2. CASE phase' = "refused" /\ path' = path
    BY <2>1, <2>2 DEF PathThere
  <2>3. CASE ~(phase' = "refused" /\ path' = path)
    <3>1. /\ PathReads(raw[1]) /\ path' = [i \in 1 .. raw[1] |-> Element(i)]
          /\ phase' # "path" /\ (phase' = "accepted" => shownPath' = PathText(path'))
      BY <1>1, <2>3 DEF ReadPath, DisplayPath
    <3>2. raw[1] \in 1 .. 5
      BY <3>1 DEF PathReads, MAX_BIP32_PATH
    <3>3. Len(path') = raw[1] /\ path' # <<>>
      BY <3>1, <3>2
    <3> QED BY <2>1, <3>1, <3>3 DEF PathThere
  <2> QED BY <2>2, <2>3
<1>2. ASSUME UNCHANGED <<request, path>>,
             \/ phase' = phase /\ UNCHANGED shownPath
             \/ phase' \in {"refused", "hung"}
      PROVE  PathThere'
  BY <1>2 DEF PathThere, raw
<1>3. ASSUME UNCHANGED <<request, path>>,
             phase \in {"fields", "arrived", "hashing", "hashed", "digest"},
             \/ phase' \in {"fields", "arrived", "hashing", "hashed"}
             \/ phase' = "accepted" /\ shownPath' = PathText(path)
      PROVE  PathThere'
  BY <1>3 DEF PathThere, raw
<1>4. CASE ReadField
  BY <1>2, <1>3, <1>4 DEF ReadField
<1>5. CASE ReadOperation
  <2>1. UNCHANGED <<request, path>> /\ phase = "fields" /\ phase' \in {"arrived", "refused"}
    BY <1>5 DEF ReadOperation
  <2>2. CASE phase' = "refused"
    BY <1>2, <2>1, <2>2
  <2>3. CASE phase' # "refused"
    <3>1. phase' \in {"fields", "arrived", "hashing", "hashed"}
      BY <2>1, <2>3
    <3>2. phase \in {"fields", "arrived", "hashing", "hashed", "digest"}
      BY <2>1
    <3> QED BY <1>3, <2>1, <3>1, <3>2
  <2> QED BY <2>2, <2>3
<1>6. CASE ReadExtensions \/ ReadDigest
  BY <1>2, <1>3, <1>6 DEF ReadExtensions, ReadDigest, DisplayPath
<1>7. CASE Decoding
  <2>1. UNCHANGED <<request, path, shownPath>>
    BY <1>7 DEF Decoding
  <2>2. CASE GetParser \/ HashField
    <3>1. /\ phase \in {"arrived", "hashing"}
          /\ phase' \in {"hashing", "hashed"} \/ phase' = "refused"
      BY <2>2 DEF GetParser, HashField
    <3>2. CASE phase' = "refused"
      BY <1>2, <2>1, <3>2
    <3>3. CASE phase' # "refused"
      <4>1. phase' \in {"fields", "arrived", "hashing", "hashed"}
        BY <3>1, <3>3
      <4>2. phase \in {"fields", "arrived", "hashing", "hashed", "digest"}
        BY <3>1
      <4> QED BY <1>3, <2>1, <4>1, <4>2
    <3> QED BY <3>2, <3>3
  <2>3. ASSUME NEW p \in 0 .. Len(parser) - 1, ShowField(p) \/ Hang(p) PROVE PathThere'
    <3>1. phase' = phase \/ phase' = "hung"
      BY <2>3 DEF ShowField, Hang
    <3> QED BY <1>2, <2>1, <3>1
  <2> QED BY <1>7, <2>2, <2>3 DEF Decoding
<1>8. CASE UNCHANGED vars
  BY <1>2, <1>8 DEF vars, operationVars
<1> QED BY <1>1, <1>4, <1>5, <1>6, <1>7, <1>8 DEF Next

\* All of a path that was sent is the path that is read, and shown: the zeros or
\* whatever bytes lie behind the request are not taken for a part of it.
THEOREM SentPathIsShown == Spec => []PathAsSent
<1>1. PathInv /\ PathThere => PathAsSent
  <2> SUFFICES ASSUME PathInv, PathThere, phase = "accepted", Size > 4 * Len(path)
               PROVE  shownPath =
                        PathText([i \in 1 .. raw[1] |-> SubSeq(raw, 4 * i - 2, 4 * i + 1)])
    BY DEF PathAsSent
  <2>1. path # <<>> /\ shownPath = PathText(path) /\ Len(path) = raw[1]
    BY DEF PathThere
  <2>2. PICK n \in 1 .. 5 : n = Len(path) /\ path = [i \in 1 .. n |-> Element(i)]
    BY <2>1 DEF PathInv, AsRead, MAX_BIP32_PATH
  <2>3. PICK size \in Nat : size = Size /\ size = Len(raw)
    BY SizeType DEF PathInv, Size
  <2>4. raw \in Seq(0 .. 255)
    BY TransactionAssumption DEF PathInv, raw
  <2>5. ASSUME NEW i \in 1 .. n PROVE Element(i) = SubSeq(raw, 4 * i - 2, 4 * i + 1)
    <3>1. 4 * i + 1 <= size /\ 1 <= 4 * i - 2
      BY <2>2, <2>3
    <3>2. ASSUME NEW k \in 1 .. 4 PROVE Memory(4 * (i - 1) + k) = raw[4 * i - 2 + k - 1]
      <4>1. 4 * (i - 1) + k \in 0 .. size - 1 /\ 4 * (i - 1) + k + 1 = 4 * i - 2 + k - 1
        BY <3>1
      <4> QED BY <2>3, <4>1 DEF Memory
    <3>3. Element(i) = [k \in 1 .. 4 |-> raw[4 * i - 2 + k - 1]]
      BY <3>2 DEF Element
    <3>4. PICK a \in Nat, b \in Nat : a = 4 * i - 2 /\ b = 4 * i + 1 /\ b - a + 1 = 4
      OBVIOUS
    <3>5. SubSeq(raw, a, b) = [k \in 1 .. 4 |-> raw[a + k - 1]]
      <4>1. \A j \in a .. b : raw[j] \in 0 .. 255
        <5>1. \A j \in a .. b : j \in 1 .. Len(raw)
          BY <2>3, <3>1, <3>4
        <5> QED BY <2>4, <5>1, ElementOfSeq
      <4>2. /\ SubSeq(raw, a, b) \in Seq(0 .. 255)
            /\ Len(SubSeq(raw, a, b)) = IF a <= b THEN b - a + 1 ELSE 0
            /\ \A k \in 1 .. b - a + 1 : SubSeq(raw, a, b)[k] = raw[a + k - 1]
        BY <4>1, SubSeqProperties
      <4>3. a <= b
        BY <3>4
      <4>4. PICK s \in Seq(0 .. 255) : s = SubSeq(raw, a, b)
        BY <4>2
      <4>5. Len(s) = 4 /\ \A k \in 1 .. 4 : s[k] = raw[a + k - 1]
        BY <3>4, <4>2, <4>3, <4>4
      <4>6. s = [k \in 1 .. 4 |-> s[k]]
        BY <4>5, LenProperties
      <4>7. s = [k \in 1 .. 4 |-> raw[a + k - 1]]
        BY <4>5, <4>6
      <4> QED BY <4>4, <4>7
    <3> QED BY <3>3, <3>4, <3>5
  <2>6. path = [i \in 1 .. n |-> SubSeq(raw, 4 * i - 2, 4 * i + 1)]
    BY <2>2, <2>5
  <2> QED BY <2>1, <2>2, <2>6
<1> QED BY <1>1, PathInit, PathStep, PathThereInit, PathThereStep, PTL DEF Spec

-----------------------------------------------------------------------------
(* What was serialised is not refused                                      *)

\* What was sent, and may be refused only for the number of its operations
AsItShould ==
  /\ raw[1] \in 1 .. MAX_BIP32_PATH /\ Size <= MAX_TRANSACTION_LEN
  /\ Serialised(raw[1]) /\ WholeOperation

\* The request stays what it is.
LEMMA SameContents ==
  ASSUME request' = request
  PROVE  /\ AsItShould' <=> AsItShould
         /\ (FirstOf(request.values[5]) # 1)' <=> FirstOf(request.values[5]) # 1
<1>1. PICK n : n = raw[1]
  OBVIOUS
<1>2. Serialised(n)' <=> Serialised(n)
  BY SameRequest
<1>3. raw' = raw /\ Size' = Size
  BY SameRequest
<1>4. Serialised(raw[1])' <=> Serialised(n)'
  BY <1>1, <1>3 DEF Serialised
<1>5. WholeOperation' <=> WholeOperation
  BY DEF WholeOperation
<1>6. (FirstOf(request.values[5]) # 1)' <=> FirstOf(request.values[5]) # 1
  BY DEF FirstOf
<1> QED BY <1>1, <1>2, <1>3, <1>4, <1>5, <1>6 DEF AsItShould, MAX_BIP32_PATH, MAX_TRANSACTION_LEN

\* Its path is read.
LEMMA PathAccepted ==
  ASSUME OperationInv, ReadPath, AsItShould
  PROVE  phase' # "refused"
<1>1. PICK n \in 1 .. 5 : n = raw[1]
  BY DEF AsItShould, MAX_BIP32_PATH
<1>2. request \in Requests /\ Size \in Nat
  BY SizeType DEF OperationInv, RequestInv
<1>3. Serialised(n) /\ n \in Nat /\ Size <= MAX_TRANSACTION_LEN
  BY <1>1 DEF AsItShould
<1>4. BehindPath(n) = 1 + 4 * n
  BY <1>2, <1>3, PathOfSerialised
<1>5. 4 * (n - 1) <= Size - 1
  BY <1>1, <1>2, <1>4 DEF BehindPath
<1>6. PathReads(n)
  BY <1>1, <1>5 DEF PathReads, MAX_BIP32_PATH
<1>7. ~(Size > MAX_TRANSACTION_LEN)
  BY <1>2, <1>3 DEF MAX_TRANSACTION_LEN
<1> QED BY <1>1, <1>6, <1>7 DEF ReadPath

\* The next field of a serialised transaction can be read.
LEMMA FieldReads ==
  ASSUME OperationInv, Serialised(Len(path)), NEW k \in 0 .. 6, Onward(raw, offset) = Wire[k + 1]
  PROVE  /\ TlvReads(offset) /\ TlvData(offset) = request.values[k + 1]
         /\ TlvEnd(offset) \in 0 .. Size /\ Onward(raw, TlvEnd(offset)) = Wire[k + 2]
<1>1. request \in Requests /\ offset \in 0 .. Size /\ offset \in Nat
  BY SizeType DEF OperationInv, RequestInv
<1>2. ShortValues
  BY DEF Serialised
<1>3. /\ TlvReads(offset) /\ TlvData(offset) = request.values[k + 1]
      /\ Onward(raw, TlvEnd(offset)) = Wire[k + 2]
  BY <1>1, <1>2, NextField
<1>4. TlvEnd(offset) \in offset .. Size
  BY <1>1, <1>3, TlvGoesOn
<1> QED BY <1>1, <1>3, <1>4, SizeType

\* Behind the last of them lies nothing.
LEMMA NothingBehind ==
  ASSUME request \in Requests, NEW o \in 0 .. Size, Onward(raw, o) = <<>>
  PROVE  o = Size
<1>1. PICK size \in Nat : size = Size /\ size = Len(raw)
  BY SizeType DEF Size
<1>2. raw \in Seq(0 .. 255)
  BY TransactionAssumption DEF raw
<1>3. ASSUME o < size PROVE FALSE
  <2> DEFINE S == 0 .. 255
  <2>0. raw \in Seq(S)
    BY <1>2
  <2> HIDE DEF S
  <2>1. \A j \in o + 1 .. size : raw[j] \in S
    <3>1. \A j \in o + 1 .. size : j \in 1 .. size
      BY <1>1
    <3> QED BY <1>1, <2>0, <3>1, ElementOfSeq
  <2>2. Len(SubSeq(raw, o + 1, size)) = IF o + 1 <= size THEN size - (o + 1) + 1 ELSE 0
    BY <1>1, <2>1, SubSeqProperties
  <2>3. SubSeq(raw, o + 1, size) = <<>> /\ Len(<<>>) = 0
    BY <1>1, EmptySeq DEF Onward
  <2>4. PICK short \in Nat : short = size - (o + 1) + 1 /\ short # 0 /\ o + 1 <= size
    BY <1>3
  <2>5. Len(SubSeq(raw, o + 1, size)) = short
    BY <2>2, <2>4
  <2> QED BY <2>3, <2>4, <2>5, Zenon
<1> QED BY <1>1, <1>3

\* A field of the header, the operation and the extensions are read; only a number
\* of operations other than one is refused.
LEMMA TlvAccepted ==
  ASSUME OperationInv, SerialInv, ReadField \/ ReadOperation \/ ReadExtensions,
         phase' = "refused", Serialised(Len(path))
  PROVE  FirstOf(request.values[5]) # 1
<1>1. CASE ReadField
  <2>1. phase = "fields" /\ fields < 5
    BY <1>1 DEF ReadField
  <2>2. fields \in 0 .. 5 /\ Onward(raw, offset) = Wire[fields + 1]
    BY <2>1 DEF SerialInv
  <2>3. PICK k \in 0 .. 6 : k = fields
    BY <2>2
  <2>4. TlvReads(offset) /\ TlvData(offset) = request.values[k + 1]
    BY <2>2, <2>3, FieldReads
  <2>5. fields = 4 /\ FirstOf(TlvData(offset)) # 1
    BY <1>1, <2>1, <2>4 DEF ReadField
  <2>6. k + 1 = 5
    BY <2>3, <2>5
  <2> QED BY <2>4, <2>5, <2>6
<1>2. CASE ReadOperation
  <2>1. phase = "fields" /\ fields = 5
    BY <1>2 DEF ReadOperation
  <2>2. PICK k \in 0 .. 6 : k = fields /\ Onward(raw, offset) = Wire[k + 1]
    BY <2>1 DEF SerialInv
  <2>3. TlvReads(offset)
    BY <2>2, FieldReads
  <2>4. phase' = "arrived"
    BY <1>2, <2>3 DEF ReadOperation
  <2> QED BY <2>4
<1>3. CASE ReadExtensions
  <2>1. phase = "hashed" /\ Onward(raw, offset) = Wire[7]
    BY <1>3 DEF ReadExtensions, SerialInv
  <2>2. PICK k \in 0 .. 6 : k = 6 /\ k + 1 = 7 /\ k + 2 = 8
    OBVIOUS
  <2>3. TlvReads(offset) /\ TlvEnd(offset) \in 0 .. Size /\ Onward(raw, TlvEnd(offset)) = Wire[8]
    BY <2>1, <2>2, FieldReads
  <2>4. Wire[8] = <<>>
    BY DEF Wire
  <2>5. TlvEnd(offset) = Size
    BY <2>3, <2>4, NothingBehind DEF OperationInv, RequestInv
  <2>6. offset' = TlvEnd(offset) /\ Size' = Size
    BY <1>3, <2>3 DEF ReadExtensions, Size, raw
  <2>7. phase' = "accepted"
    BY <1>3, <2>3, <2>5, <2>6 DEF ReadExtensions
  <2> QED BY <2>7
<1> QED BY <1>1, <1>2, <1>3

\* The parser is found, and each decoder succeeds.
LEMMA DecoderAccepts ==
  ASSUME OperationInv, SerialInv, ContentsInv, GetParser \/ HashField,
         Serialised(Len(path)), WholeOperation
  PROVE  phase' # "refused"
<1>1. phase \in {"arrived", "hashing"}
  BY DEF GetParser, HashField
<1>2. buf = request.values[6] /\ BytesInv /\ buf \in Seq(0 .. 255)
  BY <1>1 DEF SerialInv, OperationInv, BytesInv, buf
<1>3. CASE GetParser
  <2>1. PICK c : c = request.contents
    OBVIOUS
  <2>2. PICK n : n = c[1][1]
    OBVIOUS
  <2>3. n \in Supported /\ buf # <<>> /\ buf[1] = n
    BY <1>2, <2>1, <2>2, NumberInFront
  <2>4. operation.number \in Supported
    BY <2>3 DEF ContentsInv
  <2>5. phase' = "hashing"
    BY <1>3, <2>4 DEF GetParser
  <2> QED BY <2>5
<1>4. CASE HashField
  <2>1. /\ phase = "hashing" /\ parser # <<>> /\ Len(ends) < Len(parser)
        /\ operation.offset = From(Len(ends)) /\ DecodedInv
    BY <1>2, <1>4 DEF HashField, BytesInv
  <2>2. PICK at : FieldsLie(at)
    BY <1>2, <2>1, ValuesLie
  <2>3. PICK n \in Nat : n = Len(ends)
    BY <2>1, LenProperties DEF DecodedInv
  <2>4. PICK m \in 1 .. 9 : m = Len(parser)
    BY <2>1 DEF DecodedInv
  <2>5. n + 1 \in 1 .. m /\ (n + 1) - 1 = n /\ n \in 0 .. n
    BY <2>1, <2>3, <2>4
  <2>6. From(n) = at[n]
    BY <1>2, <2>1, <2>2, <2>3, <2>5, PlacesReached
  <2>7. Decode(parser[n + 1], at[n]).ok
    BY <1>2, <2>2, <2>4, <2>5, ValueTaken
  <2>8. Decode(parser[decoded + 1], operation.offset).ok
    BY <2>1, <2>3, <2>6, <2>7 DEF decoded
  <2>9. phase' \in {"hashing", "hashed"}
    BY <1>4, <2>1, <2>8 DEF HashField
  <2> QED BY <2>9
<1> QED BY <1>3, <1>4

\* No step refuses it, as far as it is one of one operation.
LEMMA RefusedStep ==
  OperationInv /\ SerialInv /\ ContentsInv /\ PathThere /\ NeverRefused /\ [Next]_vars
    => NeverRefused'
<1> SUFFICES ASSUME OperationInv, SerialInv, ContentsInv, PathThere, NeverRefused, [Next]_vars
             PROVE  NeverRefused'
  OBVIOUS
<1>1. ASSUME request' = request,
             \/ phase' # "refused"
             \/ phase = "refused"
             \/ AsItShould => FirstOf(request.values[5]) # 1
      PROVE  NeverRefused'
  <2>1. NeverRefused' <=> (phase' = "refused" /\ AsItShould' => (FirstOf(request.values[5]) # 1)')
    BY DEF NeverRefused, AsItShould
  <2>2. phase = "refused" /\ AsItShould => FirstOf(request.values[5]) # 1
    BY DEF NeverRefused, AsItShould
  <2> QED BY <1>1, <2>1, <2>2, SameContents
<1>2. CASE ReadPath
  <2>1. request' = request
    BY <1>2 DEF ReadPath
  <2> QED BY <1>1, <1>2, <2>1, PathAccepted
<1>3. ASSUME AsItShould, phase \in {"fields", "arrived", "hashing", "hashed"}
      PROVE  Serialised(Len(path)) /\ WholeOperation
  <2>1. Len(path) = raw[1]
    BY <1>3 DEF PathThere
  <2> QED BY <1>3, <2>1 DEF AsItShould
<1>4. CASE ReadField \/ ReadOperation \/ ReadExtensions
  <2>1. request' = request /\ phase \in {"fields", "arrived", "hashing", "hashed"}
    BY <1>4 DEF ReadField, ReadOperation, ReadExtensions
  <2>2. phase' = "refused" /\ Serialised(Len(path)) => FirstOf(request.values[5]) # 1
    BY <1>4, TlvAccepted
  <2> QED BY <1>1, <1>3, <2>1, <2>2
<1>5. CASE ReadDigest
  <2>1. request' = request /\ ~IsTransaction
    BY <1>5 DEF ReadDigest, SerialInv
  <2>2. ~AsItShould
    BY <2>1 DEF AsItShould, Serialised
  <2> QED BY <1>1, <2>1, <2>2
<1>6. CASE Decoding
  <2>1. request' = request
    BY <1>6 DEF Decoding
  <2>2. CASE GetParser \/ HashField
    <3>1. phase \in {"fields", "arrived", "hashing", "hashed"}
      BY <2>2 DEF GetParser, HashField
    <3>2. Serialised(Len(path)) /\ WholeOperation => phase' # "refused"
      BY <2>2, DecoderAccepts
    <3> QED BY <1>1, <1>3, <2>1, <3>1, <3>2
  <2>3. ASSUME NEW p \in 0 .. Len(parser) - 1, ShowField(p) \/ Hang(p) PROVE NeverRefused'
    <3>1. phase' # "refused"
      BY <2>3 DEF ShowField, Hang
    <3> QED BY <1>1, <2>1, <3>1
  <2> QED BY <1>6, <2>2, <2>3 DEF Decoding
<1>7. CASE UNCHANGED vars
  <2>1. UNCHANGED <<request, phase>>
    BY <1>7 DEF vars, operationVars
  <2> QED BY <1>1, <2>1
<1> QED BY <1>2, <1>4, <1>5, <1>6, <1>7 DEF Next

\* transaction_parse: a transaction of one operation that is serialised as it
\* should be, and for which raw_tx has room, is never refused: whichever path it
\* has and whichever operation of those there is a parser for, and whatever
\* values are in its fields.
THEOREM SerialisedIsAccepted == Spec => []NeverRefused
<1>1. Init => NeverRefused
  BY DEF Init, NeverRefused
<1> QED BY <1>1, PathInit, PathStep, OperationInit, OperationStep, SerialInit, SerialStep,
           ContentsInit, ContentsStep, PathThereInit, PathThereStep, RefusedStep, PTL DEF Spec
===============================================================================

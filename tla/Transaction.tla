----------------------------- MODULE Transaction -----------------------------
(***************************************************************************)
(* A request byte by byte: transaction_parse with the path, the fields in  *)
(* DER and the operation, whose decoders are in Operation; hash_parse; and *)
(* the path that GET_PUBLIC_KEY reads in the same way.  A request that is  *)
(* accepted is put to the user, who turns to its fields in any order.      *)
(*                                                                         *)
(* The program reads a few bytes that are not the request's: behind it     *)
(* where the last element of a path is cut, before it where the operation  *)
(* is as long as its length says but was copied in part.  Behind raw_tx    *)
(* there are zeros; other memory holds any byte, here the same all over.   *)
(***************************************************************************)
EXTENDS Serialiser

CONSTANTS
  Requests,  \* what clients send: [ins, bytes], and what they mean by it,
             \* [tokens, values, contents, texts, pathText, plain], for the properties
  Outside    \* the bytes that memory outside of a request may hold

ASSUME TransactionAssumption ==
  /\ Outside \subseteq 0 .. 255
  /\ \A q \in Requests : q.bytes \in Seq(0 .. 255) /\ q.bytes # <<>>

VARIABLES
  request,    \* the request the client sent
  around,     \* the byte outside of it
  offset,     \* buf->offset
  path,       \* bip32_path: elements of four bytes, the highest first
  fields,     \* TLVs read so far
  header,     \* what is given to cx_hash before the operation,
  trailer,    \*   and behind it
  shownPath   \* g_bip32_path

vars == <<operationVars, request, around, offset, path, fields, header, trailer, shownPath>>

MAX_TRANSACTION_LEN == 600
MAX_BIP32_PATH == 5
DIGEST_LEN == 32

raw == request.bytes
Size == Len(raw)
IsTransaction == request.ins = "SIGN_TRANSACTION"

\* The byte at place i of memory, counted from the beginning of the request
Memory(i) ==
  IF i \in 0 .. Size - 1 THEN raw[i + 1]
  ELSE IF i >= Size /\ IsTransaction THEN 0
  ELSE around

Zeros(n) == [i \in 1 .. n |-> 0]

-----------------------------------------------------------------------------
(* bip32.c                                                                 *)

\* Mistaken: a path of any number of elements is read.
AnyNumber(n) == n > 0 /\ 4 * (n - 1) <= Size - 1

\* bip32_path_read looks where an element begins, not where it ends.
PathReads(n) == n \in 1 .. MAX_BIP32_PATH /\ 4 * (n - 1) <= Size - 1

\* Mistaken: counted from the number of elements on.
ElementWithNumber(i) == [k \in 1 .. 4 |-> Memory(4 * (i - 1) + k - 1)]

Element(i) == [k \in 1 .. 4 |-> Memory(4 * (i - 1) + k)]

\* Where buffer_seek_cur leaves off: it goes behind the path, or nowhere.
BehindPath(n) == IF 1 + 4 * n <= Size THEN 1 + 4 * n ELSE 1

\* What ui_display_transaction, ui_display_hash and ui_display_public_key do
\* with the path
DisplayPath(p) == shownPath' = PathText(p)

\* buffer_read_bip32_path, for each of the three handlers
ReadPath ==
  LET n == raw[1]
      elements == [i \in 1 .. n |-> Element(i)]
  IN /\ phase = "path"
     /\ \/ /\ PathReads(n) /\ (IsTransaction => Size <= MAX_TRANSACTION_LEN)
           /\ path' = elements
           /\ offset' = BehindPath(n)
           /\ \/ IsTransaction /\ phase' = "fields" /\ UNCHANGED shownPath
              \/ request.ins = "SIGN_HASH" /\ phase' = "digest" /\ UNCHANGED shownPath
              \/ request.ins = "GET_PUBLIC_KEY" /\ phase' = "accepted" /\ DisplayPath(path')
        \/ /\ ~PathReads(n) \/ (IsTransaction /\ Size > MAX_TRANSACTION_LEN)
           /\ phase' = "refused"
           /\ UNCHANGED <<path, offset, shownPath>>
     /\ UNCHANGED <<operation, parser, ends, hashed, position, shown,
                    request, around, fields, header, trailer>>

-----------------------------------------------------------------------------
(* asn1.c and buffer_read_tlv                                              *)

Left(o) == Size - o

\* der_decode_length: the value of n bytes from offset o on, the highest
\* first; one that no buffer holds is as good as any other.
LongLength(o, n) ==
  LET digit(k) == IF k < n THEN raw[o + n - k] ELSE 0
  IN digit(0) + 256 * digit(1) + 65536 * digit(2) + (IF digit(3) = 0 THEN 0 ELSE 16777216)

\* Mistaken: a length is one byte.
OneByte(o) == 0

\* The bytes of a length above 127, which the first one counts
LengthBytes(o) == IF raw[o + 2] > 127 THEN raw[o + 2] - 128 ELSE 0

\* Mistaken: the tag is not looked at.
AnyTag(o) ==
  /\ Left(o) >= 2
  /\ LengthBytes(o) <= 4 /\ Left(o + 2) >= LengthBytes(o)

\* Tag and length can be read: those of an octet string, a length of at most
\* four bytes
HasHead(o) ==
  /\ Left(o) >= 2
  /\ raw[o + 1] % 32 = 4
  /\ LengthBytes(o) <= 4 /\ Left(o + 2) >= LengthBytes(o)

FieldLength(o) == IF raw[o + 2] > 127 THEN LongLength(o + 2, LengthBytes(o)) ELSE raw[o + 2]

Body(o) == o + 2 + LengthBytes(o)

\* The value's length as buffer_move_partial is given it, an uint8_t
Taken(n) == n % 256

\* buffer_read_tlv into data, which has room for a whole transaction
TlvReads(o) ==
  /\ HasHead(o)
  /\ FieldLength(o) <= MAX_TRANSACTION_LEN
  /\ Left(Body(o)) >= Taken(FieldLength(o))

TlvEnd(o) == Body(o) + Taken(FieldLength(o))

\* data, as many bytes of it as the length says: what was not copied is zero.
TlvData(o) ==
  [i \in 1 .. FieldLength(o) |-> IF i <= Taken(FieldLength(o)) THEN raw[Body(o) + i] ELSE 0]

\* data[0], which is zero in an empty field
FirstOf(data) == IF data = <<>> THEN 0 ELSE data[1]

-----------------------------------------------------------------------------
(* transaction_parse                                                       *)

\* One of the five fields before the operation; the last of them counts the
\* operations.
ReadField ==
  /\ phase = "fields" /\ fields < 5
  /\ \/ /\ TlvReads(offset)
        /\ header' = header \o TlvData(offset)
        /\ offset' = TlvEnd(offset)
        /\ fields' = fields + 1
        /\ phase' = IF fields = 4 /\ FirstOf(TlvData(offset)) # 1 THEN "refused" ELSE phase
     \/ /\ ~TlvReads(offset)
        /\ phase' = "refused"
        /\ UNCHANGED <<header, offset, fields>>
  /\ UNCHANGED <<operation, parser, ends, hashed, position, shown,
                 request, around, path, trailer, shownPath>>

\* The operation: it lies where the field would begin if all of it had been
\* taken, "raw_tx + buf->offset - length".
ReadOperation ==
  LET length == FieldLength(offset)
      from == TlvEnd(offset) - length
  IN /\ phase = "fields" /\ fields = 5
     /\ \/ /\ TlvReads(offset)
           /\ operation' = [bytes |-> [i \in 1 .. length |-> Memory(from + i - 1)],
                            number |-> Memory(from), offset |-> 0]
           /\ offset' = TlvEnd(offset)
           /\ fields' = 6
           /\ phase' = "arrived"
        \/ /\ ~TlvReads(offset)
           /\ phase' = "refused"
           /\ UNCHANGED <<operation, offset, fields>>
     /\ UNCHANGED <<parser, ends, hashed, position, shown,
                    request, around, path, header, trailer, shownPath>>

\* The extensions, of which one byte is hashed, and the end of the data
ReadExtensions ==
  /\ phase = "hashed"
  /\ \/ /\ TlvReads(offset)
        /\ trailer' = <<FirstOf(TlvData(offset))>>
        /\ offset' = TlvEnd(offset)
        /\ fields' = 7
        /\ \/ offset' = Size /\ phase' = "accepted" /\ DisplayPath(path)
           \/ offset' # Size /\ phase' = "refused" /\ UNCHANGED shownPath
     \/ /\ ~TlvReads(offset)
        /\ phase' = "refused"
        /\ UNCHANGED <<trailer, offset, fields, shownPath>>
  /\ UNCHANGED <<operation, parser, ends, hashed, position, shown,
                 request, around, path, header>>

\* hash_parse: at most 32 bytes, and zeros for those that are missing; the
\* review shows them in hexadecimal.
ReadDigest ==
  /\ phase = "digest"
  /\ \/ /\ Left(offset) <= DIGEST_LEN
        /\ hashed' = SubSeq(raw, offset + 1, Size) \o Zeros(DIGEST_LEN - Left(offset))
        /\ offset' = IF Left(offset) = DIGEST_LEN THEN Size ELSE offset
        /\ phase' = "accepted"
        /\ position' = 0 /\ shown' = Hex(hashed')
        /\ DisplayPath(path)
     \/ /\ Left(offset) > DIGEST_LEN
        /\ phase' = "refused"
        /\ UNCHANGED <<hashed, offset, position, shown, shownPath>>
  /\ UNCHANGED <<operation, parser, ends,
                 request, around, path, fields, header, trailer>>

\* What is in Operation
Decoding ==
  /\ GetParser \/ HashField \/ \E p \in 0 .. Len(parser) - 1 : ShowField(p) \/ Hang(p)
  /\ UNCHANGED <<request, around, offset, path, fields, header, trailer, shownPath>>

Init ==
  /\ request \in Requests /\ around \in Outside
  /\ phase = "path"
  /\ offset = 1 /\ path = <<>> /\ shownPath = Nothing
  /\ fields = 0 /\ header = <<>> /\ trailer = <<>>
  /\ operation = [bytes |-> <<>>, number |-> 0, offset |-> 0]
  /\ parser = <<>> /\ ends = <<>> /\ hashed = <<>>
  /\ position = -1 /\ shown = Nothing

Next == ReadPath \/ ReadField \/ ReadOperation \/ ReadExtensions \/ ReadDigest \/ Decoding

Spec == Init /\ [][Next]_vars

-----------------------------------------------------------------------------
(* What must hold                                                          *)

\* The traversals stay within the request, the operation and its parser.
TypeOK ==
  /\ phase \in {"path", "fields", "arrived", "hashing", "hashed", "digest",
                "accepted", "refused", "hung"}
  /\ offset \in 1 .. Size
  /\ fields \in 0 .. 7
  /\ Len(path) <= MAX_BIP32_PATH
  /\ decoded \in 0 .. Len(parser)
  /\ position \in -1 .. 8
  /\ operation.offset \in 0 .. Len(buf)

\* The application's own paths begin with 48'.
Own(p) == p # <<>> /\ p[1] = <<128, 0, 0, 48>>

\* What the signature is over: the fields before, in and behind the operation,
\* or the digest that was asked for
Digested == header \o hashed \o trailer

\* What is hashed of the operation so far are the bytes that were read, each
\* once and in order, however a decoder cuts its field into pieces.
HashedAsRead == phase = "hashing" => hashed = SubSeq(buf, 1, operation.offset)

\* A transaction for an own path is hashed field by field as its client means
\* it, and a whole digest is signed as it is, unless a field has 256 bytes or
\* more: whatever lengths, cut ends and further bytes there are, what is
\* accepted is what was meant.
DigestAsMeant ==
  phase = "accepted" /\ request.plain /\ Own(path) => Digested = FlattenSeq(request.values)

\* How a client serialises the value of a field that has less than 256 bytes
Der(v) == (IF Len(v) < 128 THEN <<4, Len(v)>> ELSE <<4, 129, Len(v)>>) \o v

\* A client's values for the seven fields, less than 256 bytes each
ShortValues ==
  /\ Len(request.values) = 7
  /\ \A k \in 1 .. 7 : request.values[k] \in Seq(0 .. 255) /\ Len(request.values[k]) < 256

\* Behind a path of n elements lie these values, serialised, and nothing else.
Serialised(n) ==
  LET v == request.values
  IN /\ IsTransaction /\ ShortValues
     /\ SubSeq(raw, 2 + 4 * n, Size) =
          Der(v[1]) \o (Der(v[2]) \o (Der(v[3]) \o (Der(v[4]) \o
            (Der(v[5]) \o (Der(v[6]) \o Der(v[7]))))))

\* Of a transaction that is serialised as it should be, whatever its values
\* are and however long, the values of the header are signed, one behind the
\* other, then bytes from the beginning of the operation, and the first byte of
\* the extensions: no head of a field, and no byte of another one.
SignedAsSerialised ==
  phase = "accepted" /\ Serialised(Len(path)) =>
    LET v == request.values
    IN /\ header = v[1] \o v[2] \o v[3] \o v[4] \o v[5]
       /\ hashed = SubSeq(v[6], 1, Len(hashed))
       /\ trailer = <<FirstOf(v[7])>>

\* The operation has these values, those of its parser's fields, serialised.
WholeOperation ==
  LET c == request.contents
      kinds == Parser(c[1][1])
  IN /\ c # <<>> /\ c[1] \in {<<n>> : n \in Supported}
     /\ Len(c) = Len(kinds) /\ \A k \in 1 .. Len(kinds) : c[k] \in FieldValues(kinds[k])
     /\ request.values[6] = FlattenSeq(Laid(kinds, c))

\* Of an operation that is serialised as it should be, whatever lists and
\* authorities there are in it, every byte is signed.
SignedWhole ==
  phase = "accepted" /\ Serialised(Len(path)) /\ WholeOperation => hashed = request.values[6]

\* And it is never refused, behind a path of any length, unless it has more bytes
\* than there is room for or is not a transaction of one operation.
NeverRefused ==
  /\ phase = "refused" /\ raw[1] \in 1 .. MAX_BIP32_PATH /\ Size <= MAX_TRANSACTION_LEN
  /\ Serialised(raw[1]) /\ WholeOperation
  => FirstOf(request.values[5]) # 1

\* Whichever field the user turns to, and in which order, what is on the display
\* is the text of this field's value alone, if it is one the program ends itself.
\* (Of beneficiaries, one may be shown with the end of a longer name before it.)
ShownAsSent ==
  position >= 0 /\ Serialised(Len(path)) /\ WholeOperation =>
    LET kind == parser[position + 1]
        v == request.contents[position + 1]
    IN kind # "beneficiaries" /\ TextEnds(kind, v) => shown = FieldText(kind, v)

\* A field on the display is read from the bytes that were hashed in its turn,
\* by the decoder that hashed them, whichever fields were shown before.
ShownAsHashed ==
  position >= 0 /\ parser # <<>> =>
    LET r == Decode(parser[position + 1], From(position))
    IN /\ r.ok /\ shown = r.shown
       /\ operation.offset = ends[position + 1]
       /\ r.hashed = SubSeq(hashed, From(position) + 1, ends[position + 1])

\* Whichever field the user turns to, and in which order, the display shows
\* what the client means by it, or as much of it as there is room for.  (A few
\* requests have values that no client means, and no texts.)
ShownAsMeant ==
  position >= 0 /\ request.texts # <<>> =>
    LET meant == request.texts[position + 1]
    IN \/ shown = meant
       \/ Len(meant) > VALUE_ROOM /\ shown = SubSeq(meant, 1, VALUE_ROOM)
       \/ /\ Len(meant) > LIST_ROOM /\ shown = SubSeq(meant, 1, LIST_ROOM)
          /\ parser[position + 1] = "array_of_strings"

\* The path on the display is the one that was sent, if all of it was sent.
PathAsMeant ==
  phase = "accepted" /\ Size > 4 * Len(path) => shownPath = request.pathText

\* If all of it was sent, it is the path of the elements that stand behind their
\* number, whichever of the three handlers shows it.
PathAsSent ==
  phase = "accepted" /\ Size > 4 * Len(path) =>
    shownPath = PathText([i \in 1 .. raw[1] |-> SubSeq(raw, 4 * i - 2, 4 * i + 1)])

\* A path may be cut, and then the fields are read from where it begins; but
\* never an own path: its first byte is no tag. A transaction whose fields are
\* read has an own path only if all of it stands before them.
OwnPathInFront ==
  Own(path) /\ fields > 0 =>
    /\ offset > 4 * Len(path)
    /\ \A i \in 1 .. Len(path) : path[i] = SubSeq(raw, 4 * i - 2, 4 * i + 1)

\* The bytes are read as Tokens reads their fields, on which HiveApp is built:
\* a plain request for an own path is accepted in one reading if and only if it
\* is in the other.
T == INSTANCE Tokens WITH OwnPath <- {"own"}, ForeignPath <- {"foreign"},
                          Op <- {"operation"}, Digest <- {"digest"}

ReadAsTokens ==
  phase \in {"accepted", "refused"} /\ request.plain /\ request.tokens[1] = "own" =>
    /\ IsTransaction => (phase = "accepted" <=> T!Accepts(request.tokens))
    /\ request.ins = "SIGN_HASH" => (phase = "accepted" <=> T!HashAccepts(request.tokens))

-----------------------------------------------------------------------------
(* What a comment says and the code does not do                            *)

\* "Parse and hash: DER encoded operations": no byte of an operation that is
\* signed is left out of the digest.
AllHashed == phase = "accepted" => hashed = buf
=============================================================================

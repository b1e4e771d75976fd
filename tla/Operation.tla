------------------------------ MODULE Operation ------------------------------
(***************************************************************************)
(* The bytes of one operation, read by the decoders of its parser: once    *)
(* when the transaction arrives, to hash what each of them reads, and      *)
(* again for every field the user turns to, to show it.  The two passes    *)
(* read the same bytes with the same decoders; that the user sees what is  *)
(* hashed rests on each decoder doing the same in both.                    *)
(*                                                                         *)
(* A decoder is an operator from the offset it starts at to what it reads: *)
(* whether it succeeds, the offset it leaves, the bytes it hashes and the  *)
(* text it shows.  A decoder that fails has the transaction refused, so    *)
(* nothing else of its outcome is used.  Transaction is the rest of the    *)
(* traversal, and has the initial states.                                  *)
(***************************************************************************)
EXTENDS Integers, Sequences, SequencesExt, Texts

CONSTANT
  Checksum(_)  \* the first four bytes of the ripemd160 of a key

VARIABLES
  phase,      \* how far transaction_parse is; here "arrived", when the TLV of
              \* the operation is read, "hashing", "hashed", "accepted", "refused", "hung"
  operation,  \* tx_info.operation: its bytes, the first one of them, its offset
  parser,     \* tx_info.parser: the decoders
  ends,       \* the offsets at which the decoders so far ended
  hashed,     \* the bytes of the operation given to cx_hash
  position,   \* the field on the display, or -1
  shown       \* and its text

operationVars == <<phase, operation, parser, ends, hashed, position, shown>>

Nothing == ""

MAX_ACCOUNT_NAME_LEN == 64
TMP_LEN == 50  \* sizeof(tmp) in decoder_array_of_strings
PUBKEY_COMPRESSED_LEN == 33
ASSET_LEN == 16
VALUE_ROOM == 254  \* characters of field->value, without the NUL
LIST_ROOM == 251   \* the same of value in decoder_array_of_strings

buf == operation.bytes

\* Decoders run so far
decoded == Len(ends)

\* Where the field p begins
From(p) == IF p = 0 THEN 0 ELSE ends[p]

-----------------------------------------------------------------------------
(* buffer.c                                                                *)

\* Mistaken: the last byte cannot be read.
CanReadBefore(o, n) == Len(buf) - o > n

\* buffer_can_read
CanRead(o, n) == Len(buf) - o >= n

\* The bytes that memmove copies from offset o
Bytes(o, n) == SubSeq(buf, o + 1, IF o + n <= Len(buf) THEN o + n ELSE Len(buf))

\* buffer_read_u8, which leaves 0 where it cannot read
ByteAt(o) == IF CanRead(o, 1) /\ o < Len(buf) THEN buf[o + 1] ELSE 0

-----------------------------------------------------------------------------
(* decoders.c                                                              *)

\* n bytes, hashed as they are and shown as text
Fixed(o, n, text) ==
  [ok |-> CanRead(o, n), offset |-> o + n, hashed |-> Bytes(o, n),
   shown |-> IF CanRead(o, n) THEN text ELSE Nothing]

\* snprintf into field->value
Value(text) == Cut(text, VALUE_ROOM)

\* decoder_string: a byte with the length, and the characters
String(o) ==
  LET n == ByteAt(o)
  IN [ok |-> CanRead(o, 1) /\ CanRead(o + 1, n),
      offset |-> o + 1 + n,
      hashed |-> <<n>> \o Bytes(o + 1, n),
      shown |-> Value(Text(Append(Bytes(o + 1, n), 0)))]

\* A string that has to leave room for its NUL in a buffer
ShortString(o, room) ==
  LET s == String(o) IN [s EXCEPT !.ok = @ /\ ByteAt(o) < room]

\* One item behind those before it
Behind(before, item) ==
  [ok |-> before.ok /\ item.ok,
   offset |-> item.offset,
   hashed |-> before.hashed \o item.hashed,
   shown |-> Append(before.shown, item.shown)]

Following(before, item) == Behind(before, item[before.offset])

\* n items, one behind the other, from offset o; item is what is read at each
\* offset.
Items(o, n, item) ==
  LET run[i \in 0 .. n] ==
        IF i = 0 THEN [ok |-> TRUE, offset |-> o, hashed |-> <<>>, shown |-> <<>>]
        ELSE Following(run[i - 1], item)
  IN run[n]

\* A byte with the number of items, and the items
Array(o, item) ==
  LET items == Items(o + 1, ByteAt(o), item)
  IN [ok |-> CanRead(o, 1) /\ items.ok,
      offset |-> items.offset,
      hashed |-> <<ByteAt(o)>> \o items.hashed,
      shown |-> items.shown]

\* "[ ", the items, and " ]"
Bracketed(texts) == "[ " \o Join(texts, ", ") \o " ]"

TmpString == [o \in Nat |-> ShortString(o, TMP_LEN)]

\* decoder_array_of_strings
ArrayOfStrings(o) ==
  LET strings == Array(o, TmpString)
  IN [strings EXCEPT !.shown = Cut(Bracketed(@), LIST_ROOM)]

Uint64 == [o \in Nat |-> Fixed(o, 8, Unsigned(Bytes(o, 8)))]

\* decoder_array_of_u64
ArrayOfUint64(o) ==
  LET numbers == Array(o, Uint64) IN [numbers EXCEPT !.shown = Value(Bracketed(@))]

Uint16(o) == Fixed(o, 2, Unsigned(Bytes(o, 2)))

\* An account or a key, and its weight in the authority
Pair(who, weight) ==
  [ok |-> who.ok /\ weight.ok, offset |-> weight.offset,
   hashed |-> who.hashed \o weight.hashed,
   shown |-> Bracketed(<<who.shown, weight.shown>>)]

Weighted(who) == Pair(who, Uint16(who.offset))

\* decoder_public_key
PublicKey(o) ==
  LET key == Bytes(o, PUBKEY_COMPRESSED_LEN)
  IN Fixed(o, PUBKEY_COMPRESSED_LEN, KeyText(key, Checksum(key)))

AccountAuth == [o \in Nat |-> Weighted(ShortString(o, MAX_ACCOUNT_NAME_LEN))]
KeyAuth == [o \in Nat |-> Weighted(PublicKey(o))]

Uint32(o) == Fixed(o, 4, Decimal(Bytes(o, 4)))

\* decoder_authority_type, of the weight at offset o and two lists behind it:
\* hashed as one piece
AuthorityOf(o, weight, accounts, keys) ==
  [ok |-> weight.ok /\ accounts.ok /\ keys.ok,
   offset |-> keys.offset,
   hashed |-> Bytes(o, keys.offset - o),
   shown |-> Value("Weight: " \o weight.shown \o ", " \o Bracketed(accounts.shown)
                     \o ", " \o Bracketed(keys.shown))]

Authority(o) ==
  LET accounts == Array(o + 4, AccountAuth)
  IN AuthorityOf(o, Uint32(o), accounts, Array(accounts.offset, KeyAuth))

\* Mistaken: the flag of the optional field is not hashed with it.
HashedFromHere(o, end) == Bytes(o + 1, end - o - 1)

\* initial_offset, where a decoder that hashes its field as one piece begins
HashedFromStart(o, end) == Bytes(o, end - o)

\* decoder_optional_authority_type: any flag but 0 announces an authority
OptionallyOf(o, authority) ==
  LET end == IF ByteAt(o) = 0 THEN o + 1 ELSE authority.offset
  IN [ok |-> CanRead(o, 1) /\ (ByteAt(o) = 0 \/ authority.ok),
      offset |-> end,
      hashed |-> HashedFromStart(o, end),
      shown |-> IF ByteAt(o) = 0 THEN "no changes" ELSE authority.shown]

OptionalAuthority(o) == OptionallyOf(o, Authority(o + 1))

\* decoder_empty_extensions
EmptyExtensions(o) ==
  [ok |-> CanRead(o, 1) /\ ByteAt(o) = 0, offset |-> o + 1,
   hashed |-> <<ByteAt(o)>>, shown |-> "[ ]"]

\* The buffer account_name after the n characters of a name are copied to its
\* beginning: it is cleared only before the first one.
Overwritten(room, name) == name \o SubSeq(room, Len(name) + 1, MAX_ACCOUNT_NAME_LEN)

\* One account of decoder_beneficiaries_extensions, behind those before it
Beneficiary(before, len) ==
  LET at == before.offset + 1 + len
      room == Overwritten(before.room, Bytes(before.offset + 1, len))
      weight == Fixed(at, 2, Percent(Natural(Bytes(at, 2))))
  IN [ok |-> before.ok /\ CanRead(before.offset, 1) /\ len <= MAX_ACCOUNT_NAME_LEN
               /\ CanRead(before.offset + 1, len) /\ weight.ok,
      offset |-> weight.offset,
      room |-> room,
      shown |-> Append(before.shown, Text(room) \o ": " \o weight.shown)]

NextBeneficiary(before) == Beneficiary(before, ByteAt(before.offset))

\* n of them, from offset o
Beneficiaries(o, n) ==
  LET run[i \in 0 .. n] ==
        IF i = 0
        THEN [ok |-> TRUE, offset |-> o, shown |-> <<>>,
              room |-> [k \in 1 .. MAX_ACCOUNT_NAME_LEN |-> 0]]
        ELSE NextBeneficiary(run[i - 1])
  IN run[n]

\* decoder_beneficiaries_extensions: none, or one with beneficiaries
ExtensionsOf(o, accounts) ==
  LET end == IF ByteAt(o) = 0 THEN o + 1 ELSE accounts.offset
  IN [ok |-> /\ CanRead(o, 1)
             /\ \/ ByteAt(o) = 0
                \/ ByteAt(o) = 1 /\ CanRead(o + 1, 2) /\ ByteAt(o + 1) = 0 /\ accounts.ok,
      offset |-> end,
      hashed |-> HashedFromStart(o, end),
      shown |-> IF ByteAt(o) = 0 THEN "[ ]"
                ELSE Value("Beneficiaries: [" \o Join(accounts.shown, ", ") \o "]")]

BeneficiariesExtensions(o) == ExtensionsOf(o, Beneficiaries(o + 3, ByteAt(o + 2)))

\* decoder_asset: what format_asset returns is known only when it is shown.
AssetField(o) ==
  Fixed(o, ASSET_LEN, Asset(Bytes(o, ASSET_LEN), VALUE_ROOM).text)

\* decoder_weight
Weight(o) == Fixed(o, 2, Percent(Int16(Bytes(o, 2))))

\* By number, from 0 on
operation_names ==
  <<"vote", "comment", "transfer", "transfer_to_vesting", "withdraw_vesting",
    "limit_order_create", "limit_order_cancel", "feed_publish", "convert",
    "account_create", "account_update", "witness_update", "account_witness_vote",
    "account_witness_proxy", "", "", "", "delete_comment", "custom_json",
    "comment_options", "set_withdraw_vesting_route", "", "claim_account",
    "create_claimed_account", "request_account_recovery", "recover_account",
    "change_recovery_account", "", "", "", "", "", "transfer_to_savings",
    "transfer_from_savings", "cancel_transfer_from_savings", "",
    "decline_voting_rights", "reset_account", "set_reset_account",
    "claim_reward_balance", "delegate_vesting_shares", "", "", "",
    "create_proposal", "update_proposal_votes", "remove_proposal",
    "update_proposal", "collateralized_convert", "recurrent_transfer">>

\* decoder_operation_name
OperationName(o) == Fixed(o, 1, operation_names[ByteAt(o) + 1])

\* The decoder of a kind, from offset o
Decode(kind, o) ==
  CASE kind = "operation_name" -> OperationName(o)
    [] kind = "string" -> String(o)
    [] kind = "array_of_strings" -> ArrayOfStrings(o)
    [] kind = "array_of_u64" -> ArrayOfUint64(o)
    [] kind = "boolean" -> Fixed(o, 1, IF ByteAt(o) # 0 THEN "true" ELSE "false")
    [] kind = "date_time" -> Fixed(o, 4, DateTime(Bytes(o, 4)))
    [] kind = "public_key" -> PublicKey(o)
    [] kind = "asset" -> AssetField(o)
    [] kind = "weight" -> Weight(o)
    [] kind = "uint32" -> Uint32(o)
    [] kind = "uint16" -> Uint16(o)
    [] kind = "authority" -> Authority(o)
    [] kind = "optional_authority" -> OptionalAuthority(o)
    [] kind = "empty_extensions" -> EmptyExtensions(o)
    [] kind = "beneficiaries" -> BeneficiariesExtensions(o)

-----------------------------------------------------------------------------
(* parsers.c: the fields of an operation, behind its name                  *)

Authorities == <<"authority", "authority", "authority">>

\* The tables of the operations 0 .. 13, each where its first number stands
FieldsTo13(n) ==
  CASE n = 0 -> <<"string", "string", "string", "weight">>
    [] n = 1 -> <<"string", "string", "string", "string", "string", "string", "string">>
    [] n = 2 -> <<"string", "string", "asset", "string">>
    [] n = 3 -> <<"string", "string", "asset">>
    [] n = 4 -> <<"string", "asset">>
    [] n = 5 -> <<"string", "uint32", "asset", "asset", "boolean", "date_time">>
    [] n = 6 -> <<"string", "uint32">>
    [] n = 7 -> <<"string", "asset", "asset">>
    [] n = 8 -> <<"string", "uint32", "asset">>
    [] n = 9 -> <<"asset", "string", "string">> \o Authorities \o <<"public_key", "string">>
    [] n = 10 -> <<"string", "optional_authority", "optional_authority",
                   "optional_authority", "public_key", "string">>
    [] n = 11 -> <<"string", "string", "public_key", "asset", "uint32", "weight", "asset">>
    [] n = 12 -> <<"string", "string", "boolean">>
    [] n = 13 -> <<"string", "string">>

\* ... and of the operations 17 .. 26
FieldsTo26(n) ==
  CASE n = 17 -> <<"string", "string">>
    [] n = 18 -> <<"array_of_strings", "array_of_strings", "string", "string">>
    [] n = 19 -> <<"string", "string", "asset", "weight", "boolean", "boolean",
                   "beneficiaries">>
    [] n = 20 -> <<"string", "string", "weight", "boolean">>
    [] n = 22 -> <<"string", "asset">>
    [] n = 23 -> <<"string", "string">> \o Authorities \o <<"public_key", "string">>
    [] n = 24 -> <<"string", "string", "authority", "empty_extensions">>
    [] n = 25 -> <<"string", "authority", "authority", "empty_extensions">>
    [] n = 26 -> <<"string", "string", "empty_extensions">>

\* ... and of the others; transfer_to_savings has the table of transfer.
FieldsTo49(n) ==
  CASE n = 32 -> FieldsTo13(2)
    [] n = 33 -> <<"string", "uint32", "string", "asset", "string">>
    [] n = 34 -> <<"string", "uint32">>
    [] n = 36 -> <<"string", "boolean">>
    [] n = 37 -> <<"string", "string", "authority">>
    [] n = 38 -> <<"string", "string", "string">>
    [] n = 39 -> <<"string", "asset", "asset", "asset">>
    [] n = 40 -> <<"string", "string", "asset">>
    [] n = 44 -> <<"string", "string", "date_time", "date_time", "asset", "string",
                   "string", "empty_extensions">>
    [] n = 45 -> <<"string", "array_of_u64", "boolean", "empty_extensions">>
    [] n = 46 -> <<"string", "array_of_u64">>
    [] n = 47 -> <<"uint32", "array_of_u64">>
    [] n = 48 -> <<"string", "uint32", "asset">>
    [] n = 49 -> <<"string", "string", "asset", "string", "uint16", "uint16">>

Fields(n) ==
  IF n <= 13 THEN FieldsTo13(n) ELSE IF n <= 26 THEN FieldsTo26(n) ELSE FieldsTo49(n)

Supported == 0 .. 13 \cup 17 .. 20 \cup 22 .. 26 \cup 32 .. 34 \cup 36 .. 40 \cup 44 .. 49

\* get_operation_parser
Parser(n) == <<"operation_name">> \o Fields(n)

-----------------------------------------------------------------------------
(* The two passes                                                          *)

\* get_operation_parser, or its exception
GetParser ==
  /\ phase = "arrived"
  /\ IF operation.number \in Supported
     THEN phase' = "hashing" /\ parser' = Parser(operation.number)
     ELSE phase' = "refused" /\ parser' = parser
  /\ UNCHANGED <<operation, ends, hashed, position, shown>>

\* The next decoder of the loop of transaction_parse.  When all are through,
\* bytes that no decoder read are not looked for.
HashField ==
  /\ phase = "hashing"
  /\ \E r \in {Decode(parser[decoded + 1], operation.offset)} :
       LET last == decoded + 1 = Len(parser)
       IN IF r.ok
          THEN /\ operation' = [operation EXCEPT !.offset = IF last THEN 0 ELSE r.offset]
               /\ hashed' = hashed \o r.hashed
               /\ ends' = Append(ends, r.offset)
               /\ phase' = IF last THEN "hashed" ELSE phase
          ELSE phase' = "refused" /\ UNCHANGED <<operation, hashed, ends>>
  /\ UNCHANGED <<parser, position, shown>>

\* Mistaken: the traversal goes on from where the last one ended.
FromHere == operation.offset

\* parse_field starts with the first field each time.
FromStart == 0

\* What decoding the fields 0 .. p leaves: each result goes on where the one
\* before ended, and the last one is shown.
Reread(p) ==
  LET run[k \in 0 .. p] ==
        Decode(parser[k + 1], IF k = 0 THEN FromStart ELSE run[k - 1].offset)
  IN run[p]

\* On the way to the field p an asset of precision 255 is formatted.  The buffer
\* holds 255 characters and no NUL when strlen is to find more than 255: with a
\* zero right behind the buffer the loop of format_asset never ends.
Endless(p) ==
  \E k \in 1 .. p : /\ parser[k + 1] = "asset"
                    /\ Bytes(Reread(k - 1).offset, ASSET_LEN)[9] = 255

\* parse_field in that loop, with the last field still on the display.  What it
\* leaves in its buffers nobody reads any more.
Hang(p) ==
  /\ phase = "accepted" /\ Endless(p)
  /\ phase' = "hung"
  /\ UNCHANGED <<operation, parser, ends, hashed, position, shown>>

\* parse_field, for the field p that the user turned to (of an asset of precision
\* 255, with any other byte behind the buffer)
ShowField(p) ==
  /\ phase = "accepted"
  /\ position' = p
  /\ \E r \in {Reread(p)} :
       operation' = [operation EXCEPT !.offset = r.offset] /\ shown' = r.shown
  /\ UNCHANGED <<phase, parser, ends, hashed>>
=============================================================================

------------------------------ MODULE Serialiser ------------------------------
(***************************************************************************)
(* What a client does before the program is asked: it has a value for      *)
(* every field of an operation, and serialises them, one behind the other. *)
(* A value is what the field is about and not yet bytes: the names of a    *)
(* list, the accounts and keys of an authority.  The client is no part of  *)
(* the program; how it writes a value is taken from what the decoder of    *)
(* its kind reads, and is the same in the opposite direction.              *)
(*                                                                         *)
(* A length and a number of items are written in one byte up to 127.       *)
(***************************************************************************)
EXTENDS Operation

Byte == 0 .. 255

\* What has a length or a number of one byte
Short(S) == {s \in Seq(S) : Len(s) < 128}

Wide(n) == [1 .. n -> Byte]

-----------------------------------------------------------------------------
(* The values of a field                                                   *)

\* Names that a buffer has room for, with a NUL
NameFor(room) == {s \in Short(Byte) : Len(s) < room}

Account == [who : NameFor(MAX_ACCOUNT_NAME_LEN), weight : Wide(2)]
Key == [who : Wide(PUBKEY_COMPRESSED_LEN), weight : Wide(2)]
AuthorityValue == [weight : Wide(4), accounts : Short(Account), keys : Short(Key)]

Width ==
  [operation_name |-> 1, boolean |-> 1, date_time |-> 4, public_key |-> PUBKEY_COMPRESSED_LEN,
   asset |-> ASSET_LEN, weight |-> 2, uint32 |-> 4, uint16 |-> 2]

\* An optional authority is a sequence of one or none.
FieldValues(kind) ==
  CASE kind = "string" -> Short(Byte)
    [] kind = "array_of_strings" -> Short(NameFor(TMP_LEN))
    [] kind = "array_of_u64" -> Short(Wide(8))
    [] kind = "authority" -> AuthorityValue
    [] kind = "optional_authority" -> {s \in Seq(AuthorityValue) : Len(s) <= 1}
    [] kind = "empty_extensions" -> {<<0>>}
    [] kind = "beneficiaries" -> Short(Account)
    [] OTHER -> Wide(Width[kind])

-----------------------------------------------------------------------------
(* How they are written                                                    *)

Chars(s) == <<Len(s)>> \o s

\* A list of items that are written already
Counted(items) == <<Len(items)>> \o FlattenSeq(items)

AccountBytes(a) == Chars(a.who) \o a.weight
KeyBytes(k) == k.who \o k.weight

NameItems(names) == [i \in 1 .. Len(names) |-> Chars(names[i])]
AccountItems(accounts) == [i \in 1 .. Len(accounts) |-> AccountBytes(accounts[i])]
KeyItems(keys) == [i \in 1 .. Len(keys) |-> KeyBytes(keys[i])]

AuthorityBytes(a) == a.weight \o (Counted(AccountItems(a.accounts)) \o Counted(KeyItems(a.keys)))

FieldBytes(kind, v) ==
  CASE kind = "string" -> Chars(v)
    [] kind = "array_of_strings" -> Counted(NameItems(v))
    [] kind = "array_of_u64" -> Counted(v)
    [] kind = "authority" -> AuthorityBytes(v)
    [] kind = "optional_authority" ->
         IF Len(v) = 0 THEN <<0>> ELSE <<1>> \o AuthorityBytes(v[1])
    [] kind = "beneficiaries" ->
         IF Len(v) = 0 THEN <<0>> ELSE <<1>> \o (<<0>> \o Counted(AccountItems(v)))
    [] OTHER -> v

\* The fields of an operation, each as it is written
Laid(kinds, values) == [k \in 1 .. Len(kinds) |-> FieldBytes(kinds[k], values[k])]

-----------------------------------------------------------------------------
(* How the user reads them                                                 *)

\* Values whose text the program ends itself.  Memory decides the end of the
\* others (Spill): of an amount whose symbol has seven characters or whose
\* precision fills the buffer, and of a key of 51 digits.
KeyEnds(key) == Len(Wif(key, Checksum(key))) < PUBKEY_WIF_STR_LEN
AssetEnds(b) == b[9] < VALUE_ROOM - 1 /\ Symbol(SubSeq(b, 10, 16)) # Spill
AuthorityEnds(a) == \A i \in 1 .. Len(a.keys) : KeyEnds(a.keys[i].who)

TextEnds(kind, v) ==
  CASE kind = "public_key" -> KeyEnds(v)
    [] kind = "asset" -> AssetEnds(v)
    [] kind = "authority" -> AuthorityEnds(v)
    [] kind = "optional_authority" -> \A i \in 1 .. Len(v) : AuthorityEnds(v[i])
    [] OTHER -> TRUE

StringText(s) == Value(Text(Append(s, 0)))

AccountText(a) == Bracketed(<<StringText(a.who), Unsigned(a.weight)>>)
KeyPairText(k) == Bracketed(<<KeyText(k.who, Checksum(k.who)), Unsigned(k.weight)>>)

AuthorityText(a) ==
  Value("Weight: " \o Decimal(a.weight)
          \o ", " \o Bracketed([i \in 1 .. Len(a.accounts) |-> AccountText(a.accounts[i])])
          \o ", " \o Bracketed([i \in 1 .. Len(a.keys) |-> KeyPairText(a.keys[i])]))

FieldText(kind, v) ==
  CASE kind = "operation_name" -> operation_names[v[1] + 1]
    [] kind = "string" -> StringText(v)
    [] kind = "array_of_strings" ->
         Cut(Bracketed([i \in 1 .. Len(v) |-> StringText(v[i])]), LIST_ROOM)
    [] kind = "array_of_u64" -> Value(Bracketed([i \in 1 .. Len(v) |-> Unsigned(v[i])]))
    [] kind = "boolean" -> IF v[1] # 0 THEN "true" ELSE "false"
    [] kind = "date_time" -> DateTime(v)
    [] kind = "public_key" -> KeyText(v, Checksum(v))
    [] kind = "asset" -> Asset(v, VALUE_ROOM).text
    [] kind = "weight" -> Percent(Int16(v))
    [] kind = "uint32" -> Decimal(v)
    [] kind = "uint16" -> Unsigned(v)
    [] kind = "authority" -> AuthorityText(v)
    [] kind = "optional_authority" -> IF Len(v) = 0 THEN "no changes" ELSE AuthorityText(v[1])
    [] kind = "empty_extensions" -> "[ ]"
=============================================================================

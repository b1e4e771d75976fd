---------------------------- MODULE MCTransaction ----------------------------
(* Requests for TLC.  The serialisation is the client's, and so are the       *)
(* texts: a table of values as they are written and as a person reads them.   *)
(* They reach the bounds of the decoders: empty and longest names, no item    *)
(* and several, the ends of the numbers, texts longer than the display.       *)
EXTENDS Transaction

Filled(n, b) == [i \in 1 .. n |-> b]

\* What is written of a value, the value, and how a person reads it
V(bytes, value, text) == [bytes |-> bytes, value |-> value, text |-> text]

\* One that is written as it is, and a string
P(bytes, text) == V(bytes, bytes, text)
S(chars, text) == V(<<Len(chars)>> \o chars, chars, text)

STEEM == <<83, 84, 69, 69, 77, 0, 0>>
SBD == <<83, 66, 68, 0, 0, 0, 0>>
VESTS == <<86, 69, 83, 84, 83, 0, 0>>

-----------------------------------------------------------------------------
(* Keys, with the checksums and the texts that client libraries give them    *)

Key2 == Filled(33, 2)
Key3 == Filled(33, 3)
Key255 == <<2>> \o Filled(32, 255)

MCChecksum(key) ==
  CASE key = Key2 -> <<157, 64, 226, 42>>
    [] key = Key3 -> <<195, 11, 191, 207>>
    [] key = Key255 -> <<137, 220, 25, 107>>
    [] OTHER -> <<0, 0, 0, 0>>

Text2 == "STM4uNe9acnngQsW7wqi818p8GopreujRtw7CS3i6jJWEHjXShSCR"
Text3 == "STM6rZTisRggX7okgRG4gWCiguiEnUs6eLuAJ9a4ebTFqw6md1QjG"
Text255 == "STM6qEXhM6ZH2gQTk7ijrzrxoKkLr9x7XdMvDKjT4gyy2AUpBmknE"

-----------------------------------------------------------------------------
(* Values to choose from, of each kind                                       *)

\* An account or a key, and its weight
W(who, weight) == [who |-> who, weight |-> weight]

\* One key; two accounts, one of them with the longest name; both
Authority1 ==
  V(<<1, 0, 0, 0, 0, 1>> \o Key2 \o <<1, 0>>,
    [weight |-> <<1, 0, 0, 0>>, accounts |-> <<>>, keys |-> <<W(Key2, <<1, 0>>)>>],
    "Weight: 1, [  ], [ [ " \o Text2 \o ", 1 ] ]")
Authority2 ==
  V(<<2, 1, 0, 0, 2, 1, 97, 1, 0, 63>> \o Filled(63, 98) \o <<44, 1, 0>>,
    [weight |-> <<2, 1, 0, 0>>, keys |-> <<>>,
     accounts |-> <<W(<<97>>, <<1, 0>>), W(Filled(63, 98), <<44, 1>>)>>],
    "Weight: 258, [ [ a, 1 ], [ " \o Repeat("b", 63) \o ", 300 ] ], [  ]")
Authority3 ==
  V(<<1, 0, 0, 0, 1, 1, 97, 1, 0, 1>> \o Key3 \o <<2, 0>>,
    [weight |-> <<1, 0, 0, 0>>, accounts |-> <<W(<<97>>, <<1, 0>>)>>,
     keys |-> <<W(Key3, <<2, 0>>)>>],
    "Weight: 1, [ [ a, 1 ] ], [ [ " \o Text3 \o ", 2 ] ]")

Values(kind) ==
  CASE kind = "string" ->
         <<S(<<>>, ""), S(<<97, 98>>, "ab"), S(Filled(20, 99), Repeat("c", 20))>>
    [] kind = "array_of_strings" ->
         <<V(<<0>>, <<>>, "[  ]"),
           V(<<2, 1, 97, 49>> \o Filled(49, 98), <<<<97>>, Filled(49, 98)>>,
             "[ a, " \o Repeat("b", 49) \o " ]"),
           V(<<1, 0>>, <<<<>>>>, "[  ]")>>
    [] kind = "array_of_u64" ->
         <<V(<<0>>, <<>>, "[  ]"),
           V(<<2>> \o Filled(8, 0) \o Filled(8, 255), <<Filled(8, 0), Filled(8, 255)>>,
             "[ 0, 18446744073709551615 ]")>>
    [] kind = "boolean" -> <<P(<<1>>, "true"), P(<<0>>, "false")>>
    [] kind = "date_time" ->
         <<P(<<0, 0, 0, 0>>, "1970-01-01T00:00:00"),
           P(<<128, 202, 234, 96>>, "2021-07-11T10:40:00"),
           P(<<255, 255, 255, 255>>, "2106-02-07T06:28:15")>>
    [] kind = "public_key" -> <<P(Key2, Text2), P(Key3, Text3), P(Key255, Text255)>>
    [] kind = "asset" ->
         <<P(<<1, 0, 0, 0, 0, 0, 0, 0, 3>> \o STEEM, "0.001 HIVE"),
           P(<<57, 48, 0, 0, 0, 0, 0, 0, 3>> \o SBD, "12.345 HBD"),
           P(Filled(7, 255) \o <<127, 6>> \o VESTS, "9223372036854.775807 VESTS"),
           P(Filled(8, 0) \o <<3>> \o STEEM, "0.000 HIVE")>>
    [] kind = "weight" ->
         <<P(<<16, 39>>, "100.00%"), P(<<5, 0>>, "0.05%"), P(<<230, 249>>, "-15.62%")>>
    [] kind = "uint32" -> <<P(<<0, 0, 0, 0>>, "0"), P(<<255, 255, 255, 127>>, "2147483647")>>
    [] kind = "uint16" -> <<P(<<0, 0>>, "0"), P(<<255, 255>>, "65535")>>
    [] kind = "authority" -> <<Authority1, Authority2, Authority3>>
    [] kind = "optional_authority" ->
         <<V(<<0>>, <<>>, "no changes"),
           V(<<1>> \o Authority3.bytes, <<Authority3.value>>, Authority3.text),
           V(<<1>> \o Authority1.bytes, <<Authority1.value>>, Authority1.text)>>
    [] kind = "empty_extensions" -> <<P(<<0>>, "[ ]")>>
    [] kind = "beneficiaries" ->
         <<V(<<0>>, <<>>, "[ ]"),
           V(<<1, 0, 1, 1, 97, 26, 6>>, <<W(<<97>>, <<26, 6>>)>>, "Beneficiaries: [a: 15.62%]"),
           V(<<1, 0, 2, 1, 97, 1, 0, 2, 98, 99, 16, 39>>,
             <<W(<<97>>, <<1, 0>>), W(<<98, 99>>, <<16, 39>>)>>,
             "Beneficiaries: [a: 0.01%, bc: 100.00%]")>>

\* The names of the operations, by the number a client knows them by
Name(n) ==
  CASE n = 0 -> "vote" [] n = 1 -> "comment" [] n = 2 -> "transfer"
    [] n = 3 -> "transfer_to_vesting" [] n = 4 -> "withdraw_vesting"
    [] n = 5 -> "limit_order_create" [] n = 6 -> "limit_order_cancel"
    [] n = 7 -> "feed_publish" [] n = 8 -> "convert" [] n = 9 -> "account_create"
    [] n = 10 -> "account_update" [] n = 11 -> "witness_update"
    [] n = 12 -> "account_witness_vote" [] n = 13 -> "account_witness_proxy"
    [] n = 17 -> "delete_comment" [] n = 18 -> "custom_json" [] n = 19 -> "comment_options"
    [] n = 20 -> "set_withdraw_vesting_route" [] n = 22 -> "claim_account"
    [] n = 23 -> "create_claimed_account" [] n = 24 -> "request_account_recovery"
    [] n = 25 -> "recover_account" [] n = 26 -> "change_recovery_account"
    [] n = 32 -> "transfer_to_savings" [] n = 33 -> "transfer_from_savings"
    [] n = 34 -> "cancel_transfer_from_savings" [] n = 36 -> "decline_voting_rights"
    [] n = 37 -> "reset_account" [] n = 38 -> "set_reset_account"
    [] n = 39 -> "claim_reward_balance" [] n = 40 -> "delegate_vesting_shares"
    [] n = 44 -> "create_proposal" [] n = 45 -> "update_proposal_votes"
    [] n = 46 -> "remove_proposal" [] n = 47 -> "update_proposal"
    [] n = 48 -> "collateralized_convert" [] n = 49 -> "recurrent_transfer"

\* The c-th choice of values for operation n
Chosen(n, c) ==
  <<P(<<n>>, Name(n))>>
    \o [j \in DOMAIN Fields(n) |->
          LET values == Values(Fields(n)[j]) IN values[1 + ((c + j) % Len(values))]]

WireOf(contents) == FlattenSeq([j \in DOMAIN contents |-> contents[j].bytes])
ValuesOf(contents) == [j \in DOMAIN contents |-> contents[j].value]
TextsOf(contents) == [j \in DOMAIN contents |-> contents[j].text]

-----------------------------------------------------------------------------
(* Fields in DER, and what is put together of them                           *)

\* In short form, in the long form that is needed, and in one longer than that
Tlv(v) ==
  IF Len(v) < 256 THEN Der(v) ELSE <<4, 130, Len(v) \div 256, Len(v) % 256>> \o v
Tlv3(v) == <<4, 131, 0, 0, Len(v)>> \o v

\* The elements of a path of the application, and how they are written; one
\* that belongs to another application
OwnElements ==
  <<<<128, 0, 0, 48>>, <<128, 0, 0, 13>>, <<128, 0, 0, 0>>, <<0, 0, 1, 2>>, <<255, 255, 255, 255>>>>
OwnTexts == <<"48'", "48'/13'", "48'/13'/0'", "48'/13'/0'/258", "48'/13'/0'/258/2147483647'">>
OwnPathBytes(n) == <<n>> \o FlattenSeq(SubSeq(OwnElements, 1, n))
Bitcoin == <<1, 128, 0, 0, 44>>

ChainId == <<190, 234, 180, 222>>
HeaderValues == <<ChainId, <<18, 52>>, <<>>, <<1, 2, 3, 4>>, <<1>>>>

\* One that is plain, of the fields behind a path
Transaction(pathBytes, pathText, tokens, fieldBytes, values, contents, plain) ==
  [ins |-> "SIGN_TRANSACTION", bytes |-> pathBytes \o fieldBytes, tokens |-> tokens,
   values |-> values, contents |-> ValuesOf(contents), texts |-> TextsOf(contents),
   pathText |-> pathText, plain |-> plain]

\* The four fields of a whole one: header, operation and extensions
Sent(n, tokens, fieldBytes, contents) ==
  Transaction(OwnPathBytes(n), OwnTexts[n], <<"own">> \o tokens, fieldBytes,
              HeaderValues \o <<WireOf(contents), <<0>>>>, contents,
              Len(WireOf(contents)) < 256)

HeaderBytes == FlattenSeq([i \in 1 .. 5 |-> Tlv(HeaderValues[i])])
Whole(contents) == HeaderBytes \o Tlv(WireOf(contents)) \o Tlv(<<0>>)

Exactly(contents) ==
  Sent(3, <<"hdr", "operation", "ext0">>, Whole(contents), contents)

\* Every supported operation, as it is.  AllHashed is about what update_proposal
\* is to clients; here it is what the parser makes of it.
Operations == {Exactly(Chosen(n, c)) : n \in Supported, c \in 0 .. 11}

Name20 == S(Filled(20, 99), Repeat("c", 20))

\* Texts that are longer than the display: lists of 100 names, of 14 numbers,
\* an authority of six keys; and the longest text that a field has room for
ListOf(texts) == "[ " \o Join(texts, ", ") \o " ]"
MaxU64 == "18446744073709551615"
LongTexts ==
  {Exactly(<<P(<<18>>, "custom_json"),
             V(<<100>> \o FlattenSeq([i \in 1 .. 100 |-> <<1, 97>>]),
               [i \in 1 .. 100 |-> <<97>>], ListOf([i \in 1 .. 100 |-> "a"])),
             V(<<0>>, <<>>, "[  ]"), S(<<>>, ""), S(<<>>, "")>>),
   Exactly(<<P(<<46>>, "remove_proposal"), Name20,
             V(<<14>> \o Filled(112, 255), [i \in 1 .. 14 |-> Filled(8, 255)],
               ListOf([i \in 1 .. 14 |-> MaxU64]))>>),
   Exactly(<<P(<<37>>, "reset_account"), S(<<>>, ""), S(<<>>, ""),
             V(<<1, 0, 0, 0, 0, 6>> \o FlattenSeq([i \in 1 .. 6 |-> Key2 \o <<1, 0>>]),
               [weight |-> <<1, 0, 0, 0>>, accounts |-> <<>>,
                keys |-> [i \in 1 .. 6 |-> W(Key2, <<1, 0>>)]],
               "Weight: 1, [  ], " \o ListOf([i \in 1 .. 6 |-> "[ " \o Text2 \o ", 1 ]"]))>>),
   Exactly(<<P(<<17>>, "delete_comment"), S(<<>>, ""),
             S(Filled(252, 99), Repeat("c", 252))>>)}

\* The last values that are shown as they are meant: an amount that fills the
\* display, and the last weight with a sign
LastPrecision == 247
AtTheLimit ==
  {Exactly(<<P(<<22>>, "claim_account"), S(<<97>>, "a"),
             P(<<7, 0, 0, 0, 0, 0, 0, 0, LastPrecision>> \o STEEM,
               "0." \o Repeat("0", LastPrecision - 1) \o "7 HIVE")>>),
   Exactly(<<P(<<20>>, "set_withdraw_vesting_route"), S(<<97>>, "a"), S(<<98>>, "b"),
             P(<<156, 255>>, "-1.00%"), P(<<1>>, "true")>>)}

\* Amounts that no client means: with more digits than the display has room for,
\* up to those whose text memory ends, or that hang the program; with a symbol of
\* seven characters.  Other fields are read in front of them and behind.
NotMeant(q) == [q EXCEPT !.texts = <<>>]
Amounts ==
  {NotMeant(Exactly(<<P(<<39>>, "claim_reward_balance"), S(<<97>>, "a"), P(first, ""),
                      P(<<1, 0, 0, 0, 0, 0, 0, 0, 3>> \o SBD, "0.001 HBD"), P(first, "")>>)) :
      first \in {<<7, 0, 0, 0, 0, 0, 0, 0, precision>> \o STEEM :
                   precision \in {248, 252, 253, 254, 255}}
               \cup {<<7, 0, 0, 0, 0, 0, 0, 0, precision>> \o Filled(7, 65) : precision \in {3, 247}}}

\* An operation of 256 bytes and more, which is copied in part
TooLong == {Exactly(<<P(<<17>>, "delete_comment"), S(<<>>, ""),
                      S(Filled(n, 99), Repeat("c", n))>>) : n \in {253, 255}}

Vote == Chosen(0, 2)

\* Without the last bytes, which cut one of the last fields, and with more
AtTheEnd ==
  {Sent(3, tokens, SubSeq(Whole(Vote), 1, Len(Whole(Vote)) - k), Vote) :
      <<k, tokens>> \in {<<1, <<"hdr", "operation", "junk">>>>,
                         <<3, <<"hdr", "operation">>>>,
                         <<4, <<"hdr", "junk">>>>}}
  \cup {Sent(3, <<"hdr", "operation", "ext0", "junk">>, Whole(Vote) \o <<0>>, Vote)}

\* An operation cut behind each of its bytes, or with one more
Around(contents) ==
  LET wire == WireOf(contents)
      cut(k) == HeaderBytes \o Tlv(SubSeq(wire, 1, Len(wire) - k)) \o Tlv(<<0>>)
  IN {Sent(2, <<"hdr", "opCut", "ext0">>, cut(k), contents) :
         k \in 1 .. Len(wire) - 1}
     \cup {Sent(1, <<"hdr", "operation", "ext0">>,
                HeaderBytes \o Tlv(Append(wire, 0)) \o Tlv(<<0>>), contents)}

InTheOperation == UNION {Around(Chosen(n, 1)) : n \in Supported}

\* The operation's number has no parser, or the operation has no number
Unsupported ==
  {Sent(1, <<"hdr", "opUnknown", "ext0">>, HeaderBytes \o Tlv(wire) \o Tlv(<<0>>), <<>>) :
      wire \in {<<14>>, <<21, 0>>, <<50>>, <<255>>, <<>>}}

\* Other headers: no operation, or two; one without its count; a tag of another
\* type, of another number; lengths in longer forms, of five bytes, of more
\* bytes than there are
HeaderWith(i, field) ==
  FlattenSeq([k \in 1 .. 5 |-> IF k = i THEN field ELSE Tlv(HeaderValues[k])])
WithHeader(token, five) ==
  Sent(2, <<token, "operation", "ext0">>,
       five \o Tlv(WireOf(Vote)) \o Tlv(<<0>>), Vote)
Headers ==
  {WithHeader(t[1], HeaderWith(t[2], t[3])) :
      t \in {<<"hdr2", 5, <<4, 1, 0>>>>, <<"hdr2", 5, <<4, 1, 2>>>>, <<"hdr2", 5, <<4, 0>>>>,
             <<"hdr", 5, <<36, 1, 1>>>>, <<"hdr", 5, <<228, 1, 1>>>>, <<"junk", 5, <<5, 1, 1>>>>,
             <<"hdr", 1, Tlv3(ChainId)>>, <<"hdr", 3, <<4, 128>>>>, <<"hdr", 5, Tlv3(<<1>>)>>,
             <<"junk", 1, <<4, 133, 0, 0, 0, 0, 4>> \o ChainId>>,
             <<"junk", 1, <<4, 132, 255, 0, 0, 4>> \o ChainId>>,
             <<"junk", 4, <<4, 130, 2, 89>>>>}}
  \cup {Sent(2, <<"junk">>, <<4, 130, 1>>, Vote), Sent(2, <<"junk">>, <<4>>, Vote)}

\* Fields whose length an uint8_t does not hold, and which are not plain then
NotPlain(q) == [q EXCEPT !.plain = FALSE]
LongHeaders ==
  {NotPlain(WithHeader("junk", HeaderWith(1, Tlv(Filled(n, 4))))) : n \in {256, 257, 600}}
  \cup {NotPlain(WithHeader("junk", HeaderWith(1, <<4, 130, 1, 0>>)))}

\* Other extensions: of a byte that is not zero, of none, of two
Extensions ==
  {Transaction(OwnPathBytes(1), OwnTexts[1], <<"own", "hdr", "operation", e.token>>,
               HeaderBytes \o Tlv(WireOf(Vote)) \o Tlv(e.sent),
               HeaderValues \o <<WireOf(Vote), e.meant>>, Vote, Len(e.sent) < 2) :
      e \in {[token |-> "ext1", sent |-> <<1>>, meant |-> <<1>>],
             [token |-> "ext0", sent |-> <<>>, meant |-> <<0>>],
             [token |-> "ext1", sent |-> <<1, 2>>, meant |-> <<1, 2>>]}}

-----------------------------------------------------------------------------
(* Paths                                                                     *)

\* Of each length, of another application, of none and of too many elements
Paths ==
  {Sent(n, <<"hdr", "operation", "ext0">>, Whole(Vote), Vote) : n \in 1 .. 5}
  \cup {Transaction(Bitcoin, "44'", <<"foreign", "hdr", "operation", "ext0">>, Whole(Vote),
                    HeaderValues \o <<WireOf(Vote), <<0>>>>, Vote, TRUE)}
  \cup {Transaction(<<n>> \o FlattenSeq(OwnElements) \o Filled(4, 0), "",
                    <<"junk", "hdr", "operation", "ext0">>, Whole(Vote), <<>>, <<>>, TRUE) :
          n \in {0, 6, 255}}

\* Nothing but a path, and less than one
CutPaths ==
  {Transaction(SubSeq(OwnPathBytes(5), 1, size), "", <<"own">>, <<>>, <<>>, <<>>, TRUE) :
      size \in {1, 2, 4, 16, 17, 18, 20, 21}}

\* The shortest transaction of all: decline_voting_rights of nobody, for a path
\* of five elements that lie where its fields do
OverThePath ==
  {Transaction(<<5>>, "", <<"foreign">>,
               <<4, 0, 4, 0, 4, 0, 4, 0, 4, 1, 1>> \o <<4, 3, 36, 0, 1>> \o <<4, 1, 0>>, <<>>,
               <<P(<<36>>, "decline_voting_rights"), S(<<>>, ""), P(<<1>>, "true")>>, FALSE)}

-----------------------------------------------------------------------------
(* Digests and keys                                                          *)

Digest32 == [i \in 1 .. 32 |-> 7 * i]
Digest32Text ==
  "070E151C232A31383F464D545B626970" \o "777E858C939AA1A8AFB6BDC4CBD2D9E0"

HashRequest(pathBytes, pathText, tokens, digest, texts, plain) ==
  [ins |-> "SIGN_HASH", bytes |-> pathBytes \o digest, tokens |-> tokens,
   values |-> <<digest>>, contents |-> <<>>, texts |-> texts, pathText |-> pathText,
   plain |-> plain]

\* Whole ones, none, more than one; one in part, which zeros make up for; and
\* paths that are cut, the rest of which counts as the digest
Hashes ==
  {HashRequest(OwnPathBytes(n), OwnTexts[n], <<"own", "digest">>, Digest32, <<Digest32Text>>, TRUE) :
      n \in 1 .. 5}
  \cup {HashRequest(Bitcoin, "44'", <<"foreign", "digest">>, Digest32, <<Digest32Text>>, TRUE),
        HashRequest(OwnPathBytes(3), OwnTexts[3], <<"own", "digest", "junk">>,
                    Append(Digest32, 0), <<>>, TRUE),
        HashRequest(OwnPathBytes(3), OwnTexts[3], <<"own">>, <<>>, <<Repeat("00", 32)>>, FALSE),
        HashRequest(OwnPathBytes(3), OwnTexts[3], <<"own">>, <<171, 205>>,
                    <<"ABCD" \o Repeat("00", 30)>>, FALSE),
        HashRequest(<<6>>, "", <<"junk">>, Digest32, <<>>, TRUE)}

\* GET_PUBLIC_KEY: what lies behind the path is not looked at.
Keys ==
  {[ins |-> "GET_PUBLIC_KEY", bytes |-> OwnPathBytes(n) \o more, tokens |-> <<"own">>,
    values |-> <<>>, contents |-> <<>>, texts |-> <<>>, pathText |-> OwnTexts[n],
    plain |-> FALSE] :
      n \in 1 .. 5, more \in {<<>>, <<1, 2>>}}
  \cup {[ins |-> "GET_PUBLIC_KEY", bytes |-> SubSeq(OwnPathBytes(5), 1, size), tokens |-> <<"own">>,
         values |-> <<>>, contents |-> <<>>, texts |-> <<>>, pathText |-> "",
         plain |-> FALSE] :
          size \in {1, 16, 17, 20}}

-----------------------------------------------------------------------------
MCRequests ==
  Operations \cup LongTexts \cup AtTheLimit \cup Amounts \cup TooLong \cup AtTheEnd \cup InTheOperation \cup Unsupported
    \cup Headers \cup LongHeaders \cup Extensions \cup Paths \cup CutPaths \cup OverThePath
    \cup Hashes \cup Keys

\* Two beneficiaries, the second with the shorter name
MCBeneficiaries ==
  {Exactly(SubSeq(Chosen(19, 0), 1, 7)
             \o <<V(<<1, 0, 2, 2, 97, 98, 1, 0, 1, 99, 2, 0>>,
                    <<W(<<97, 98>>, <<1, 0>>), W(<<99>>, <<2, 0>>)>>,
                    "Beneficiaries: [ab: 0.01%, c: 0.02%]")>>)}

\* update_proposal, as clients serialise it: the id of the proposal, its
\* creator, the daily pay, the subject, the permlink and the extensions
MCUpdateProposal ==
  {Exactly(<<P(<<47>>, "update_proposal"), P(<<57, 5>>, "1337"), P(Filled(6, 0), ""),
             S(<<97>>, "a"), P(<<1, 0, 0, 0, 0, 0, 0, 0, 3>> \o SBD, "0.001 HBD"),
             S(<<98>>, "b"), S(<<99>>, "c"), P(<<0>>, "[ ]")>>)}
==============================================================================

# Verification of the Hive application for Ledger devices

TLA+ models of the C program under `src/src/`, the TLC runs that check them, and
theorems about them that TLAPS checks. Paths below are those of the repository
(`main.c` is `src/src/main.c`).

The program signs Hive transactions. A host sends commands (APDUs); a
transaction comes in chunks, is parsed and hashed, shown to the user field by
field, and signed when the user approves. What has to be right is easily said:
the user sees what is signed, and nothing is signed that the user did not see
and approve. The rest of this file says what of that is checked and what is not.

## The system

| component | state | operations | hard about it | correct when |
|---|---|---|---|---|
| main loop, I/O (`main.c`, `io.c`) | `G_io_state`, `G_output_len`, the response buffer | `io_recv_command`, `io_send_response`, exceptions of `app_main`, launch, exit | asynchronous exchange: commands, buttons, resets in any order; a response sent from a callback takes another way than one from a handler | one response per command, and none left over |
| parser, dispatcher (`apdu/`) | none | accept or refuse a command | parameters outside the documented ones | what is refused has no effect |
| handlers (`handler/`) | `G_context` | one per command; SIGN_TRANSACTION in chunks | chunks in any order, other commands between them, a refused last chunk | a digest is that of one transaction |
| user's answer (`ui/action/validate.c`) | `G_context.state` | approve, reject | events during the heartbeat between approval and signature; a derivation or a signing loop that throws | signs what was shown, once |
| menus, settings (`ui/menu.c`, `ui/screens/settings.c`) | `N_settings` in NVRAM | navigate, switch hash signing | survives restarts | only the user changes it |
| review of a transaction (`ui/screens/review_transaction.c`) | five static variables | buttons, `display_next_state`, `parse_field` | fields decoded anew at each press, into one buffer; two steps of the flow that show nothing; variables that outlive a review | each field once, in order, with its own title |
| parsing (`transaction/transaction_parse.c`, `common/buffer.c`, `common/asn1.c`, `common/bip32.c`) | running sha256 in the context | `transaction_parse`, `hash_parse`, the reading of paths and fields | hashes while it parses, stops in the middle; lengths from the host, bytes behind the data | hashes what the client means or refuses |
| operations (`transaction/parsers.c`, `decoders.c`) | the operation's offset | a table of decoders per operation, each used to hash and to show | the two uses must read the same bytes | shown = hashed = meant |
| signing (`crypto.c`, `common/rng_rfc6979.c`, `common/signature.c`) | chain of nonces, signature buffer | draw, sign, rewrite, check | a loop over buffers that are used again | a fresh nonce per round, an exact canonical signature |
| formatting (`common/format.c`) | none | numbers, amounts, dates, digests | edges of calendars and numbers, texts that do not fit | text = value |
| key texts (`common/base58.c`, `common/wif.c`) | a buffer of digits | `base58_encode`, `base58_decode` | a loop that ends by where the one before ended | the digits of the number |

The parts share `G_context`, the response buffer and the display. The program
has one thread. It gives up control only inside the SDK's `io_exchange`, where
the next command, a button press or a reset may come, and in one heartbeat
before a signature. A button runs its callback inside `io_exchange`.

## Modules

| module | models |
|---|---|
| `HiveApp` | main loop, I/O states, dispatcher, handlers, menus, setting, the user's answers |
| `Tokens` | a request as a sequence of whole fields: what the parser makes of it |
| `Signer` | abstract: an item is shown, agreed to, signed once |
| `ReviewFlow` | the screens of a transaction's review |
| `Carousel` | abstract: a ring of screens turned page by page |
| `Transaction` | a request byte by byte: path, fields, operation, extensions, digest |
| `Operation` | the decoders of an operation, when hashing and when showing |
| `Serialiser` | a client's values, how it writes them, and the texts they have |
| `Texts` | what is printed: numbers, amounts, dates, paths, digests, keys |
| `Base58` | `base58_encode` and `base58_decode` digit by digit |
| `Signature` | the loop of `crypto_sign_digest`, the nonces, the compact form |
| `Timestamp` | `format_timestamp` next to a calendar |
| `MCHiveApp`, `MCReviewFlow`, `MCTransaction`, `MCBase58`, `MCSignature` | instances for TLC |
| `HiveApp_proofs`, `ReviewFlow_proofs`, `Operation_proofs`, `Transaction_proofs`, `Base58_proofs`, `Signature_proofs` | theorems |
| `Least` | that a set of numbers has a least one, which several proofs use |
| `Numbers` | positional numbers: zeros in front, the digits of a number, the existence of recursive functions, for the proofs of `Base58` |

How they are put together:

* `HiveApp` implements `Signer`, `ReviewFlow` implements `Carousel`, each by a
  refinement mapping.
* `HiveApp` EXTENDS `Tokens`, in which a request is a few tokens. `Transaction` has the
  bytes, and INSTANCEs `Tokens`: `ReadAsTokens` says that the bytes of a request for an own
  path are accepted if and only if its tokens are. It speaks of plain requests only, those
  without a field of 256 bytes or more and with a whole digest; of the others, and of
  requests for foreign paths, `Tokens` is not shown to be what the bytes are read as. Within
  these limits, and for the requests of the run, what `HiveApp` shows of tokens is about the
  program that reads bytes.
* `Transaction` EXTENDS `Serialiser`, that `Operation`, and that `Texts`: one traversal from
  the path to the texts of the fields. `Timestamp` and `Base58` EXTEND `Texts` too. The dates
  that `Timestamp` compares with a calendar are those the decoders show, and
  `Base58Digits`, by which `Texts` writes a key, is what `Base58` shows the loops to
  compute.
* A review is one screen in `HiveApp`, whose pages `ReviewFlow` opens up; a field is a
  position in `ReviewFlow`, whose bytes and text `Operation` opens up; making a
  signature is one step in `HiveApp`, whose rounds `Signature` opens up.

Some definitions have a variant marked "Mistaken" next to them, which nothing
uses. Replacing the definition by it violates the property it is there for; it
shows that the property depends on that code.

### HiveApp

`ctx` is `G_context`: `state`, `reqType`, `path`, `raw` (`raw_tx`), `sha` (the
sequence of fields given to the running hash) and `item` (the operation or the
digest). `ioState` is `G_io_state`, `out` the response in the buffer, `nvram` is
`N_settings`. `pc` says where the device is: before an `io_recv_command` (`loop`),
in `io_exchange`, in the heartbeat, or not running. `owed`, `reply` and `shown`
are what the host and the user observe; `spoiled` is history.

A step is what runs between two points where control is given up. A handler is
one step with all it calls, down to the answer or the screen it ends with:
`Refuse`, `GetInfo`, `GetPublicKey`, `SignTxFirst`, `SignTxNext` (with `FinishTx`,
the parsing after the last chunk) and `SignHash`. An approval is two steps,
`Approve` and `Sign` or `SignThrows`, since the heartbeat lies between them.
`Reset` is the loss of the link at any blocking call, `Quit` the menu's entry and
the loss of power, `Launch` opens the application.

In `Tokens` a serialised transaction is a sequence of tokens: a path, the header (five fields
before the operation), the operation, the extensions. Other tokens are what the
parser refuses at each of these places, with or without hashing it first. The
parser throws for an operation it does not know. A path is own or foreign; the
system refuses, by an exception, to derive a key for a foreign one. Status words
other than OK are not told apart. P1 and P2 are bytes.

What follows from the code and is easily overlooked:

* A foreign path is only found out after the approval, when its derivation throws; and
  for any path, what the SDK throws in the signing loop is thrown again
  (`crypto.c:115`; `Refused` of `Signature` ends in it). The exception leaves the
  callback, its code is the answer, and `state` stays APPROVED under the signing
  screen: requests to sign are refused until GET_PUBLIC_KEY clears the context or
  the link goes down. `IdleIsSettled` says what is left of the approval then: the
  signing screen over it, however many commands come in between, and no signature.
* A last chunk that is refused leaves `TX_RECEIVING`, `raw_tx` and a partly updated
  hash. `spoiled` remembers it; `DigestExactUnlessSpoiled` and `SignedAsShown` say
  what holds with and without it.
* The case WAITING of `io_recv_command` is unreachable, and so are the guards of the
  `ui_display_*` functions: `ReplyDiscipline` and `ReviewMatchesContext` imply it.

### ReviewFlow

`state`, `position`, `title` and `value` are `g_current_state`,
`g_tx_field_position` and the two buffers of `g_tx_field_parsed`, a buffer standing
for the field whose text it holds. `index` and `page` are the SDK's: the step of the
flow and the page of its text. A press of a button is one step, through a
delimiter and `display_next_state` to the screen it leads to. The variables keep
their values when a review ends, by an answer or by `Abort`, and the next one starts
over them.

### Transaction and Operation

`request` is what the client sent; `offset` is `buf->offset`, `path` and `shownPath` are
the path and its text, `fields` counts the TLVs read, `header` and `trailer` are what is
given to `cx_hash` before and behind the operation. `ReadPath` is
`buffer_read_bip32_path` for the three handlers that read one, with
`bip32_path_read`, which looks where an element begins and not where it ends, and
`buffer_seek_cur`, which goes behind the path or nowhere. `ReadField`, `ReadOperation` and
`ReadExtensions` are the parts of `transaction_parse`, each with `buffer_read_tlv`: tag,
length of up to four bytes, and a copy whose length is an `uint8_t`. `ReadDigest` is
`hash_parse`. `Memory` holds the bytes that are read outside of the request: zeros
behind `raw_tx`, otherwise any byte (`around`).

`operation` is the buffer of the operation, with its own offset, and `parser` the
table. `Decode(kind, o)` is what a decoder does from offset `o`: whether it succeeds, where
it stops, what it hashes and what it shows. `HashField` is the loop of
`transaction_parse`, which hashes; `ShowField` is the loop of `parse_field`, which shows,
for any position. `Hang` is `ShowField` where it never ends: on an asset of precision 255
the loop in `format_asset` waits for a longer text than its buffer holds, which with a zero
behind the buffer never comes (phase `hung`); with another byte there `ShowField` goes on. `HiveApp` and
`ReviewFlow` have no such step: to them it is a user who does not turn on.
`ends` is history: where each decoder ended when it hashed. A
decoder that fails has the transaction refused; what it had hashed until then is left
out here, and `HiveApp` has it.

A request of `MCTransaction` comes with what its client means by it: the tokens, the
values that are to be hashed and the text of each field, written down from a table
of values as they are serialised and as they are read by a person, independently of
the decoders.

`Serialiser` says the same for every value there can be. A value is what a field is about:
the characters of a string, the names of a list, the accounts and keys of an authority.
`FieldBytes` writes it and `FieldText` is its text; `WholeOperation` says that the operation
of a request is the values of its parser's fields (`contents`), written one behind the
other. The client is no part of the repository, so this is the opposite of what each
decoder reads, and it goes no further than they do: lengths and numbers of items have one
byte, up to 127, and names fit the buffers they are copied to.

### Texts and Base58

Texts are strings, values sequences of bytes, the lowest first as in the operations.
Numbers of 64 bits are divided byte by byte, since TLC's integers have 32. `Cut` is
what `snprintf` leaves in a buffer and `Text` what it prints of one, on into the
memory behind if there is no NUL. `Spill` stands for what memory decides from there on, its
length included: a property that compares texts says nothing of what follows it. Values
whose text comes to that are told apart by `TextEnds` of `Serialiser`.

In `Base58` each turn of the two inner loops is a step. `stop_at` is a `size_t` that
becomes `Wrapped` if the loop runs off the front. `base58_decode` has no caller in the
program; it is there to get back what was encoded.

### Signature

Numbers have `N` bytes (32 in the code) and `sig` is the compact form, byte for byte.
A nonce is known by its place in the chain (`chain`); which bytes it has, and which
numbers the curve makes of it, is left open. A candidate not below the order is
either signed with or refused by the SDK.

### Timestamp

`day` and `date` go through the calendar by its rules; `FormatTimestamp` computes the
same date from the day as the code does. The time of the day is a remainder and
left out.

## Runs

Passing:

| run | bounds | states | what it shows |
|---|---|---|---|
| `device` | one own and one foreign path, two operations, one digest, room for five fields, a few dozen commands | 162275 | all invariants of `HiveApp`, the setting, `Signer`, every command is answered |
| `flow` | operations of 1, 2, 3 and 9 fields, texts of 1 to 3 pages | 252 | the screens of a review |
| `transaction` | every operation in twelve contents, cut behind each byte; some sixty other requests; three bytes around | 108577 | what is hashed and shown is what is meant, and is never refused |
| `loop` | three bytes, three nonces, two rounds | 7087 | the signing loop |
| `base58` | inputs of up to 4 bytes of {0, 1, 57, 58, 255}, keys, the limits | 43379 | the digits and back |
| `calendar` | none: every day of an `uint32_t` | 49711 | the date |

Why the bounds suffice. `HiveApp`: five fields are one more than a transaction has, so
that chunks can overflow; two operations tell one transaction from another; two
paths are the two ways a derivation ends (the signing loop may throw for both). `ReviewFlow`: tables have two to nine
entries; one, two, and nine reach the edges of the loops, three pages have a page
that is neither first nor last. `Transaction`: a kind of field has one to four
values, with empty and longest names, no, one and two items and the ends of the
numbers, and twelve choices go through all of them at each place; besides there are
lengths in short and longer forms, of five bytes, of more than there are, of 256 and
more; tags of other classes and types; counts of operations other than one;
extensions of no, one and two bytes; texts longer than the display; paths of every
length, cut behind several of their bytes. `Outside` has a zero, a tag and another
byte with the number of an octet string, which a path that is cut may run into. `Signature`:
a byte is zero, low or high, and a third byte gives room for a number that is short
by one or two; two rounds are what the buffer's reuse needs. `Base58`: bytes beside 58
and at the ends make carries of every kind, and keys have their full length of 37
bytes.

Deadlock is not checked in `transaction`, `loop`, `base58` and `calendar` (nor in the
other runs of these modules): a refused request, a returned signature, a decoded text
and the last day are ends. The device itself never stops.

Fairness, in `device` only: `WF(Recv)` and `WF(Sign \/ SignThrows)`, because nothing
but the program's own code runs there, and `WF(UserAnswer)`, an attended device. A
user who walks away leaves the host waiting, and the code has no timeout. That includes
a user who cannot answer because the review hangs (`Hang`, for an amount of precision
255): `Answered` does not speak of it. `Answered` needs no fairness of the host.

## Disagreements between the code and what is said of it

Each of these has a run in which TLC finds it; the counterexample is the shortest.

| run | what the code does |
|---|---|
| `extensions` | takes a transaction with extensions (`transaction_parse.c:99`) |
| `digest` | after a refused last chunk, hashes the next one behind the remains (`sign_tx.c:91`) |
| `beneficiaries` | shows the end of a longer name behind a shorter one (`decoders.c:535`) |
| `update` | accepts `update_proposal` after its first bytes (`parsers.c:262`) |
| `compact` | shifts a signature's number that is shorter than 32 bytes (`signature.c:47`) |
| `date` | shows the last days of a leap year a day early (`format.c:49`) |

The properties of the passing runs say what holds beside them: `DigestAsMeant`,
`SignedAsSerialised` and `ShownAsMeant` what is hashed and shown of the other operations, `RightDate` which
dates are right, `FullSignatureExact` which signatures are exact,
`DigestExactUnlessSpoiled` when a digest is right.

Smaller ones are in the definitions, without a run:

* `ReadDigest`: a digest of fewer than 32 bytes is completed by zeros.
* `BadParams`: SIGN_TRANSACTION is refused only when both parameters are wrong.
* `Decoded`: `parse_field` ignores a decoder that fails when it formats, as
  `decoder_asset` may: `Insert` loses the symbol of an asset from a precision of 248 on
  (a little earlier or later with a shorter or longer symbol), and its NUL from 253 on;
  from 254 on memory decides where the point goes.
* `Endless`: with precision 255 and a zero behind the buffer, the loop of `format_asset`
  that pads the amount never ends, and the device hangs in the review.
* `Symbol`: a symbol of seven characters has no NUL in `asset_t`; it is shown with what
  lies behind it on the stack, or not at all.
* `Asset`: a negative amount smaller than one has its sign behind the zeros.
* `Percent`: a weight from -99 to -1 is shown without its sign.
* `Uint32`: an `uint32_t` from 2^31 on is shown as a negative number.
* `Taken`: of a field of 256 bytes or more, the length modulo 256 is copied; the rest
  of it is read as what follows.
* `BehindPath`: a path that is cut is read again as the first fields, or as the digest.
* `ReadExtensions`: one byte of extensions is hashed, whatever their length.
* `Terminated`: a key of 51 digits would fill its buffer and have no NUL; compressed
  keys have 50 digits at most.
* `Found`: a candidate for a nonce passes as below the order when any of its bytes is
  below the order's. With the order of the curve this concerns about one candidate in 2^127.

The texts of the run `transaction` go as far as these: to a precision of 247, the last
with room for its symbol, to a weight of -1.00% and to the number 2^31 - 1. Some of
the amounts beyond, of seven characters and of precisions up to 255, are in the run
(`Amounts`) without a text that is meant; weights from -99 to -1, numbers from 2^31 on,
negative amounts and several beneficiaries of which a later one is shorter are not.
`ShownAsMeant` says nothing of any of these, and would not notice if the code treated them
yet otherwise. A
request with a field of 256 bytes or more is in the run, marked as not `plain`, and
`DigestAsMeant` and `ReadAsTokens` do not speak of it, nor does `SignedAsSerialised`; the
others do.

## Proofs

The theorems hold for every value of the constants that the modules' assumptions
allow. They are `ConstantsAssumption` (commands have their type, own and foreign
paths differ), `ReviewAssumption` (an operation has a field, a text has a page),
`SignatureAssumption` (numbers have at least two bytes; the sets hold such numbers),
`TransactionAssumption` (requests and memory consist of bytes, and a request is not
empty) and `Base58Assumption`. `Checksum` is any operator.

`HiveApp`. The invariants are not inductive one by one: that a signature covers what
was shown depends on what happened several commands earlier. `IInv` adds `SessionInv`
to them, of four parts. `PlaceInv` ties the place of the device to the screen and the
I/O state; `RequestInv` ties the state of a request to its review or the signing screen, its path and, while
chunks come in, to an empty hash; `ReadyInv` says that a transaction under review, in
the heartbeat or just signed has its own digest as the end of the running hash;
`SignatureInv` says that a signature in the host's hands is one over the context as
it still is. One lemma per action shows that `IInv` is kept. Handlers share `AnswerInv`
and `AskInv`, the two ways they end, and `FinishTxInv`, the last chunk, which rests
on lemmas about what the parser accepts and hashes. The safety theorems follow from
`IInv` at once; `SignaturesAsShown` and `DigestsExact` need the digest taken apart. For
`Implementation` each action is shown to be a step of `Signer` or a stutter, under `IInv`.

`ReviewFlow`. `FlowInv` is inductive. `UpperStep` and `LowerStep` say what
`display_next_state` leads to from either side, from lemmas on `parse_field` in both
directions. With them `WalkImplemented` maps every press to a step on the ring.

`Transaction`, for every request, of any length and content, and any byte around it.
`PathInv` says how far a path was read and where the fields begin, and that an own
path, once a field is read, lies in front of the offset. It holds since a cut path
leaves the offset at its own first byte, which in an own path is no tag
(`FirstFieldBehind`); `TlvGoesOn` says that reading a field never goes back. `OperationInv`
is for `HashedInOrder`, `ShownFromHashed` and `TransactionTypes`. Its part `DecodedInv` says of the decoders so far
that each succeeded from where the one before it ended, and that what they hashed
are the bytes up to there. `Operation_proofs` shows that of each decoder (`DecodeReads`):
if it succeeds its offset is in the operation, and what it hashes are the bytes it
went over. The second pass is `RereadAsBefore`: `parse_field` comes to each field at the offset
where it was hashed. `DecodeSame` carries what is on the display over the steps that
leave the bytes alone.

`SerialisedIsSigned` is about the way there. `Der` says how a client serialises a value of
less than 256 bytes, and `Serialised` that seven of them lie behind the path and nothing
else. `DerIsRead` shows that `buffer_read_tlv` gets each back and leaves off behind it.
`SerialInv` then says, phase by phase, that the bytes behind the offset are the fields
not yet read (`Wire`) and that what is signed are the values before them (`Signed`). It
needs `PathInv`, since the fields begin behind a path that is all there, and `OperationInv`,
since of the operation the decoders hash a beginning. The theorem says a beginning and not
all: `update` shows an operation of which the rest is left out, because what clients send
is not what its parser reads.

When it is, all of it is signed. `DecodeTakes` in `Operation_proofs` is about one decoder:
wherever the bytes of a value lie (`Lies`), it succeeds with them, ends where they end and
makes the value's text, if that is one the program ends itself (`TextEnds`). `ItemsTake` does this for a list of any items that do it one by one,
and `ArrayTakes`, `AuthorityTakes`, `OptionalTakes` and `ExtensionsReach` are put together from
it. `PlacesLie` finds the place of each field in the operation, and `PlacesReached` shows that the
decoders, one after the other, come to these places (`FieldsLie`). `ContentsInv` adds that the
parser is that of the operation's first byte. So the last decoder ends at the end of the
operation (`WholeOperationIsSigned`), and the field on the display, which `OperationInv` says is
read from the place where it was hashed, has the text of its own value (`ValuesAreShown`).
The text of beneficiaries is excepted, as `beneficiaries` shows, and so are the texts that
memory ends: of amounts with a symbol of seven characters or a precision from 253 on, and of keys
of 51 digits. The bytes of all of them are signed.

`SerialisedIsAccepted` is the other side: a refusal has to come from somewhere. `NeverRefused` is
inductive with the invariants before it and `PathThere`, by one lemma for each place that
refuses: `PathAccepted`, `TlvAccepted`, `DecoderAccepts`. What remains is a transaction that says
it has not one operation, or is longer than `raw_tx`; the hypotheses name both.
`SentPathIsShown` follows from `PathInv` and `PathThere`.

`Signature`. `NonceInv` adds to `NoNonceRepeated` that the places used lie behind the
chain, strictly while a nonce waits, and that the key is given only before the first.
`FullSignaturesReturned` follows how `signature_from_der` overwrites the buffer number by
number; it holds for numbers of any width, with what any round before left there.

`Base58`, for every input the assumption allows. `EncodeInv` bounds digits and carries: a digit
and a carry make less than 58 * 256. `RoundInv` adds three parts. `ValueInv`: the digits are
the number of the bytes read so far, and in the middle of a byte they are it when what
is above the carry counts 256 times (`Carried`). `RoomInv`: k bytes have reached no more
than `Bound(k)`, eleven digits for eight bytes, since 256^8 < 58^11, and that is no more than
the 138 / 100 of the code. `NothingAhead`: zeros lie in front of where the loop ended. The
three need each other: a byte has its room because its number is small and nothing lies
in front, and the loop ends late enough because the number it has yet to place is there.
`RoomIsEnough` and `NoDigitLeftBehind` are parts of `RoundInv`. `WritesTheNumber` rests on
digits being unique (`SameDigits`): those of the loop and those of long division stand for
the same number. `DecodesWhatWasEncoded` needs `DecodeInv`: each division by 256 uses up a
digit in front, and what is left of the text, followed by the bytes decoded, is the
number of the input (`QuotientInv`); zeros in front are counted apart. `RoundInv` and `DecodeInv`
say that functions exist, which TLC cannot enumerate; it checks the properties
that follow from them.

The prover cannot use the library's induction theorems. Where a recursive function
over items, fields or digits is proved about (`RunReads`, `BeneficiariesRead`,
`RereadAsBefore`, `ItemsTake`, `PlacesLie`, `PlacesReached` and the proofs of `Base58`), the argument is the least counterexample, by
`LeastNumber`, and that such a function exists at all is proved in the same way
(`RunExists`).

Only model-checked:

* `Answered`: the prover does not do liveness under fairness.
* `DigestAsMeant`, `ShownAsMeant`, `PathAsMeant`, `ReadAsTokens`: they compare with what
  clients mean, which is a table of values and no definition to prove about. Their
  counterparts for every value are proved: `SignedAsSerialised` with `SignedWhole`,
  `ShownAsSent`, `PathAsSent` and `NeverRefused`. What these take as given, and the tables show,
  is that a date, an amount or a key is printed as a person reads it: the text of a value
  is made with the operators of `Texts`. The tables also have requests that are not
  serialised as they should be, of which the theorems say less (`HashedAsRead`,
  `ShownAsHashed`, `OwnPathInFront`, `TypeOK`).
* `Timestamp` (`TypeOK`, `RightDate`, `NeverBack`): TLC sees every state there is, and
  for days beyond an `uint32_t` the date is not right.

## Not modelled

* The SDK: the exchange (half duplex: it drops commands while one is unanswered), the
  flow engine, hashing, the curve and key derivation appear as the code uses them.
* Events that arrive while a response is sent, from inside a button's callback.
* HMAC, the curve and the checksum of a key (`Checksum`).
* The reviews of a public key and of a digest are one screen each; what they show is
  in `Transaction`.
* The routines of `buffer.c`, `read.c` and `write.c` that nothing calls.
* Icons are generated bitmaps; tests, build files and documents are no part of the
  program.
* Layout of memory: writes behind an array are noted as hazards and not modelled.

## Plan

Done: the core (`HiveApp`, `Signer`), `ReviewFlow`, `Signature`, `Timestamp`; then requests
byte by byte (`Transaction`, `Operation`), texts (`Texts`), keys (`Base58`), the agreement with
`Tokens`, and the proofs about both passes over an operation, about what becomes of a transaction
that was serialised (accepted, signed as a whole, shown value by value), and about base58
in both directions.

What could follow:

1. `HiveApp` together with `ReviewFlow`: an approval comes from the approve screen, and a
   review that is aborted leaves nothing for the next one. Now each has the abstraction
   of the other.
2. The other half of `ReadAsTokens` for every request: `SerialisedIsAccepted` says that whole
   fields are accepted, and nothing yet that only they are.

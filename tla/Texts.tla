-------------------------------- MODULE Texts --------------------------------
(***************************************************************************)
(* What the program prints: numbers, amounts, dates, paths, digests and    *)
(* keys, as snprintf and the functions of format.c, bip32.c and wif.c do.  *)
(* Texts are strings, without their NUL; values are sequences of bytes.    *)
(***************************************************************************)
EXTENDS Integers, Sequences, FiniteSets, FiniteSetsExt, TLC

\* From here on memory decides what is printed, and how long it is: a buffer
\* has no NUL.  What is said of a text that holds it is said of what stands in
\* front of it.
Spill == "<spill>"

-----------------------------------------------------------------------------
(* Strings                                                                 *)

\* One behind the other, with sep in between: half of them and the other half
Join(texts, sep) ==
  LET N == Len(texts)
      span[a \in 1 .. N, b \in 1 .. N] ==
        IF a = b THEN texts[a]
        ELSE span[a, (a + b) \div 2] \o sep \o span[(a + b) \div 2 + 1, b]
  IN IF N = 0 THEN "" ELSE span[1, N]

Repeat(t, n) == IF n <= 0 THEN "" ELSE Join([i \in 1 .. n |-> t], "")

\* What snprintf leaves of t in a buffer: room characters and a NUL
Cut(t, room) == IF Len(t) <= room THEN t ELSE SubSeq(t, 1, room)

\* The characters from 32 on; "?" stands for the backtick
Printable ==
  " !\"#$%&'()*+,-./0123456789:;<=>?@ABCDEFGHIJKLMNOPQRSTUVWXYZ[\\]^_?abcdefghijklmnopqrstuvwxyz{|}~"

Character(b) == IF b \in 32 .. 126 THEN SubSeq(Printable, b - 31, b - 31) ELSE "?"

\* What "%s" prints of a buffer: up to its NUL, or on into what lies behind
Text(chars) ==
  LET nuls == {i \in DOMAIN chars : chars[i] = 0}
      end == IF nuls = {} THEN Len(chars) ELSE Min(nuls) - 1
  IN Join([i \in 1 .. end |-> Character(chars[i])], "")
       \o (IF nuls = {} THEN Spill ELSE "")

-----------------------------------------------------------------------------
(* Numbers, from the lowest byte on or, where so named, from the highest   *)

Reversed(b) == [i \in DOMAIN b |-> b[Len(b) + 1 - i]]

\* Long division of a number, its highest byte first
Divide(b, base) ==
  LET run[i \in 0 .. Len(b)] ==
        IF i = 0 THEN [quotient |-> <<>>, rest |-> 0]
        ELSE LET before == run[i - 1]
                 n == 256 * before.rest + b[i]
             IN [quotient |-> Append(before.quotient, n \div base), rest |-> n % base]
  IN run[Len(b)]

\* The 3 * n lowest digits of a number, the highest first, as it is given
InBase(b, base, n) ==
  LET run[i \in 0 .. n] ==
        IF i = 0 THEN [left |-> b, digits |-> <<>>]
        ELSE LET before == run[i - 1]
                 next == Divide(before.left, base * base * base)
             IN [left |-> next.quotient,
                 digits |-> <<next.rest \div (base * base), (next.rest \div base) % base,
                              next.rest % base>> \o before.digits]
  IN run[n].digits

\* Without the zeros in front, down to the last keep digits
Stripped(digits, keep) ==
  LET first == Min({i \in DOMAIN digits : digits[i] # 0} \cup {Len(digits) + 1 - keep})
  IN SubSeq(digits, first, Len(digits))

\* Digits as the characters of an alphabet
Written(alphabet, digits) ==
  Join([i \in DOMAIN digits |-> SubSeq(alphabet, digits[i] + 1, digits[i] + 1)], "")

\* format_u64, and "%d" of what an int can hold
Unsigned(b) == Written("0123456789", Stripped(InBase(Reversed(b), 10, 7), 1))

Negative(b) == b[Len(b)] >= 128

\* The magnitude of a negative number in two's complement: the bytes up to
\* the first that is not zero are negated, the others inverted
Negated(b) ==
  LET first == Min({i \in DOMAIN b : b[i] # 0})
  IN [i \in DOMAIN b |-> IF i < first THEN 0 ELSE IF i = first THEN 256 - b[i] ELSE 255 - b[i]]

\* format_i64, and "%d" of a signed number
Decimal(b) == IF Negative(b) THEN "-" \o Unsigned(Negated(b)) ELSE Unsigned(b)

Natural(b) == b[1] + 256 * b[2]
Int16(b) == IF Negative(b) THEN Natural(b) - 65536 ELSE Natural(b)

TwoDigits(n) == IF n < 10 THEN "0" \o ToString(n) ELSE ToString(n)

Magnitude(n) == IF n < 0 THEN -n ELSE n

\* "%d.%02d%%" of w / 100, which C rounds towards zero, and what is left of
\* its magnitude: the sign is that of the whole part
Percent(w) ==
  LET whole == Magnitude(w) \div 100
  IN (IF w <= -100 THEN "-" ELSE "") \o ToString(whole) \o "." \o TwoDigits(Magnitude(w) % 100) \o "%"

-----------------------------------------------------------------------------
(* Assets                                                                  *)

\* insert_string, so far before the end of a text, into a buffer of room
\* characters and a NUL.  Only the place for source is looked at: what it moves
\* on may fill the place of the NUL.  format_asset ends with the first that
\* fails.
Insert(part, room, source, before) ==
  LET position == Len(part.text) - before
      longer == SubSeq(part.text, 1, position) \o source
                  \o SubSeq(part.text, position + 1, Len(part.text))
  IN IF ~part.ok \/ Len(source) + position > room THEN [part EXCEPT !.ok = FALSE]
     ELSE [ok |-> TRUE,
           text |-> IF Len(longer) <= room THEN longer ELSE Cut(longer, room + 1) \o Spill]

\* Zeros in front, until the text is longer than its fraction
Padded(t, precision) == Repeat("0", precision + 1 - Len(t)) \o t

\* The seven bytes of a symbol lie at the end of an asset on the stack.  Where
\* none of them is a NUL, strlen goes on behind them: memory decides what is
\* inserted, and whether it fits, which seven characters (those of Spill) would
\* at least have to.
Symbol(b) ==
  CASE SubSeq(b, 1, 5) = <<83, 84, 69, 69, 77>> -> "HIVE"
    [] SubSeq(b, 1, 3) = <<83, 66, 68>> -> "HBD"
    [] OTHER -> IF \E i \in DOMAIN b : b[i] = 0 THEN Text(b) ELSE Spill

\* format_asset: an amount of 8 bytes, the precision and the symbol.  What it
\* leaves when a part does not fit is what is shown: the caller goes on.
\* A precision of room - 1 leaves a full buffer, whose NUL the point takes.
\* From room on the zeros take it themselves: strlen then counts what lies
\* behind the buffer, and the point goes where that says, or nowhere.  (And the
\* loop of the zeros may not end at all: Endless of Operation.)
Asset(b, room) ==
  LET precision == b[9]
      amount == IF precision >= room THEN [ok |-> FALSE, text |-> Spill]
                ELSE [ok |-> TRUE, text |-> Padded(Decimal(SubSeq(b, 1, 8)), precision)]
      dotted == Insert(amount, room, ".", precision)
  IN Insert(Insert(dotted, room, " ", 0), room, Symbol(SubSeq(b, 10, 16)), 0)

-----------------------------------------------------------------------------
(* Dates                                                                   *)

Leap(y) == (y % 4 = 0 /\ y % 100 # 0) \/ y % 400 = 0

\* month_days, with February as in year y
MonthDays(y) ==
  <<31, IF Leap(y) THEN 29 ELSE 28, 31, 30, 31, 30, 31, 31, 30, 31, 30, 31>>

\* Mistaken: the rough year is counted as well.
UpTo(y) == 1972 .. y

\* The years the loop goes through
Before(y) == 1972 .. y - 1

\* The leap days so far, up to a year that is a little too late by now
LeapDays(n) ==
  LET rough == 1970 + n \div 365
  IN Cardinality({y \in Before(rough) : Leap(y)})

\* Mistaken: the rough year is the year.
RoughYear(n) == 1970 + n \div 365

YearOf(n) == 1970 + (n - LeapDays(n)) \div 365

\* The days of the first m months of the year, temp_days of the loop
FirstMonths(y, m) == MapThenSumSet(LAMBDA k : MonthDays(y)[k], 1 .. m)

\* Mistaken: counted from zero
DayFromZero(n) == (n - LeapDays(n)) % 365

DayOfYear(n) == ((n - LeapDays(n)) % 365) + 1

\* The date of format_timestamp, from the days since 1970: the loop over the
\* months ends with the first that the day does not lie behind, or December.
FormatTimestamp(n) ==
  LET year == YearOf(n)
      dayOfYear == DayOfYear(n)
      month == Min({m \in 0 .. 11 : dayOfYear <= FirstMonths(year, m)} \cup {12})
  IN <<year, month, dayOfYear - FirstMonths(year, month - 1)>>

\* The days and the seconds of a timestamp of four bytes, by way of its half,
\* which TLC can compute with
DaysAndSeconds(b) ==
  LET half == (b[1] \div 2) + 128 * (b[2] + 256 * b[3]) + 8388608 * b[4]
  IN <<half \div 43200, 2 * (half % 43200) + (b[1] % 2)>>

\* format_timestamp of four bytes
DateTime(b) ==
  LET n == DaysAndSeconds(b)
      date == FormatTimestamp(n[1])
      seconds == n[2]
  IN Join(<<ToString(date[1]), TwoDigits(date[2]), TwoDigits(date[3])>>, "-") \o "T"
       \o Join(<<TwoDigits(seconds \div 3600), TwoDigits((seconds \div 60) % 60),
                 TwoDigits(seconds % 60)>>, ":")

-----------------------------------------------------------------------------
(* Paths, digests and keys                                                 *)

\* Mistaken: the mark of a hardened element is left out.
Unmarked(e) == Unsigned(<<e[4], e[3], e[2], e[1] % 128>>)

\* One element, its highest byte first: the number, and the mark of bit 31
PathElement(e) ==
  Unsigned(<<e[4], e[3], e[2], e[1] % 128>>) \o (IF e[1] >= 128 THEN "'" ELSE "")

\* bip32_path_format
PathText(path) == Join([i \in DOMAIN path |-> PathElement(path[i])], "/")

\* format_hash
Hex(b) ==
  Written("0123456789ABCDEF",
          [i \in 1 .. 2 * Len(b) |->
             IF i % 2 = 1 THEN b[(i + 1) \div 2] \div 16 ELSE b[i \div 2] % 16])

BASE58_ALPHABET == "123456789ABCDEFGHJKLMNPQRSTUVWXYZabcdefghijkmnopqrstuvwxyz"

\* What base58_encode is to compute: a digit 1 for each zero byte in front,
\* and the number in base 58
Base58Digits(b) ==
  LET zeros == Min({i \in DOMAIN b : b[i] # 0} \cup {Len(b) + 1}) - 1
      number == InBase(SubSeq(b, zeros + 1, Len(b)), 58, (Len(b) - zeros + 1) \div 2)
  IN [i \in 1 .. zeros |-> 0] \o Stripped(number, 0)

PUBKEY_WIF_STR_LEN == 54

\* A buffer of this size as "%s" prints it: a key of 51 digits fills it, and
\* leaves no room for the NUL.
Terminated(t) == IF Len(t) < PUBKEY_WIF_STR_LEN THEN t ELSE t \o Spill

Wif(key, checksum) == "STM" \o Written(BASE58_ALPHABET, Base58Digits(key \o checksum))

\* wif_from_compressed_public_key, of a key and its checksum
KeyText(key, checksum) == Terminated(Wif(key, checksum))
=============================================================================

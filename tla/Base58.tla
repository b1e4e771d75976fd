-------------------------------- MODULE Base58 --------------------------------
(***************************************************************************)
(* base58_encode, which makes a key readable, digit by digit.  Each byte   *)
(* of the input is carried through the digits so far, from the last one to *)
(* the front; where the digits begin is not recorded, only the place       *)
(* stop_at that the byte before came to.  The inner loop has to go past    *)
(* it, and ends at the first place there that leaves no carry; if it ended *)
(* too early a digit would be lost, and if it ran off the front the places *)
(* would wrap.  base58_decode, which nothing calls, gets the digits back.  *)
(***************************************************************************)
EXTENDS Texts

CONSTANTS
  Inputs,  \* what is encoded
  OutLen   \* out_len, the room that the caller says there is

ASSUME Base58Assumption ==
  /\ Inputs \subseteq Seq(0 .. 255)
  /\ OutLen \in Nat

VARIABLES
  phase,     \* "bytes" between two of them, "digits" while one is carried,
             \* "encoded", "decoding", "decoded", or "refused"
  input,     \* in
  start_at,  \* bytes read so far
  stop_at,   \* how far the last of them got
  j,         \* the digit at hand
  carry,     \* and what is to be added to it
  buffer,    \* the digits, from place 0 on
  text,      \* out, as digits
  divided,   \* tmp of base58_decode: what is left of the number
  decoded    \* out of base58_decode, until then its buffer

vars == <<phase, input, start_at, stop_at, j, carry, buffer, text, divided, decoded>>

MAX_ENC_INPUT_SIZE == 120
MAX_DEC_INPUT_SIZE == 164

\* A size_t one below zero, in which no place lies
Wrapped == -1

\* Zeros in front
ZeroCount(s) == Min({i \in DOMAIN s : s[i] # 0} \cup {Len(s) + 1}) - 1

\* Mistaken: as many digits as the logarithm says, rounded down
OutputSizeShort == ((Len(input) - ZeroCount(input)) * 138) \div 100

OutputSize == ((Len(input) - ZeroCount(input)) * 138) \div 100 + 1
Places == 0 .. OutputSize - 1

-----------------------------------------------------------------------------
(* base58_encode                                                           *)

NextByte ==
  /\ phase = "bytes" /\ start_at < Len(input)
  /\ carry' = input[start_at + 1]
  /\ j' = OutputSize - 1
  /\ phase' = "digits"
  /\ UNCHANGED <<input, start_at, stop_at, buffer, text, divided, decoded>>

\* Mistaken: the loop ends where there is nothing to carry.
EndsAnywhere(place, left) == left = 0

\* "j <= stop_at - 1 && carry == 0", where 0 - 1 is more than any place
Ends(place, left) == left = 0 /\ (stop_at <= 0 \/ place <= stop_at - 1)

\* Mistaken: as much of the sum is kept as a byte holds.
LowByte(sum) == sum % 256

\* What is written of a sum; the rest of it is carried.
LowDigit(sum) == sum % 58

\* One turn of the inner loop, and what follows the last of them
NextDigit ==
  LET sum == carry + 256 * buffer[j]
      left == sum \div 58
  IN /\ phase = "digits"
     /\ buffer' = [buffer EXCEPT ![j] = LowDigit(sum)]
     /\ carry' = left
     /\ \/ /\ ~Ends(j, left) /\ j > 0
           /\ j' = j - 1
           /\ UNCHANGED <<phase, start_at, stop_at>>
        \/ /\ Ends(j, left) \/ j = 0
           /\ stop_at' = IF Ends(j, left) THEN j ELSE Wrapped
           /\ start_at' = start_at + 1
           /\ phase' = "bytes"
           /\ UNCHANGED j
     /\ UNCHANGED <<input, text, divided, decoded>>

\* A zero for each in front of the input, and the digits behind the zeros in
\* front of the buffer; nothing is written where they do not fit.
Encoded ==
  LET digits == [i \in 1 .. OutputSize |-> buffer[i - 1]]
  IN [i \in 1 .. ZeroCount(input) |-> 0] \o SubSeq(digits, ZeroCount(digits) + 1, OutputSize)

Finish ==
  /\ phase = "bytes" /\ start_at = Len(input)
  /\ IF Len(Encoded) <= OutLen
     THEN phase' = "encoded" /\ text' = Encoded
     ELSE phase' = "refused" /\ text' = text
  /\ UNCHANGED <<input, start_at, stop_at, j, carry, buffer, divided, decoded>>

-----------------------------------------------------------------------------
(* base58_decode                                                           *)

StartDecoding ==
  /\ phase = "encoded"
  /\ IF Len(text) \in 2 .. MAX_DEC_INPUT_SIZE
     THEN /\ phase' = "decoding"
          /\ divided' = text
          /\ decoded' = [i \in DOMAIN text |-> 0]
          /\ start_at' = ZeroCount(text)
          /\ j' = Len(text)
     ELSE phase' = "refused" /\ UNCHANGED <<divided, decoded, start_at, j>>
  /\ UNCHANGED <<input, stop_at, carry, buffer, text>>

\* Long division by 256, from place start_at on: the quotients, and the rest
\* behind each of them
Quotients ==
  LET run[i \in start_at .. Len(text)] ==
        IF i = start_at THEN [quotient |-> 0, rest |-> 0]
        ELSE LET n == 58 * run[i - 1].rest + divided[i]
             IN [quotient |-> n \div 256, rest |-> n % 256]
  IN run

\* The next byte, the lowest one first
NextQuotient ==
  /\ phase = "decoding" /\ start_at < Len(text)
  /\ divided' = [i \in DOMAIN text |-> IF i > start_at THEN Quotients[i].quotient ELSE divided[i]]
  /\ decoded' = [decoded EXCEPT ![j] = Quotients[Len(text)].rest]
  /\ start_at' = IF divided'[start_at + 1] = 0 THEN start_at + 1 ELSE start_at
  /\ j' = j - 1
  /\ UNCHANGED <<phase, input, stop_at, carry, buffer, text>>

\* Mistaken: without the zeros in front
ZerosCut == SubSeq(decoded, ZeroCount(decoded) + 1, Len(text))

\* Without the zeros in front, but for as many as there are in front of the text
ZerosKept == SubSeq(decoded, ZeroCount(decoded) - ZeroCount(text) + 1, Len(text))

FinishDecoding ==
  /\ phase = "decoding" /\ start_at = Len(text)
  /\ phase' = "decoded"
  /\ decoded' = ZerosKept
  /\ UNCHANGED <<input, start_at, stop_at, j, carry, buffer, text, divided>>

-----------------------------------------------------------------------------
Init ==
  /\ input \in Inputs
  /\ phase = IF Len(input) <= MAX_ENC_INPUT_SIZE THEN "bytes" ELSE "refused"
  /\ start_at = ZeroCount(input)
  /\ stop_at = OutputSize - 1
  /\ j = OutputSize - 1
  /\ carry = 0
  /\ buffer = [i \in Places |-> 0]
  /\ text = <<>> /\ divided = <<>> /\ decoded = <<>>

Next == NextByte \/ NextDigit \/ Finish \/ StartDecoding \/ NextQuotient \/ FinishDecoding

Spec == Init /\ [][Next]_vars

-----------------------------------------------------------------------------
(* What must hold                                                          *)

Digit == 0 .. 57

\* The alphabet has a character for each digit, a carry is no more than a
\* byte, and the loops stay in the buffer and in the input.
TypeOK ==
  /\ buffer \in [Places -> Digit]
  /\ carry \in 0 .. 255
  /\ phase = "digits" => j \in Places
  /\ stop_at \in Places \cup {Wrapped}
  /\ phase \in {"bytes", "digits"} => start_at \in 0 .. Len(input)
  /\ phase = "digits" => start_at < Len(input)

\* No digit stands where the next byte may not come to: to the left of
\* stop_at, or of the place at hand if the loop is past it.
NothingAhead ==
  \A i \in Places :
    i < stop_at /\ (phase = "digits" => i <= j) => buffer[i] = 0

\* There is room: no carry is left when a byte is through, the places do not
\* wrap, and only with the last byte does the loop come to the front.
RoomForDigits ==
  /\ phase = "bytes" => carry = 0
  /\ phase \in {"bytes", "digits"} =>
       stop_at # Wrapped /\ (start_at < Len(input) => stop_at > 0)

\* The digits are those of long division.
AsDivided == phase \in {"encoded", "decoding", "decoded"} => text = Base58Digits(input)

\* What is decoded is what was encoded.
RoundTrip == phase = "decoded" => decoded = input
=============================================================================

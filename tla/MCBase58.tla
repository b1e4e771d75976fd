------------------------------ MODULE MCBase58 ------------------------------
(* Inputs for TLC: all short ones of bytes at the edges, with zeros in front  *)
(* and without; the keys with their checksums, and other inputs as long, the  *)
(* first digits of which are the fewest and the most; and longer ones, which  *)
(* have more digits than there is room for, or more bytes than are taken.     *)
EXTENDS Base58

Edges == {0, 1, 57, 58, 255}
Filled(n, b) == [i \in 1 .. n |-> b]
KeyLength == 37

MCInputs ==
  UNION {[1 .. n -> Edges] : n \in 0 .. 4}
    \cup {Filled(33, 2) \o <<157, 64, 226, 42>>, Filled(33, 3) \o <<195, 11, 191, 207>>,
          <<2>> \o Filled(32, 255) \o <<137, 220, 25, 107>>}
    \cup {<<b>> \o Filled(KeyLength - 1, c) : b \in {1, 57, 58, 255}, c \in {0, 255}}
    \cup {Filled(n, 255) : n \in {39, 40, 120, 121}}
=============================================================================

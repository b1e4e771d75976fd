----------------------------- MODULE MCSignature -----------------------------
(* Numbers of three bytes for TLC.  A byte of a number is zero, without its  *)
(* highest bit, or with it: all that the padding and the canonical form tell *)
(* apart.  A candidate for the nonce is below the order at its first or its  *)
(* last byte, the order itself, or above it with a byte that is lower or not.*)
EXTENDS Signature

MCNumbers ==
  {<<a, b, 1>> : a \in {0, 1, 128}, b \in {0, 1, 128}} \cup {<<0, 0, 128>>, <<1, 128, 0>>}
MCNonces ==
  {<<0, 255, 255>>, <<255, 254, 0>>, <<255, 254, 254>>, <<255, 255, 0>>, <<255, 255, 255>>}
MCOrder == <<255, 254, 254>>
==============================================================================

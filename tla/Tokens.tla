------------------------------- MODULE Tokens -------------------------------
(***************************************************************************)
(* What transaction_parse and hash_parse make of a request whose fields    *)
(* are not taken apart: a path, an operation and a digest are model        *)
(* values, and a serialised transaction is a sequence of them.  HiveApp is *)
(* built on this reading; Transaction has the bytes, and shows that the    *)
(* two agree.                                                              *)
(***************************************************************************)
EXTENDS Integers, Sequences

CONSTANTS
  OwnPath,      \* BIP32 paths below the application's own prefix
  ForeignPath,  \* well formed paths the operating system refuses to derive
  Op,           \* operations with a parser, all fields of which decode
  Digest        \* 32-byte digests given to SIGN_HASH

Path == OwnPath \cup ForeignPath

(***************************************************************************)
(* The fields a transaction may hold.  "hdr" stands for the five fields    *)
(* before the operation, "hdr2" for the same with an operation count other *)
(* than one; "opCut" is a known operation one of whose fields does not     *)
(* decode, "opUnknown" one without a parser; "ext0" is the empty list of   *)
(* extensions, "ext1" any other; "junk" is no field at all.                *)
(***************************************************************************)
Token == Path \cup Op \cup Digest
           \cup {"hdr", "hdr2", "opCut", "opUnknown", "ext0", "ext1", "junk"}

\* What may stand at each place of a serialised transaction.  Any extension
\* passes: the byte is hashed, its value is not looked at.
Wanted == <<Path, {"hdr"}, Op, {"ext0", "ext1"}>>

\* Fields that are hashed, wholly or in part, before they are refused.
HashedAnyway == <<{}, {"hdr2"}, {"opCut"}, {}>>

Fits(raw, i) == i \in DOMAIN raw /\ raw[i] \in Wanted[i]

Accepts(raw) == Len(raw) = 4 /\ \A i \in 1 .. 4 : Fits(raw, i)

\* The longest prefix of the four places that the parser gets through.
Reach(raw) == CHOOSE n \in 0 .. 4 : /\ \A i \in 1 .. n : Fits(raw, i)
                                    /\ n < 4 => ~Fits(raw, n + 1)

\* The field the parser stops at, if there is one.
Stop(raw) == IF Reach(raw) < 4 /\ Reach(raw) + 1 \in DOMAIN raw
             THEN raw[Reach(raw) + 1] ELSE "junk"

\* get_operation_parser throws on an operation it has no parser for.
Throws(raw) == Reach(raw) = 2 /\ Stop(raw) = "opUnknown"

\* What the parser feeds to sha256: every field but the path, up to the
\* place where it stops, and sometimes the field it stops at.
Hashed(raw) ==
  SubSeq(raw, 2, Reach(raw))
    \o (IF Reach(raw) < 4 /\ Stop(raw) \in HashedAnyway[Reach(raw) + 1]
        THEN <<Stop(raw)>> ELSE <<>>)

\* hash_parse: a path, and at most a digest
HashAccepts(d) == /\ d[1] \in Path
                  /\ \/ Len(d) = 1
                     \/ Len(d) = 2 /\ d[2] \in Digest
=============================================================================

------------------------------ MODULE MCHiveApp ------------------------------
(* A small instance of HiveApp for TLC: the commands a host may send.       *)
EXTENDS HiveApp

\* The transactions a host can put together: whole ones in a chunk, pieces
\* that fit together, and pieces that do not.
\* o stands for the operation that also comes in a chunk of its own.
CONSTANT o
Whole == {<<p, "hdr", op, "ext0">> : p \in Path, op \in Op}
           \cup {<<p, "hdr", o, "ext1">> : p \in OwnPath}
           \cup {<<p, "hdr2", o, "ext0">> : p \in OwnPath}
Heads == {<<p, "hdr">> : p \in Path}
Pieces == {<<t>> : t \in {o, "ext0", "opCut", "opUnknown"}}
Chunks == Whole \cup Heads \cup Pieces

Cmd(ins, p1s, p2s, data) ==
  [frame : {"ok"}, ins : {ins}, p1 : p1s, p2 : p2s, data : data]

MCCommands ==
  [frame : {"badLength", "badCla"}, ins : {"GET_VERSION"}, p1 : {0}, p2 : {0},
   data : {<<>>}]
  \cup Cmd("OTHER", {0}, {0}, {<<>>})
  \cup Cmd("GET_VERSION", {0, 1}, {0}, {<<>>})
  \cup Cmd("GET_APP_NAME", {0}, {0, 1}, {<<>>})
  \cup Cmd("GET_SETTINGS", {0}, {0}, {<<>>})
  \cup Cmd("GET_PUBLIC_KEY", {0, 1, 2}, {0}, {<<>>, <<"junk">>} \cup {<<p>> : p \in Path})
  \cup Cmd("SIGN_TRANSACTION", {P1First, P1Subsequent}, {P2Last, P2More}, Chunks)
  \cup Cmd("SIGN_TRANSACTION", {P1First, 1}, {P2Last, 1}, {<<>>, <<"ext0">>})
  \cup Cmd("SIGN_HASH", {0, 1}, {0},
           {<<>>, <<"junk">>} \cup {<<p>> : p \in Path}
             \cup {<<p, d>> : p \in Path, d \in Digest}
             \cup {<<p, d, "junk">> : p \in OwnPath, d \in Digest})
=============================================================================

---------------------------- MODULE MCReviewFlow ----------------------------
(* Operations for TLC: as short and as long as the tables of parsers.c are,  *)
(* with values of one to three pages.                                        *)
EXTENDS ReviewFlow

Shown(n) == [pages |-> n, shows |-> TRUE]
Fields(pages) == [k \in DOMAIN pages |-> Shown(pages[k])]

\* An asset whose precision leaves no room for the name of its symbol
MCUnformatted == {<<Shown(1), Shown(1), [pages |-> 1, shows |-> FALSE], Shown(1)>>}

MCOperations ==
  {Fields(<<1>>), Fields(<<1, 1>>), Fields(<<1, 3, 2>>), Fields(<<3, 1, 3>>),
   Fields(<<1, 1, 2, 1, 3, 1, 1, 2, 1>>)}
    \cup MCUnformatted
=============================================================================

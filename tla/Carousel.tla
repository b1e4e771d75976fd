------------------------------ MODULE Carousel ------------------------------
(***************************************************************************)
(* What the review of a request looks like to the user: a ring of screens, *)
(* each of one or more pages.  The right button turns one page forward,    *)
(* the left button one page back; who only presses the right button sees   *)
(* every page of every screen, in order, before the screen that asks for   *)
(* the approval.  ReviewFlow implements this module.                       *)
(***************************************************************************)
EXTENDS Integers

CONSTANTS
  Tours,  \* rings of screens: [last |-> n, pages |-> [0 .. n -> 1, 2, ...]]
  Closed  \* no ring: nothing is under review

VARIABLES
  tour,  \* the ring on the display, or Closed
  at,    \* the screen of it the user looks at, from 0
  page   \* the page of that screen, from 1

vars == <<tour, at, page>>

Init == tour = Closed /\ at = 0 /\ page = 1

Open(t) == tour' = t /\ at' = 0 /\ page' = 1

Right ==
  /\ tour # Closed
  /\ tour' = tour
  /\ \/ page < tour.pages[at] /\ page' = page + 1 /\ at' = at
     \/ /\ page = tour.pages[at]
        /\ page' = 1
        /\ at' = IF at = tour.last THEN 0 ELSE at + 1

\* A screen is entered backwards at its last page, or at its first one.
Left ==
  /\ tour # Closed
  /\ tour' = tour
  /\ \/ page > 1 /\ page' = page - 1 /\ at' = at
     \/ /\ page = 1
        /\ at' = IF at = 0 THEN tour.last ELSE at - 1
        /\ page' \in {1, tour.pages[at']}

Close == tour' = Closed /\ at' = 0 /\ page' = 1

Next == (\E t \in Tours : Open(t)) \/ Right \/ Left \/ Close

Spec == Init /\ [][Next]_vars
=============================================================================

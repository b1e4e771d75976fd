----------------------------- MODULE ReviewFlow -----------------------------
(***************************************************************************)
(* The screens of a transaction's review.  The SDK's flow has seven steps; *)
(* two of them, the delimiters, show nothing: entering one decodes another *)
(* field of the operation and moves on to the only step for fields, or     *)
(* past it.  The fields are parsed anew from the first one each time, into *)
(* one buffer for the title and the value that are on the display.         *)
(*                                                                         *)
(* A press of a button runs to its end before the next one: moving to a    *)
(* delimiter, decoding and moving on is one step of this module.           *)
(***************************************************************************)
EXTENDS Integers, Sequences

CONSTANTS
  Operations,  \* operations: sequences of fields
  PathPages    \* the pages the path of the signing key takes

\* A field: the pages its value takes, and whether its decoder succeeds when
\* it formats the value for the display.
Field == [pages : Nat \ {0}, shows : BOOLEAN]

\* Every parser has at least the name of the operation as a field.
ASSUME ReviewAssumption ==
  /\ Operations \subseteq Seq(Field) \ {<<>>}
  /\ PathPages \in Nat \ {0}

VARIABLES
  open,      \* is the review on the display?
  op,        \* the operation under review, its parser's table of decoders
  index,     \* the step of the flow
  page,      \* the page of that step's text
  state,     \* g_current_state
  position,  \* g_tx_field_position
  title,     \* g_tx_field_parsed.title: the position of the field it names; -1 is
             \*   names[-1], which lies before the table of names
  value      \* g_tx_field_parsed.value: the position of the field it is of

vars == <<open, op, index, page, state, position, title, value>>

Garbled == -2  \* what a decoder that failed left behind
Blank == -3    \* the empty buffer

\* The steps of ux_display_transaction_flow
ReviewStep == 0
PathStep == 1
UpperDelimiter == 2
FieldStep == 3
LowerDelimiter == 4
ApproveStep == 5
RejectStep == 6

-----------------------------------------------------------------------------
(* parse_field                                                             *)

InTable(p) == p + 1 \in DOMAIN op

\* What the decoder of position p leaves in the buffer for the value; beyond
\* its table lies code that is no decoder.
Decoded(p) == IF InTable(p) /\ op[p + 1].shows THEN p ELSE Garbled

\* Mistaken: the loop stops before the decoder of the position.
StopBefore(p) == p - 1

\* The last decoder the loop of parse_field runs, when it reaches position p
LastRun(p) == p

\* The outcome of the traversal that stops at p: its decoders write one over
\* another.
Traversed(p) ==
  [more |-> p # -1, position |-> p, title |-> p,
   value |-> IF LastRun(p) < 0 THEN value ELSE Decoded(LastRun(p))]

NoMore(p) == [more |-> FALSE, position |-> p, title |-> title, value |-> value]

\* From position p to the next field, or the one before
ParseForward(p) == IF p < Len(op) - 1 THEN Traversed(p + 1) ELSE NoMore(p)
ParseReverse(p) == IF p >= 0 THEN Traversed(p - 1) ELSE NoMore(p)

-----------------------------------------------------------------------------
(* The flow engine of the SDK, and display_next_state                      *)

PageCount(i, p) == CASE i = PathStep -> PathPages
                     [] i = FieldStep /\ InTable(p) -> op[p + 1].pages
                     [] OTHER -> 1

\* Step i is laid out, reached from step "from", with the outcome f of
\* parse_field: a text is entered at its last page when the flow goes back.
Show(i, from, f) ==
  /\ index' = i
  /\ page' = IF from > i THEN PageCount(i, f.position) ELSE 1
  /\ position' = f.position
  /\ title' = f.title
  /\ value' = f.value

\* A step other than a delimiter: nothing is parsed.
Stay(i, from) == Show(i, from, NoMore(position)) /\ UNCHANGED state

\* Mistaken: the traversal does not start from the first field.
Resume == position

\* Where the traversal starts when the fields are entered from above ...
BeforeFirst == -1

\* Mistaken: one beyond
PastTheEnd == Len(op) + 1

\* ... and from below
AfterLast == Len(op)

\* display_next_state(true): from the path down, or from a field back
NextStateUpper ==
  \/ /\ state = "STATIC_SCREEN"
     /\ LET f == ParseForward(BeforeFirst)
        IN /\ state' = IF f.more THEN "DYNAMIC_SCREEN" ELSE state
           /\ Show(FieldStep, UpperDelimiter, f)
  \/ /\ state = "DYNAMIC_SCREEN"
     /\ LET f == ParseReverse(position)
        IN \/ /\ f.more
              /\ state' = state
              /\ Show(FieldStep, UpperDelimiter, f)
           \/ /\ ~f.more
              /\ state' = "STATIC_SCREEN"
              /\ Show(PathStep, UpperDelimiter, f)

\* Mistaken: the flow goes back to the field step as ux_flow_prev would.
PlainPrev == LowerDelimiter

\* bn_paging_edgecase: the field step is entered as from above.
EdgeCase == UpperDelimiter

\* display_next_state(false): from the approval up, or from a field on
NextStateLower ==
  \/ /\ state = "STATIC_SCREEN"
     /\ LET f == ParseReverse(AfterLast)
        IN /\ state' = IF f.more THEN "DYNAMIC_SCREEN" ELSE state
           /\ Show(FieldStep, LowerDelimiter, f)
  \/ /\ state = "DYNAMIC_SCREEN"
     /\ LET f == ParseForward(position)
        IN \/ /\ f.more
              /\ state' = state
              /\ Show(FieldStep, EdgeCase, f)
           \/ /\ ~f.more
              /\ state' = "STATIC_SCREEN"
              /\ Show(ApproveStep, LowerDelimiter, f)

-----------------------------------------------------------------------------
(* What the user does                                                      *)

\* ui_display_transaction, for the transaction that was just parsed
Display(o) ==
  /\ ~open /\ open' = TRUE
  /\ op' = o
  /\ index' = ReviewStep /\ page' = 1
  /\ state' = "STATIC_SCREEN"
  /\ position' = -1
  /\ title' = Blank /\ value' = Blank

\* The page turns within the text of a step
Turn(d) ==
  /\ open
  /\ page + d \in 1 .. PageCount(index, position)
  /\ page' = page + d
  /\ UNCHANGED <<open, op, index, state, position, title, value>>

\* The right button, on the last page of a step
FlowNext ==
  /\ open /\ page = PageCount(index, position)
  /\ UNCHANGED <<open, op>>
  /\ \/ index \in {ReviewStep, ApproveStep} /\ Stay(index + 1, index)
     \/ index = RejectStep /\ Stay(ReviewStep, index)
     \/ index = PathStep /\ NextStateUpper
     \/ index = FieldStep /\ NextStateLower

\* The left button, on the first page of a step
FlowPrev ==
  /\ open /\ page = 1
  /\ UNCHANGED <<open, op>>
  /\ \/ index \in {PathStep, RejectStep} /\ Stay(index - 1, index)
     \/ index = ReviewStep /\ Stay(RejectStep, index)
     \/ index = FieldStep /\ NextStateUpper
     \/ index = ApproveStep /\ NextStateLower

\* Both buttons, on the approve or the reject step: the callback runs and
\* the flow is gone.  What it kept in its variables stays.
Answer ==
  /\ open /\ index \in {ApproveStep, RejectStep}
  /\ open' = FALSE
  /\ UNCHANGED <<op, index, page, state, position, title, value>>

\* The link goes down, wherever the user is: the display is reset, the
\* variables of the review are not.
Abort ==
  /\ open
  /\ open' = FALSE
  /\ UNCHANGED <<op, index, page, state, position, title, value>>

Init ==
  /\ open = FALSE
  /\ op \in Operations
  /\ index = ReviewStep /\ page = 1
  /\ state = "STATIC_SCREEN" /\ position = 0
  /\ title = Blank /\ value = Blank

Next == (\E o \in Operations : Display(o)) \/ Turn(1) \/ Turn(-1)
          \/ FlowNext \/ FlowPrev \/ Answer \/ Abort

Spec == Init /\ [][Next]_vars

-----------------------------------------------------------------------------
(* What must hold                                                          *)

Positions == -1 .. Len(op) - 1

\* Every variable has its type; the flow never rests on a delimiter, and the
\* position stays within the table of decoders, or one before it.
TypeOK ==
  /\ open \in BOOLEAN
  /\ op \in Operations
  /\ index \in {ReviewStep, PathStep, FieldStep, ApproveStep, RejectStep}
  /\ state \in {"STATIC_SCREEN", "DYNAMIC_SCREEN"}
  /\ position \in Positions
  /\ title \in Positions \cup {Blank}
  /\ value \in Positions \cup {Blank, Garbled}
  /\ page \in 1 .. PageCount(index, position)

\* The state that display_next_state steers by tells whether the screen
\* under review is the one of the fields: static screens and fields never
\* mix, whatever the user did before and whichever review came before.
StateMatchesScreen ==
  open => (state = "DYNAMIC_SCREEN" <=> index = FieldStep)

\* The title and the value on the display belong to the same field, and it
\* is the one at the position the review has reached; what lies before the
\* table of names is never shown.
FieldShown ==
  open /\ index = FieldStep =>
    /\ position >= 0
    /\ title = position
    /\ value = Decoded(position)

FlowInv == TypeOK /\ StateMatchesScreen /\ FieldShown

\* The ring of screens the user sees: the review, the path, one screen for
\* each field, the approval and the rejection.
TourOf(o) == [last |-> Len(o) + 3,
              pages |-> [k \in 0 .. Len(o) + 3 |->
                           IF k = 1 THEN PathPages
                           ELSE IF k \in 2 .. Len(o) + 1 THEN o[k - 1].pages
                           ELSE 1]]

\* No ring at all
NoTour == [last |-> -1, pages |-> <<>>]

\* The place of the screen on the display in that ring
At == IF ~open THEN 0
      ELSE IF index = FieldStep THEN position + 2
      ELSE IF index < FieldStep THEN index
      ELSE index - 3 + Len(op)

\* The review is a walk on that ring: the two delimiters, the position and
\* the parsing anew add up to one screen forward or back at each press.
Walk == INSTANCE Carousel WITH
  Tours <- {TourOf(o) : o \in Operations},
  Closed <- NoTour,
  tour <- IF open THEN TourOf(op) ELSE NoTour,
  at <- At,
  page <- IF open THEN page ELSE 1

ImplementsCarousel == Walk!Spec
=============================================================================

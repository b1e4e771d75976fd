------------------------- MODULE ReviewFlow_proofs -------------------------
(***************************************************************************)
(* Theorems about ReviewFlow, for every set of operations.  FlowInv is     *)
(* inductive as it stands; it also holds what the walk on the ring needs:  *)
(* while a static screen is shown the position has no meaning, and while a *)
(* field is shown it is that field's place in the ring.                    *)
(***************************************************************************)
EXTENDS ReviewFlow, SequenceTheorems, TLAPS

\* The table of an operation has an entry for every position but -1, and its
\* text has at least one page.
LEMMA OpFields ==
  ASSUME NEW o \in Operations
  PROVE  /\ o \in Seq(Field)
         /\ Len(o) \in Nat /\ Len(o) >= 1
         /\ DOMAIN o = 1 .. Len(o)
         /\ \A k \in 1 .. Len(o) : o[k].pages \in Nat \ {0}
<1>1. o \in Seq(Field) /\ o # <<>>
  BY ReviewAssumption
<1>2. \A k \in 1 .. Len(o) : o[k] \in Field
  BY <1>1, ElementOfSeq
<1>3. Len(o) \in Nat /\ DOMAIN o = 1 .. Len(o)
  BY <1>1, LenProperties
<1>4. Len(o) # 0
  BY <1>1, EmptySeq
<1>5. QED
  BY <1>1, <1>2, <1>3, <1>4 DEF Field

\* Every step of the flow has at least one page.
LEMMA PageCountType ==
  ASSUME op \in Operations, NEW i \in Int, NEW p \in Int
  PROVE  PageCount(i, p) \in Nat \ {0}
BY OpFields, ReviewAssumption DEF PageCount, InTable

\* The outcome of a traversal, field by field of the record
LEMMA TraversedFields ==
  ASSUME NEW p \in Int
  PROVE  /\ Traversed(p).more <=> p # -1
         /\ Traversed(p).position = p /\ Traversed(p).title = p
         /\ p >= 0 => Traversed(p).value = Decoded(p)
         /\ p < 0 => Traversed(p).value = value
<1>1. Traversed(p).more <=> p # -1
  BY Zenon DEF Traversed
<1>2. /\ Traversed(p).position = p /\ Traversed(p).title = p
      /\ Traversed(p).value = IF p < 0 THEN value ELSE Decoded(p)
  BY Zenon DEF Traversed, LastRun
<1>3. QED
  BY <1>1, <1>2

\* What parse_field finds from a position within the table, forward ...
LEMMA Forward ==
  ASSUME op \in Operations, NEW p \in Positions
  PROVE  IF p < Len(op) - 1
         THEN /\ ParseForward(p).more
              /\ ParseForward(p).position = p + 1
              /\ ParseForward(p).title = p + 1
              /\ ParseForward(p).value = Decoded(p + 1)
         ELSE ParseForward(p) = NoMore(p) /\ p = Len(op) - 1
<1>1. Len(op) \in Nat /\ p \in Int /\ p >= -1 /\ p <= Len(op) - 1
  BY OpFields DEF Positions
<1>2. CASE p < Len(op) - 1
  <2>1. ParseForward(p) = Traversed(p + 1)
    BY <1>2 DEF ParseForward
  <2>2. p + 1 >= 0 /\ p + 1 # -1
    BY <1>1
  <2>3. QED
    BY <1>1, <1>2, <2>1, <2>2, TraversedFields
<1>3. CASE ~(p < Len(op) - 1)
  BY <1>1, <1>3 DEF ParseForward
<1>4. QED
  BY <1>2, <1>3

\* ... and backwards
LEMMA Reverse ==
  ASSUME op \in Operations, NEW p \in 0 .. Len(op)
  PROVE  IF p > 0
         THEN /\ ParseReverse(p).more
              /\ ParseReverse(p).position = p - 1
              /\ ParseReverse(p).title = p - 1
              /\ ParseReverse(p).value = Decoded(p - 1)
         ELSE /\ ~ParseReverse(p).more
              /\ ParseReverse(p).position = -1
              /\ ParseReverse(p).title = -1
              /\ ParseReverse(p).value = value
<1>1. Len(op) \in Nat /\ p \in Int /\ p >= 0
  BY OpFields
<1>2. ParseReverse(p) = Traversed(p - 1)
  BY <1>1 DEF ParseReverse
<1>3. CASE p > 0
  <2>1. ~(p - 1 < 0) /\ p - 1 # -1
    BY <1>1, <1>3
  <2>2. QED
    BY <1>1, <1>2, <1>3, <2>1, TraversedFields
<1>4. CASE p = 0
  BY <1>1, <1>2, <1>4, TraversedFields
<1>5. QED
  BY <1>1, <1>3, <1>4

-----------------------------------------------------------------------------
\* The two ways a delimiter ends.  A field is laid out ...
FieldLaidOut(p, pg) ==
  /\ index' = FieldStep /\ state' = "DYNAMIC_SCREEN"
  /\ position' = p /\ title' = p /\ value' = Decoded(p)
  /\ page' = pg

\* ... or the static screen i is
StaticLaidOut(i) ==
  /\ index' = i /\ state' = "STATIC_SCREEN"
  /\ position' \in Positions
  /\ title' \in Positions /\ value' = value

\* The upper delimiter shows the first field to who comes from the path, and
\* the field before to who comes from a field, or the path when there is none.
LEMMA UpperStep ==
  ASSUME FlowInv, open, NextStateUpper, index \in {PathStep, FieldStep}
  PROVE  \/ /\ index = PathStep
            /\ FieldLaidOut(0, 1)
         \/ /\ index = FieldStep /\ position > 0
            /\ FieldLaidOut(position - 1, 1)
         \/ /\ index = FieldStep /\ position = 0
            /\ StaticLaidOut(PathStep)
            /\ page' = PathPages
<1>1. op \in Operations /\ Len(op) \in Nat /\ Len(op) >= 1
  BY OpFields DEF FlowInv, TypeOK
<1>2. CASE index = PathStep
  <2>1. state = "STATIC_SCREEN"
    BY <1>2 DEF FlowInv, StateMatchesScreen, TypeOK, PathStep, FieldStep
  <2> DEFINE f == ParseForward(BeforeFirst)
  <2>2. -1 \in Positions /\ BeforeFirst = -1
    BY <1>1 DEF Positions, BeforeFirst
  <2>3. CASE Len(op) > 0
    <3>1. f.more /\ f.position = 0 /\ f.title = 0 /\ f.value = Decoded(0)
      BY <1>1, <2>2, <2>3, Forward
    <3>2. Show(FieldStep, UpperDelimiter, f) /\ state' = "DYNAMIC_SCREEN"
      BY <2>1, <3>1 DEF NextStateUpper
    <3> HIDE DEF f
    <3>3. QED
      BY <1>2, <3>1, <3>2 DEF Show, FieldLaidOut, UpperDelimiter, FieldStep
  <2>4. QED
    BY <1>1, <2>3
<1>3. CASE index = FieldStep
  <2>1. state = "DYNAMIC_SCREEN" /\ position >= 0
    BY <1>3 DEF FlowInv, StateMatchesScreen, FieldShown
  <2>2. position \in 0 .. Len(op) /\ position \in Int
    BY <1>1, <2>1 DEF FlowInv, TypeOK, Positions
  <2> DEFINE f == ParseReverse(position)
  <2>3. CASE position > 0
    <3>1. /\ f.more /\ f.position = position - 1 /\ f.title = position - 1
          /\ f.value = Decoded(position - 1)
      BY <1>1, <2>2, <2>3, Reverse
    <3>2. Show(FieldStep, UpperDelimiter, f) /\ state' = state
      BY <2>1, <3>1 DEF NextStateUpper
    <3> HIDE DEF f
    <3>3. QED
      BY <1>3, <2>1, <2>3, <3>1, <3>2 DEF Show, FieldLaidOut, UpperDelimiter, FieldStep
  <2>4. CASE position = 0
    <3>1. ~f.more /\ f.position = -1 /\ f.title = -1 /\ f.value = value
      BY <1>1, <2>2, <2>4, Reverse
    <3>2. Show(PathStep, UpperDelimiter, f) /\ state' = "STATIC_SCREEN"
      BY <2>1, <3>1 DEF NextStateUpper
    <3>3. -1 \in Positions
      BY <1>1 DEF Positions
    <3> HIDE DEF f
    <3>4. page' = PathPages
      BY <3>2 DEF Show, PageCount, UpperDelimiter, PathStep, FieldStep
    <3>5. QED
      BY <1>3, <2>4, <3>1, <3>2, <3>3, <3>4 DEF Show, StaticLaidOut
  <2>5. QED
    BY <2>2, <2>3, <2>4
<1>4. QED
  BY <1>2, <1>3

\* The lower delimiter shows the last field, from its end, to who comes back
\* from the approval, and the next field to who comes from a field, or the
\* approval when there is none.
LEMMA LowerStep ==
  ASSUME FlowInv, open, NextStateLower, index \in {FieldStep, ApproveStep}
  PROVE  \/ /\ index = ApproveStep
            /\ FieldLaidOut(Len(op) - 1, PageCount(FieldStep, Len(op) - 1))
         \/ /\ index = FieldStep /\ position < Len(op) - 1
            /\ FieldLaidOut(position + 1, 1)
         \/ /\ index = FieldStep /\ position = Len(op) - 1
            /\ StaticLaidOut(ApproveStep)
            /\ page' = 1
<1>1. op \in Operations /\ Len(op) \in Nat /\ Len(op) >= 1
  BY OpFields DEF FlowInv, TypeOK
<1>2. CASE index = ApproveStep
  <2>1. state = "STATIC_SCREEN"
    BY <1>2 DEF FlowInv, StateMatchesScreen, TypeOK, ApproveStep, FieldStep
  <2> DEFINE f == ParseReverse(AfterLast)
  <2>2. /\ f.more /\ f.position = Len(op) - 1 /\ f.title = Len(op) - 1
        /\ f.value = Decoded(Len(op) - 1)
    BY <1>1, Reverse, Len(op) \in 0 .. Len(op), Len(op) > 0 DEF AfterLast
  <2>3. Show(FieldStep, LowerDelimiter, f) /\ state' = "DYNAMIC_SCREEN"
    BY <2>1, <2>2 DEF NextStateLower
  <2> HIDE DEF f
  <2>4. page' = PageCount(FieldStep, Len(op) - 1)
    BY <2>2, <2>3 DEF Show, LowerDelimiter, FieldStep
  <2>5. QED
    BY <1>2, <2>2, <2>3, <2>4 DEF Show, FieldLaidOut
<1>3. CASE index = FieldStep
  <2>1. state = "DYNAMIC_SCREEN" /\ position >= 0
    BY <1>3 DEF FlowInv, StateMatchesScreen, FieldShown
  <2>2. position \in Positions /\ position \in Int
    BY <1>1, <2>1 DEF FlowInv, TypeOK, Positions
  <2> DEFINE f == ParseForward(position)
  <2>3. CASE position < Len(op) - 1
    <3>1. /\ f.more /\ f.position = position + 1 /\ f.title = position + 1
          /\ f.value = Decoded(position + 1)
      BY <1>1, <2>2, <2>3, Forward
    <3>2. Show(FieldStep, EdgeCase, f) /\ state' = state
      BY <2>1, <3>1 DEF NextStateLower
    <3> HIDE DEF f
    <3>3. QED
      BY <1>3, <2>1, <2>3, <3>1, <3>2
        DEF Show, FieldLaidOut, EdgeCase, UpperDelimiter, FieldStep
  <2>4. CASE ~(position < Len(op) - 1)
    <3>1. f = NoMore(position) /\ position = Len(op) - 1
      BY <1>1, <2>2, <2>4, Forward
    <3>2. ~f.more
      BY <3>1, ~NoMore(position).more, Zenon DEF NoMore
    <3>3. f.position = position /\ f.title = title /\ f.value = value
      BY <3>1 DEF NoMore
    <3>4. Show(ApproveStep, LowerDelimiter, f) /\ state' = "STATIC_SCREEN"
      BY <2>1, <3>2 DEF NextStateLower
    <3>5. title \in Positions
      BY <1>3, <2>2 DEF FlowInv, FieldShown
    <3> HIDE DEF f
    <3>6. page' = 1
      BY <3>4 DEF Show, LowerDelimiter, ApproveStep
    <3>7. QED
      BY <1>3, <2>2, <3>1, <3>3, <3>4, <3>5, <3>6 DEF Show, StaticLaidOut
  <2>5. QED
    BY <2>3, <2>4
<1>4. QED
  BY <1>2, <1>3

-----------------------------------------------------------------------------
(* FlowInv is an invariant                                                 *)

\* What either way leaves, the invariant accepts.
LEMMA FieldLaidOutInv ==
  ASSUME FlowInv, open, open' = open, op' = op,
         NEW p \in 0 .. Len(op) - 1, NEW pg \in 1 .. PageCount(FieldStep, p),
         FieldLaidOut(p, pg)
  PROVE  FlowInv'
<1>1. op \in Operations /\ Len(op) \in Nat /\ p \in Int /\ p >= 0
  BY OpFields DEF FlowInv, TypeOK
<1>2. p \in Positions /\ Decoded(p) \in {p, Garbled}
  BY <1>1 DEF Positions, Decoded
<1>3. Decoded(p)' = Decoded(p) /\ Positions' = Positions
      /\ PageCount(FieldStep, p)' = PageCount(FieldStep, p)
  BY DEF Decoded, InTable, Positions, PageCount
<1>4. Decoded(position)' = Decoded(p)
      /\ PageCount(index, position)' = PageCount(FieldStep, p)
  BY DEF Decoded, InTable, PageCount, FieldLaidOut
<1>5. TypeOK'
  BY <1>2, <1>3, <1>4 DEF FlowInv, TypeOK, FieldLaidOut
<1>6. StateMatchesScreen' /\ FieldShown'
  BY <1>1, <1>4 DEF StateMatchesScreen, FieldShown, FieldLaidOut
<1>7. QED
  BY <1>5, <1>6 DEF FlowInv

\* A static screen at its first page, or at any page of the path
LEMMA StaticInv ==
  ASSUME FlowInv, op' \in Operations,
         index' \in {ReviewStep, PathStep, ApproveStep, RejectStep},
         open' \in BOOLEAN, state' = "STATIC_SCREEN",
         position' \in Positions', title' \in (Positions \cup {Blank})',
         value' \in (Positions \cup {Blank, Garbled})',
         page' \in 1 .. PageCount(index', 0)
  PROVE  FlowInv'
<1>1. PageCount(index, position)' = PageCount(index', 0)
  BY DEF PageCount, ReviewStep, PathStep, FieldStep, ApproveStep, RejectStep
<1>2. index' # FieldStep
  BY DEF ReviewStep, PathStep, FieldStep, ApproveStep, RejectStep
<1>3. TypeOK'
  BY <1>1 DEF TypeOK
<1>4. QED
  BY <1>2, <1>3 DEF FlowInv, StateMatchesScreen, FieldShown

\* A review begins, whatever the one before left in the variables.
LEMMA DisplayInv ==
  ASSUME FlowInv, NEW o \in Operations, Display(o)
  PROVE  FlowInv'
<1>1. -1 \in Positions'
  BY OpFields DEF Display, Positions
<1>2. PageCount(ReviewStep, 0) = 1 /\ index' = ReviewStep /\ page' = 1
  BY DEF Display, PageCount, ReviewStep, PathStep, FieldStep
<1>3. QED
  BY <1>1, <1>2, StaticInv DEF Display

\* Turning a page changes the page.
LEMMA TurnInv ==
  ASSUME FlowInv, NEW d \in {-1, 1}, Turn(d)
  PROVE  FlowInv'
<1>1. Positions' = Positions /\ Decoded(position)' = Decoded(position)
      /\ PageCount(index, position)' = PageCount(index, position)
  BY DEF Turn, Positions, Decoded, InTable, PageCount
<1>2. QED
  BY <1>1 DEF FlowInv, TypeOK, StateMatchesScreen, FieldShown, Turn

\* From a static screen to the one next to it
LEMMA StayInv ==
  ASSUME FlowInv, open, open' = open, op' = op,
         NEW i \in {ReviewStep, PathStep, ApproveStep, RejectStep},
         NEW from \in {ReviewStep, PathStep, ApproveStep, RejectStep},
         index = from, Stay(i, from)
  PROVE  /\ FlowInv' /\ index' = i
         /\ page' = IF from > i THEN PageCount(i, 0) ELSE 1
<1>1. NoMore(position).position = position /\ NoMore(position).title = title
      /\ NoMore(position).value = value
  BY DEF NoMore
<1>2. /\ index' = i /\ position' = position /\ title' = title /\ value' = value
      /\ page' = IF from > i THEN PageCount(i, position) ELSE 1
      /\ state' = state
  BY <1>1 DEF Stay, Show
<1>3. PageCount(i, position) = PageCount(i, 0)
  BY DEF PageCount, ReviewStep, PathStep, FieldStep, ApproveStep, RejectStep
<1>4. state = "STATIC_SCREEN"
  BY DEF FlowInv, StateMatchesScreen, TypeOK,
         ReviewStep, PathStep, FieldStep, ApproveStep, RejectStep
<1>5. PageCount(i, 0) \in Nat \ {0}
  BY PageCountType DEF FlowInv, TypeOK, ReviewStep, PathStep, ApproveStep, RejectStep
<1>6. Positions' = Positions
  BY DEF Positions
<1>7. page' \in 1 .. PageCount(i, 0)
  BY <1>2, <1>3, <1>5
<1>8. FlowInv'
  BY <1>2, <1>4, <1>6, <1>7, StaticInv DEF FlowInv, TypeOK
<1>9. QED
  BY <1>2, <1>3, <1>8

\* A delimiter, and what it leads to
LEMMA DelimiterInv ==
  ASSUME FlowInv, open, open' = open, op' = op,
         \/ NextStateUpper /\ index \in {PathStep, FieldStep}
         \/ NextStateLower /\ index \in {FieldStep, ApproveStep}
  PROVE  FlowInv'
<1>1. op \in Operations /\ Len(op) \in Nat /\ Len(op) >= 1
  BY OpFields DEF FlowInv, TypeOK
<1>2. ASSUME NEW p \in 0 .. Len(op) - 1, NEW pg, FieldLaidOut(p, pg),
             pg = 1 \/ pg = PageCount(FieldStep, p)
      PROVE  FlowInv'
  <2>1. PageCount(FieldStep, p) \in Nat \ {0}
    <3>1. p \in Int /\ FieldStep \in Int
      BY <1>1, <1>2 DEF FieldStep
    <3>2. QED
      BY <1>1, <3>1, PageCountType
  <2>2. pg \in 1 .. PageCount(FieldStep, p)
    BY <1>2, <2>1
  <2>3. QED
    BY <1>2, <2>2, FieldLaidOutInv
<1>3. ASSUME NEW i \in {PathStep, ApproveStep}, StaticLaidOut(i),
             page' \in 1 .. PageCount(i, 0)
      PROVE  FlowInv'
  <2>1. Positions' = Positions
    BY DEF Positions
  <2>2. QED
    BY <1>1, <1>3, <2>1, StaticInv DEF StaticLaidOut, FlowInv, TypeOK
<1>4. PageCount(PathStep, 0) = PathPages /\ PageCount(ApproveStep, 0) = 1
      /\ PathPages \in Nat \ {0}
  BY ReviewAssumption DEF PageCount, PathStep, FieldStep, ApproveStep
<1>5. position \in Int /\ position >= -1 /\ position <= Len(op) - 1
  BY <1>1 DEF FlowInv, TypeOK, Positions
<1>6. CASE NextStateUpper /\ index \in {PathStep, FieldStep}
  <2>1. CASE FieldLaidOut(0, 1)
    BY <1>1, <1>2, <2>1
  <2>2. CASE position > 0 /\ FieldLaidOut(position - 1, 1)
    BY <1>1, <1>2, <1>5, <2>2
  <2>3. CASE StaticLaidOut(PathStep) /\ page' = PathPages
    BY <1>3, <1>4, <2>3
  <2>4. QED
    BY <1>6, <2>1, <2>2, <2>3, UpperStep
<1>7. CASE NextStateLower /\ index \in {FieldStep, ApproveStep}
  <2>1. CASE FieldLaidOut(Len(op) - 1, PageCount(FieldStep, Len(op) - 1))
    BY <1>1, <1>2, <2>1
  <2>2. CASE index = FieldStep /\ position < Len(op) - 1 /\ FieldLaidOut(position + 1, 1)
    BY <1>1, <1>2, <1>5, <2>2
  <2>3. CASE StaticLaidOut(ApproveStep) /\ page' = 1
    BY <1>3, <1>4, <2>3
  <2>4. QED
    BY <1>7, <2>1, <2>2, <2>3, LowerStep
<1>8. QED
  BY <1>6, <1>7

\* The review leaves the display, and its variables as they are.
LEMMA CloseInv ==
  ASSUME FlowInv, Answer \/ Abort
  PROVE  FlowInv'
<1>1. open' = FALSE /\ UNCHANGED <<op, index, page, state, position, title, value>>
  BY DEF Answer, Abort
<1>2. Positions' = Positions
      /\ PageCount(index, position)' = PageCount(index, position)
  BY <1>1 DEF Positions, PageCount, InTable
<1>3. QED
  BY <1>1, <1>2 DEF FlowInv, TypeOK, StateMatchesScreen, FieldShown

\* The right button keeps the invariant.
LEMMA FlowNextInv ==
  ASSUME FlowInv, FlowNext
  PROVE  FlowInv'
<1>1. open /\ open' = open /\ op' = op
  BY DEF FlowNext
<1>2. CASE index \in {ReviewStep, ApproveStep} /\ Stay(index + 1, index)
  <2>1. index + 1 \in {PathStep, RejectStep}
    BY <1>2 DEF ReviewStep, PathStep, ApproveStep, RejectStep
  <2>2. QED
    BY <1>1, <1>2, <2>1, StayInv
<1>3. CASE index = RejectStep /\ Stay(ReviewStep, index)
  BY <1>1, <1>3, StayInv
<1>4. CASE index = PathStep /\ NextStateUpper
  BY <1>1, <1>4, DelimiterInv
<1>5. CASE index = FieldStep /\ NextStateLower
  BY <1>1, <1>5, DelimiterInv
<1>6. QED
  BY <1>2, <1>3, <1>4, <1>5 DEF FlowNext

\* The left button keeps the invariant.
LEMMA FlowPrevInv ==
  ASSUME FlowInv, FlowPrev
  PROVE  FlowInv'
<1>1. open /\ open' = open /\ op' = op
  BY DEF FlowPrev
<1>2. CASE index \in {PathStep, RejectStep} /\ Stay(index - 1, index)
  <2>1. index - 1 \in {ReviewStep, ApproveStep}
    BY <1>2 DEF ReviewStep, PathStep, ApproveStep, RejectStep
  <2>2. QED
    BY <1>1, <1>2, <2>1, StayInv
<1>3. CASE index = ReviewStep /\ Stay(RejectStep, index)
  BY <1>1, <1>3, StayInv
<1>4. CASE index = FieldStep /\ NextStateUpper
  BY <1>1, <1>4, DelimiterInv
<1>5. CASE index = ApproveStep /\ NextStateLower
  BY <1>1, <1>5, DelimiterInv
<1>6. QED
  BY <1>2, <1>3, <1>4, <1>5 DEF FlowPrev

\* So does every step.
LEMMA FlowInvInductive ==
  ASSUME FlowInv, [Next]_vars
  PROVE  FlowInv'
<1>1. CASE \E o \in Operations : Display(o)
  BY <1>1, DisplayInv
<1>2. CASE Turn(1) \/ Turn(-1)
  BY <1>2, TurnInv
<1>3. CASE FlowNext
  BY <1>3, FlowNextInv
<1>4. CASE FlowPrev
  BY <1>4, FlowPrevInv
<1>5. CASE Answer \/ Abort
  BY <1>5, CloseInv
<1>6. CASE UNCHANGED vars
  <2>1. Positions' = Positions /\ Decoded(position)' = Decoded(position)
        /\ PageCount(index, position)' = PageCount(index, position)
    BY <1>6 DEF vars, Positions, Decoded, InTable, PageCount
  <2>2. QED
    BY <1>6, <2>1 DEF vars, FlowInv, TypeOK, StateMatchesScreen, FieldShown
<1>7. QED
  BY <1>1, <1>2, <1>3, <1>4, <1>5, <1>6 DEF Next

\* It holds before the first review.
LEMMA FlowInvInit ==
  ASSUME Init
  PROVE  FlowInv
<1>1. 0 \in Positions
  BY OpFields DEF Init, Positions
<1>2. PageCount(index, position) = 1
  BY DEF Init, PageCount, ReviewStep, PathStep, FieldStep
<1>3. TypeOK
  <2>1. page \in 1 .. PageCount(index, position)
    BY <1>2 DEF Init
  <2>2. title \in Positions \cup {Blank} /\ value \in Positions \cup {Blank, Garbled}
    BY DEF Init
  <2>3. position \in Positions
    BY <1>1 DEF Init
  <2>4. QED
    BY <2>1, <2>2, <2>3 DEF Init, TypeOK
<1>4. QED
  BY <1>3 DEF Init, FlowInv, StateMatchesScreen, FieldShown

\* Whatever the user presses and whenever the link is reset, the variables of
\* the review stay within their types, the state that display_next_state
\* steers by tells which kind of screen is shown, and the title and the value
\* on the display are those of the field the review has reached.
THEOREM FlowInvariance == Spec => []FlowInv
<1>1. Init => FlowInv
  BY FlowInvInit
<1>2. FlowInv /\ [Next]_vars => FlowInv'
  BY FlowInvInductive
<1>3. QED
  BY <1>1, <1>2, PTL DEF Spec

\* The position stays within the table of decoders, or one before it.
THEOREM TypeCorrect == Spec => []TypeOK
<1>1. FlowInv => TypeOK
  BY DEF FlowInv
<1>2. QED
  BY <1>1, FlowInvariance, PTL

\* Static screens and fields never mix.
THEOREM StatesMatch == Spec => []StateMatchesScreen
<1>1. FlowInv => StateMatchesScreen
  BY DEF FlowInv
<1>2. QED
  BY <1>1, FlowInvariance, PTL

\* No field is shown under the title of another.
THEOREM FieldsShown == Spec => []FieldShown
<1>1. FlowInv => FieldShown
  BY DEF FlowInv
<1>2. QED
  BY <1>1, FlowInvariance, PTL

-----------------------------------------------------------------------------
(* The review is a walk on the ring of screens                             *)

\* The ring of an operation, and its screens
LEMMA RingOf ==
  ASSUME NEW o \in Operations
  PROVE  /\ TourOf(o).last = Len(o) + 3
         /\ TourOf(o) # NoTour
         /\ TourOf(o).pages[1] = PathPages
         /\ \A k \in 2 .. Len(o) + 1 : TourOf(o).pages[k] = o[k - 1].pages
         /\ \A k \in {0, Len(o) + 2, Len(o) + 3} : TourOf(o).pages[k] = 1
<1>1. Len(o) \in Nat /\ Len(o) >= 1
  BY OpFields
<1>2. TourOf(o).last = Len(o) + 3
  BY DEF TourOf
<1>3. NoTour.last = -1
  BY DEF NoTour
<1>4. \A k \in 0 .. Len(o) + 3 :
        TourOf(o).pages[k] = IF k = 1 THEN PathPages
                             ELSE IF k \in 2 .. Len(o) + 1 THEN o[k - 1].pages
                             ELSE 1
  BY Zenon DEF TourOf
<1>5. \A k \in 2 .. Len(o) + 1 : k \in 0 .. Len(o) + 3 /\ k # 1
  BY <1>1
<1>6. \A k \in {0, Len(o) + 2, Len(o) + 3} :
        k \in 0 .. Len(o) + 3 /\ k # 1 /\ k \notin 2 .. Len(o) + 1
  BY <1>1
<1>7. 1 \in 0 .. Len(o) + 3
  BY <1>1
<1>8. QED
  BY <1>1, <1>2, <1>3, <1>4, <1>5, <1>6, <1>7

\* The pages of the screen on the display are those of its place in the ring.
LEMMA PlaceOnRing ==
  FlowInv /\ open => TourOf(op).pages[At] = PageCount(index, position)
<1> SUFFICES ASSUME FlowInv, open
             PROVE  TourOf(op).pages[At] = PageCount(index, position)
  OBVIOUS
<1>1. op \in Operations /\ Len(op) \in Nat /\ Len(op) >= 1 /\ DOMAIN op = 1 .. Len(op)
  BY OpFields DEF FlowInv, TypeOK
<1>2. CASE index = FieldStep
  <2>1. position \in 0 .. Len(op) - 1
    BY <1>1, <1>2 DEF FlowInv, TypeOK, FieldShown, Positions
  <2>2. At = position + 2
    BY <1>2 DEF At
  <2>3. At \in 2 .. Len(op) + 1 /\ At - 1 = position + 1
    BY <1>1, <2>1, <2>2
  <2>4. InTable(position)
    BY <1>1, <2>1 DEF InTable
  <2>5. PageCount(index, position) = op[position + 1].pages
    BY <1>2, <2>4 DEF PageCount, PathStep, FieldStep
  <2>6. QED
    BY <1>1, <2>3, <2>5, RingOf
<1>3. CASE index = PathStep
  <2>1. At = 1 /\ PageCount(index, position) = PathPages
    BY <1>3 DEF At, PageCount, PathStep, FieldStep
  <2>2. QED
    BY <1>1, <2>1, RingOf
<1>4. CASE index \in {ReviewStep, ApproveStep, RejectStep}
  <2>1. At \in {0, Len(op) + 2, Len(op) + 3}
    BY <1>1, <1>4 DEF At, ReviewStep, FieldStep, ApproveStep, RejectStep
  <2>2. PageCount(index, position) = 1
    BY <1>4 DEF PageCount, ReviewStep, PathStep, FieldStep, ApproveStep, RejectStep
  <2>3. QED
    BY <1>1, <2>1, <2>2, RingOf
<1>5. QED
  BY <1>2, <1>3, <1>4 DEF FlowInv, TypeOK

\* The same of the screen that a step leads to
LEMMA PlaceOnRingNext ==
  (FlowInv /\ open => TourOf(op).pages[At] = PageCount(index, position))'
BY PlaceOnRing, PTL

\* A press of the right button on the last page of a screen
LEMMA FlowNextWalks ==
  ASSUME FlowInv, FlowNext
  PROVE  Walk!Right
<1>1. /\ op \in Operations /\ Len(op) \in Nat /\ Len(op) >= 1
      /\ open /\ open' /\ op' = op /\ page = PageCount(index, position)
  BY OpFields DEF FlowNext, FlowInv, TypeOK
<1>2. page = TourOf(op).pages[At]
  BY <1>1, PlaceOnRing
<1>3. page' = 1 /\ At' = IF At = Len(op) + 3 THEN 0 ELSE At + 1
  <2>1. CASE index \in {ReviewStep, ApproveStep} /\ Stay(index + 1, index)
    <3>1. index + 1 \in {PathStep, RejectStep}
      BY <2>1 DEF ReviewStep, PathStep, ApproveStep, RejectStep
    <3>2. index' = index + 1 /\ page' = 1
      BY <1>1, <2>1, <3>1, StayInv DEF ReviewStep, ApproveStep
    <3>3. QED
      BY <1>1, <2>1, <3>2 DEF At, ReviewStep, FieldStep, ApproveStep
  <2>2. CASE index = RejectStep /\ Stay(ReviewStep, index)
    <3>1. index' = ReviewStep /\ page' = PageCount(ReviewStep, 0)
      BY <1>1, <2>2, StayInv DEF ReviewStep, RejectStep
    <3>2. PageCount(ReviewStep, 0) = 1
      BY DEF PageCount, ReviewStep, PathStep, FieldStep
    <3>3. QED
      BY <1>1, <2>2, <3>1, <3>2 DEF At, ReviewStep, FieldStep, RejectStep
  <2>3. CASE index = PathStep /\ NextStateUpper
    <3>1. FieldLaidOut(0, 1)
      BY <1>1, <2>3, UpperStep DEF PathStep, FieldStep
    <3>2. QED
      BY <1>1, <2>3, <3>1 DEF At, FieldLaidOut, PathStep, FieldStep
  <2>4. CASE index = FieldStep /\ NextStateLower
    <3>1. position \in 0 .. Len(op) - 1
      BY <1>1, <2>4 DEF FlowInv, TypeOK, FieldShown, Positions
    <3>2. CASE FieldLaidOut(position + 1, 1) /\ position < Len(op) - 1
      BY <1>1, <2>4, <3>1, <3>2 DEF At, FieldLaidOut, FieldStep
    <3>3. CASE StaticLaidOut(ApproveStep) /\ page' = 1 /\ position = Len(op) - 1
      BY <1>1, <2>4, <3>1, <3>3 DEF At, StaticLaidOut, FieldStep, ApproveStep
    <3>4. QED
      BY <1>1, <2>4, <3>2, <3>3, LowerStep DEF FieldStep, ApproveStep
  <2>5. QED
    BY <2>1, <2>2, <2>3, <2>4 DEF FlowNext
<1>4. QED
  BY <1>1, <1>2, <1>3, RingOf DEF Walk!Right

\* A press of the left button on the first page of a screen
LEMMA FlowPrevWalks ==
  ASSUME FlowInv, FlowInv', FlowPrev
  PROVE  Walk!Left
<1>1. /\ op \in Operations /\ Len(op) \in Nat /\ Len(op) >= 1
      /\ open /\ open' /\ op' = op /\ page = 1
  BY OpFields DEF FlowPrev, FlowInv, TypeOK
<1>2. TourOf(op).pages[At'] = PageCount(index, position)'
  BY <1>1, PlaceOnRingNext
<1>3. /\ page' \in {1, PageCount(index, position)'}
      /\ At' = IF At = 0 THEN Len(op) + 3 ELSE At - 1
  <2>1. CASE index \in {PathStep, RejectStep} /\ Stay(index - 1, index)
    <3>1. index - 1 \in {ReviewStep, ApproveStep}
      BY <2>1 DEF ReviewStep, PathStep, ApproveStep, RejectStep
    <3>2. index' = index - 1 /\ page' = PageCount(index - 1, 0)
      BY <1>1, <2>1, <3>1, StayInv DEF PathStep, RejectStep
    <3>3. PageCount(index - 1, 0) = 1
      BY <3>1 DEF PageCount, ReviewStep, PathStep, FieldStep, ApproveStep
    <3>4. QED
      BY <1>1, <2>1, <3>2, <3>3 DEF At, PathStep, FieldStep, RejectStep
  <2>2. CASE index = ReviewStep /\ Stay(RejectStep, index)
    <3>1. index' = RejectStep /\ page' = 1
      BY <1>1, <2>2, StayInv DEF ReviewStep, RejectStep
    <3>2. QED
      BY <1>1, <2>2, <3>1 DEF At, ReviewStep, FieldStep, RejectStep
  <2>3. CASE index = FieldStep /\ NextStateUpper
    <3>1. position \in 0 .. Len(op) - 1
      BY <1>1, <2>3 DEF FlowInv, TypeOK, FieldShown, Positions
    <3>2. CASE FieldLaidOut(position - 1, 1) /\ position > 0
      BY <1>1, <2>3, <3>1, <3>2 DEF At, FieldLaidOut, FieldStep
    <3>3. CASE StaticLaidOut(PathStep) /\ page' = PathPages /\ position = 0
      <4>1. PageCount(index, position)' = PathPages
        BY <3>3 DEF StaticLaidOut, PageCount, PathStep, FieldStep
      <4>2. QED
        BY <1>1, <2>3, <3>1, <3>3, <4>1 DEF At, StaticLaidOut, PathStep, FieldStep
    <3>4. QED
      BY <1>1, <2>3, <3>2, <3>3, UpperStep DEF PathStep, FieldStep
  <2>4. CASE index = ApproveStep /\ NextStateLower
    <3>1. FieldLaidOut(Len(op) - 1, PageCount(FieldStep, Len(op) - 1))
      BY <1>1, <2>4, LowerStep DEF FieldStep, ApproveStep
    <3>2. PageCount(index, position)' = PageCount(FieldStep, Len(op) - 1)
      BY <1>1, <3>1 DEF FieldLaidOut, PageCount, InTable
    <3>3. QED
      BY <1>1, <2>4, <3>1, <3>2 DEF At, FieldLaidOut, FieldStep, ApproveStep
  <2>5. QED
    BY <2>1, <2>2, <2>3, <2>4 DEF FlowPrev
<1>4. QED
  BY <1>1, <1>2, <1>3, RingOf DEF Walk!Left

\* Every step of the review is one on the ring, or none.
LEMMA StepWalks ==
  ASSUME FlowInv, FlowInv', [Next]_vars
  PROVE  [Walk!Next]_(Walk!vars)
<1>1. CASE \E o \in Operations : Display(o)
  <2>1. PICK o \in Operations : Display(o)
    BY <1>1
  <2>2. At' = 0 /\ open' /\ op' = o /\ page' = 1
    BY <2>1 DEF Display, At, ReviewStep, FieldStep
  <2>3. Walk!Open(TourOf(o))
    BY <2>2 DEF Walk!Open
  <2>4. QED
    BY <2>3 DEF Walk!Next
<1>2. ASSUME NEW d \in {-1, 1}, Turn(d)
      PROVE  Walk!Right \/ Walk!Left
  <2>1. /\ op \in Operations /\ open /\ open' /\ op' = op
        /\ page + d \in 1 .. PageCount(index, position) /\ page' = page + d
        /\ page \in 1 .. PageCount(index, position)
    BY <1>2 DEF Turn, FlowInv, TypeOK
  <2>2. At' = At
    BY <1>2 DEF Turn, At
  <2>3. TourOf(op).pages[At] = PageCount(index, position) /\ TourOf(op) # NoTour
    BY <2>1, PlaceOnRing, RingOf
  <2>4. PageCount(index, position) \in Nat
    BY PageCountType DEF FlowInv, TypeOK, Positions,
         ReviewStep, PathStep, FieldStep, ApproveStep, RejectStep
  <2>5. CASE d = 1
    BY <2>1, <2>2, <2>3, <2>4, <2>5 DEF Walk!Right
  <2>6. CASE d = -1
    BY <2>1, <2>2, <2>3, <2>4, <2>6 DEF Walk!Left
  <2>7. QED
    BY <2>5, <2>6
<1>3. CASE FlowNext
  BY <1>3, FlowNextWalks DEF Walk!Next
<1>4. CASE FlowPrev
  BY <1>4, FlowPrevWalks DEF Walk!Next
<1>5. CASE Answer \/ Abort
  BY <1>5 DEF Answer, Abort, At, Walk!Next, Walk!Close
<1>6. CASE UNCHANGED vars
  BY <1>6 DEF vars, At, Walk!vars
<1>7. QED
  BY <1>1, <1>2, <1>3, <1>4, <1>5, <1>6 DEF Next, Walk!Next

\* The two delimiters, the position and the parsing anew from the first field
\* add up to a ring on which each press of a button is one page forward or
\* back: who presses right to the approval has seen every page of every field.
THEOREM WalkImplemented == Spec => ImplementsCarousel
<1>1. Init => Walk!Init
  BY DEF Init, Walk!Init, At
<1>2. FlowInv /\ FlowInv' /\ [Next]_vars => [Walk!Next]_(Walk!vars)
  BY StepWalks
<1>3. QED
  BY <1>1, <1>2, FlowInvariance, PTL DEF Spec, ImplementsCarousel, Walk!Spec
=============================================================================

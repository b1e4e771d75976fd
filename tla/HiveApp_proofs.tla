--------------------------- MODULE HiveApp_proofs ---------------------------
(***************************************************************************)
(* The application's invariants, for every set of paths, operations and    *)
(* digests, every size of raw_tx and every set of commands.                *)
(*                                                                         *)
(* The order: what the parser's operators return; what a transaction that  *)
(* was parsed leaves in the context (FinishReady); one lemma per action    *)
(* that it keeps the inductive invariant IInv, where the handlers share    *)
(* AnswerInv and AskInv, the two ways they end; the theorems that follow   *)
(* from IInv; and the refinement of Signer, again action by action.        *)
(***************************************************************************)
EXTENDS HiveApp, SequenceTheorems, TLAPS

-----------------------------------------------------------------------------
(* The parser                                                              *)

\* The parser gets through the longest prefix of fields that fit, and there
\* is one.
LEMMA ReachDef ==
  ASSUME NEW raw \in Seq(Token)
  PROVE  /\ Reach(raw) \in 0 .. 4
         /\ \A i \in 1 .. Reach(raw) : Fits(raw, i)
         /\ Reach(raw) < 4 => ~Fits(raw, Reach(raw) + 1)
<1> DEFINE Good(n) == /\ \A i \in 1 .. n : Fits(raw, i)
                      /\ n < 4 => ~Fits(raw, n + 1)
<1> HIDE DEF Good
<1>1. \E n \in 0 .. 4 : Good(n)
  <2>1. CASE ~Fits(raw, 1)
    BY <2>1 DEF Good
  <2>2. CASE Fits(raw, 1) /\ ~Fits(raw, 2)
    BY <2>2 DEF Good
  <2>3. CASE Fits(raw, 1) /\ Fits(raw, 2) /\ ~Fits(raw, 3)
    BY <2>3 DEF Good
  <2>4. CASE Fits(raw, 1) /\ Fits(raw, 2) /\ Fits(raw, 3) /\ ~Fits(raw, 4)
    BY <2>4 DEF Good
  <2>5. CASE Fits(raw, 1) /\ Fits(raw, 2) /\ Fits(raw, 3) /\ Fits(raw, 4)
    <3>1. \A i \in 1 .. 4 : Fits(raw, i)
      BY <2>5
    <3>2. QED
      BY <3>1 DEF Good
  <2>6. QED
    BY <2>1, <2>2, <2>3, <2>4, <2>5
<1>2. Reach(raw) = CHOOSE n \in 0 .. 4 : Good(n)
  BY DEF Reach, Good
<1>3. Reach(raw) \in 0 .. 4 /\ Good(Reach(raw))
  BY <1>1, <1>2
<1>4. QED
  BY <1>3 DEF Good

\* The three fields of a whole transaction that are hashed
LEMMA Last3Of4 ==
  ASSUME NEW raw \in Seq(Token), Len(raw) = 4
  PROVE  SubSeq(raw, 2, 4) \in Seq(Token) /\ Len(SubSeq(raw, 2, 4)) = 3
<1>1. \A i \in 2 .. 4 : raw[i] \in Token
  <2>1. SUFFICES ASSUME NEW i \in 2 .. 4 PROVE raw[i] \in Token
    OBVIOUS
  <2>2. i \in 1 .. Len(raw)
    OBVIOUS
  <2>3. QED
    BY <2>2, ElementOfSeq
<1>2. QED
  BY <1>1, SubSeqProperties

\* Of an accepted transaction every field but the path is hashed.
LEMMA AcceptedWhole ==
  ASSUME NEW raw \in Seq(Token), Accepts(raw)
  PROVE  /\ Reach(raw) = 4
         /\ Hashed(raw) = SubSeq(raw, 2, 4)
         /\ raw[1] \in Path /\ raw[3] \in Op
<1>1. Reach(raw) = 4
  BY ReachDef DEF Accepts
<1>2. SubSeq(raw, 2, 4) \in Seq(Token)
  BY Last3Of4 DEF Accepts
<1>3. Hashed(raw) = SubSeq(raw, 2, 4)
  BY <1>1, <1>2 DEF Hashed
<1>4. Fits(raw, 1) /\ Fits(raw, 3)
  BY DEF Accepts
<1>5. raw[1] \in Path /\ raw[3] \in Op
  BY <1>4 DEF Fits, Wanted
<1>6. QED
  BY <1>1, <1>3, <1>5

\* What the parser hashes are fields, whatever it is given.
LEMMA HashedType ==
  ASSUME NEW raw \in Seq(Token)
  PROVE  Hashed(raw) \in Seq(Token)
<1>1. Reach(raw) \in 0 .. 4 /\ \A i \in 1 .. Reach(raw) : i \in 1 .. Len(raw)
  BY ReachDef DEF Fits
<1>2. Reach(raw) <= Len(raw)
  BY <1>1
<1>3. SubSeq(raw, 2, Reach(raw)) \in Seq(Token)
  BY <1>1, <1>2
<1>4. Stop(raw) \in Token
  BY <1>1 DEF Stop, Token
<1>5. QED
  BY <1>3, <1>4 DEF Hashed

\* The context stays one when transaction_parse has run over it.
LEMMA ParseType ==
  ASSUME NEW c \in Context, NEW raw \in Seq(Token)
  PROVE  /\ Parse(c, raw) \in Context
         /\ Parse(c, raw).state = c.state /\ Parse(c, raw).reqType = c.reqType
         /\ Parse(c, raw).raw = raw
<1>1. c.sha \o Hashed(raw) \in Seq(Token)
  BY HashedType DEF Context
<1>2. (IF Fits(raw, 1) THEN raw[1] ELSE NoPath) \in Path \cup {NoPath}
  BY DEF Fits, Wanted
<1>3. Reach(raw) >= 3 => raw[3] \in Op
  <2>1. SUFFICES ASSUME Reach(raw) >= 3 PROVE raw[3] \in Op
    OBVIOUS
  <2>2. Fits(raw, 3)
    BY <2>1, ReachDef
  <2>3. QED
    BY <2>2 DEF Fits, Wanted
<1>4. QED
  BY <1>1, <1>2, <1>3 DEF Parse, Context, Item

\* The last three fields of a hash to which three were added
LEMMA Tail3 ==
  ASSUME NEW a \in Seq(Token), NEW s \in Seq(Token), Len(s) = 3
  PROVE  /\ Len(a \o s) \in Nat /\ Len(a \o s) >= 3
         /\ SubSeq(a \o s, Len(a \o s) - 2, Len(a \o s)) = s
         /\ a = <<>> => a \o s = s
<1> DEFINE d == a \o s
           n == Len(a)
           t == SubSeq(d, n + 1, n + 3)
<1>1. n \in Nat
  BY LenProperties
<1>2. d \in Seq(Token) /\ Len(d) = n + 3
  <2>1. d \in Seq(Token) /\ Len(d) = Len(a) + Len(s)
    BY ConcatProperties
  <2>2. QED
    BY <1>1, <2>1
<1>3. \A i \in 1 .. 3 : d[n + i] = s[i]
  <2>1. \A j \in 1 .. Len(a) + Len(s) :
          d[j] = IF j <= Len(a) THEN a[j] ELSE s[j - Len(a)]
    BY ConcatProperties
  <2> HIDE DEF d, n
  <2>2. \A j \in 1 .. n + 3 : d[j] = IF j <= n THEN a[j] ELSE s[j - n]
    BY <2>1 DEF n
  <2>3. SUFFICES ASSUME NEW i \in 1 .. 3 PROVE d[n + i] = s[i]
    OBVIOUS
  <2>4. n + i \in 1 .. n + 3 /\ ~(n + i <= n) /\ (n + i) - n = i
    BY <1>1
  <2>5. QED
    BY <2>2, <2>4
<1>4. \A i \in n + 1 .. n + 3 : d[i] \in Token
  BY <1>1, <1>2, ElementOfSeq
<1>5. t \in Seq(Token) /\ Len(t) = 3 /\ \A i \in 1 .. 3 : t[i] = d[n + i]
  <2> HIDE DEF d, n
  <2>1. QED
    BY <1>1, <1>4, SubSeqProperties
<1>6. t = s
  <2> HIDE DEF t
  <2>1. QED
    BY <1>3, <1>5, SeqEqual
<1>7. a = <<>> => d = s
  BY ConcatEmptySeq
<1>8. QED
  BY <1>1, <1>2, <1>6, <1>7

\* The transaction that FinishTx hands to the review is ready to be signed.
LEMMA FinishReady ==
  ASSUME NEW c \in Context, NEW raw \in Seq(Token), Accepts(raw)
  PROVE  LET p == Parse(c, raw)
             n == Len(p.sha)
         IN /\ p.path = raw[1] /\ p.item = raw[3]
            /\ n >= 3 /\ SubSeq(p.sha, n - 2, n) = SubSeq(raw, 2, 4)
            /\ c.sha = <<>> => p.sha = SubSeq(raw, 2, 4)
<1>1. Fits(raw, 1) /\ Reach(raw) = 4 /\ Hashed(raw) = SubSeq(raw, 2, 4)
  BY AcceptedWhole DEF Accepts
<1>2. SubSeq(raw, 2, 4) \in Seq(Token) /\ Len(SubSeq(raw, 2, 4)) = 3
  BY Last3Of4 DEF Accepts
<1>3. c.sha \in Seq(Token)
  BY DEF Context
<1>4. Parse(c, raw).sha = c.sha \o SubSeq(raw, 2, 4)
  BY <1>1 DEF Parse, Context
<1>5. Parse(c, raw).path = raw[1] /\ Parse(c, raw).item = raw[3]
  BY <1>1 DEF Parse, Context
<1>6. QED
  <2> DEFINE h == SubSeq(raw, 2, 4)
  <2> HIDE DEF h
  <2>1. /\ Len(c.sha \o h) \in Nat /\ Len(c.sha \o h) >= 3
        /\ SubSeq(c.sha \o h, Len(c.sha \o h) - 2, Len(c.sha \o h)) = h
        /\ c.sha = <<>> => c.sha \o h = h
    BY <1>2, <1>3, Tail3 DEF h
  <2>2. QED
    BY <1>4, <1>5, <2>1 DEF h

-----------------------------------------------------------------------------
(* The inductive invariant                                                 *)

\* The cleared context is a context, and an empty review shows no item.
LEMMA ZeroType ==
  /\ ZeroCtx \in Context /\ Len(ZeroCtx.raw) = 0
  /\ NothingShown \in [path : Path \cup {NoPath}, item : Item \cup {NoItem}]
BY EmptySeq DEF ZeroCtx, Context, TxState, Request, NothingShown

\* The responses, and that none of them is taken for an empty buffer
LEMMA ResponseType ==
  /\ \A sw : /\ Sw(sw) \in Response /\ Sw(sw) # NoReply
             /\ Sw(sw).digest = <<>>
  /\ \A p \in Path : /\ PublicKey(p) \in Response /\ PublicKey(p) # NoReply
                     /\ PublicKey(p).digest = <<>>
  /\ \A p \in Path, d \in Seq(Token \cup {Padded, NoItem}) :
       Signature(p, d) \in Response /\ Signature(p, d) # NoReply
<1> USE ConstantsAssumption
<1>1. \A sw : /\ Sw(sw) \in Response /\ Sw(sw) # NoReply
             /\ Sw(sw).digest = <<>>
  BY EmptySeq DEF Sw, Response, NoReply, NoPath
<1>2. \A p \in Path : /\ PublicKey(p) \in Response /\ PublicKey(p) # NoReply
                     /\ PublicKey(p).digest = <<>>
  BY EmptySeq DEF PublicKey, Response, NoReply
<1>3. \A p \in Path, d \in Seq(Token \cup {Padded, NoItem}) :
       Signature(p, d) \in Response /\ Signature(p, d) # NoReply
  BY DEF Signature, Response, NoReply
<1>4. QED
  BY <1>1, <1>2, <1>3

\* The digest of a transaction stays ready while only the state changes.
LEMMA ReadyStable ==
  ASSUME UNCHANGED <<ctx.raw, ctx.sha, ctx.path, ctx.item, spoiled>>, TxReady
  PROVE  TxReady'
BY DEF TxReady, Accepts, Fits, Wanted

\* A device whose application was never opened satisfies the invariant.
LEMMA InitInv == Init => IInv
<1> SUFFICES ASSUME Init PROVE IInv
  OBVIOUS
<1> USE ConstantsAssumption DEF Init
<1>1. TypeOK
  <2>1. nvram \in [initialized : BOOLEAN, policy : Policy] /\ spoiled \in BOOLEAN
    BY DEF Policy
  <2>2. QED
    BY <2>1, ZeroType DEF TypeOK, Screen
<1>2. ReplyDiscipline
  BY DEF ReplyDiscipline
<1>3. ReviewMatchesContext
  BY DEF ReviewMatchesContext
<1>4. SessionInv
  BY DEF SessionInv, PlaceInv, RequestInv, ReadyInv, SignatureInv, ZeroCtx, NoReply
<1>5. QED
  BY <1>1, <1>2, <1>3, <1>4 DEF IInv

\* Opening the application sets up everything but the setting.
LEMMA LaunchInv == IInv /\ Launch => IInv'
<1> SUFFICES ASSUME IInv, Launch PROVE IInv'
  OBVIOUS
<1> USE ConstantsAssumption DEF IInv, SessionInv, Launch, Restart, ZeroCtx, NothingShown
<1>1. TypeOK'
  BY EmptySeq, ResponseType DEF TypeOK, ReplyDiscipline, PlaceInv, Context, TxState, Request, Policy, Screen, Review, Item, Path
<1>2. ReplyDiscipline'
  BY ResponseType DEF TypeOK, ReplyDiscipline, PlaceInv, Context, TxState, Request, Policy, Screen, Review, Item, Path
<1>3. ReviewMatchesContext'
  BY DEF TypeOK, ReviewMatchesContext, PlaceInv, ReplyDiscipline, Accepts, Fits, Context, TxState, Request, Policy, Screen, Review, Item, Path
<1>4. PlaceInv'
  BY ResponseType DEF TypeOK, PlaceInv, ReplyDiscipline, NoReply, Context, TxState, Request, Policy, Screen, Review, Item, Path
<1>5. RequestInv'
  BY DEF TypeOK, PlaceInv, RequestInv, ReplyDiscipline, ReviewMatchesContext, Context, TxState, Request, Policy, Screen, Review, Item, Path
<1>6. ReadyInv'
  BY ReadyStable, ResponseType DEF TypeOK, PlaceInv, RequestInv, ReadyInv, ReviewMatchesContext, NoReply, Context, TxState, Request, Policy, Screen, Review, Item, Path
<1>7. SignatureInv'
  BY ResponseType DEF TypeOK, PlaceInv, RequestInv, SignatureInv, ReplyDiscipline, Signable, NoReply, Context, TxState, Request, Policy, Screen, Review, Item, Path
<1>8. QED
  BY <1>1, <1>2, <1>3, <1>4, <1>5, <1>6, <1>7

\* So does a link that goes down, wherever the device is blocked.
LEMMA ResetInv == IInv /\ Reset => IInv'
<1> SUFFICES ASSUME IInv, Reset PROVE IInv'
  OBVIOUS
<1> USE ConstantsAssumption DEF IInv, SessionInv, Reset, Restart, ZeroCtx, NothingShown
<1>1. TypeOK'
  BY EmptySeq, ResponseType DEF TypeOK, ReplyDiscipline, PlaceInv, Context, TxState, Request, Policy, Screen, Review, Item, Path
<1>2. ReplyDiscipline'
  BY ResponseType DEF TypeOK, ReplyDiscipline, PlaceInv, Context, TxState, Request, Policy, Screen, Review, Item, Path
<1>3. ReviewMatchesContext'
  BY DEF TypeOK, ReviewMatchesContext, PlaceInv, ReplyDiscipline, Accepts, Fits, Context, TxState, Request, Policy, Screen, Review, Item, Path
<1>4. PlaceInv'
  BY ResponseType DEF TypeOK, PlaceInv, ReplyDiscipline, NoReply, Context, TxState, Request, Policy, Screen, Review, Item, Path
<1>5. RequestInv'
  BY DEF TypeOK, PlaceInv, RequestInv, ReplyDiscipline, ReviewMatchesContext, Context, TxState, Request, Policy, Screen, Review, Item, Path
<1>6. ReadyInv'
  BY ReadyStable, ResponseType DEF TypeOK, PlaceInv, RequestInv, ReadyInv, ReviewMatchesContext, NoReply, Context, TxState, Request, Policy, Screen, Review, Item, Path
<1>7. SignatureInv'
  BY ResponseType DEF TypeOK, PlaceInv, RequestInv, SignatureInv, ReplyDiscipline, Signable, NoReply, Context, TxState, Request, Policy, Screen, Review, Item, Path
<1>8. QED
  BY <1>1, <1>2, <1>3, <1>4, <1>5, <1>6, <1>7

\* Closing it leaves nothing behind but the setting.
LEMMA QuitInv == IInv /\ Quit => IInv'
<1> SUFFICES ASSUME IInv, Quit PROVE IInv'
  OBVIOUS
<1> USE ConstantsAssumption DEF IInv, SessionInv, Quit, ZeroCtx, NothingShown
<1>1. TypeOK'
  BY EmptySeq, ResponseType DEF TypeOK, ReplyDiscipline, PlaceInv, Context, TxState, Request, Policy, Screen, Review, Item, Path
<1>2. ReplyDiscipline'
  BY ResponseType DEF TypeOK, ReplyDiscipline, PlaceInv, Context, TxState, Request, Policy, Screen, Review, Item, Path
<1>3. ReviewMatchesContext'
  BY DEF TypeOK, ReviewMatchesContext, PlaceInv, ReplyDiscipline, Accepts, Fits, Context, TxState, Request, Policy, Screen, Review, Item, Path
<1>4. PlaceInv'
  BY ResponseType DEF TypeOK, PlaceInv, ReplyDiscipline, NoReply, Context, TxState, Request, Policy, Screen, Review, Item, Path
<1>5. RequestInv'
  BY DEF TypeOK, PlaceInv, RequestInv, ReplyDiscipline, ReviewMatchesContext, Context, TxState, Request, Policy, Screen, Review, Item, Path
<1>6. ReadyInv'
  BY ReadyStable, ResponseType DEF TypeOK, PlaceInv, RequestInv, ReadyInv, ReviewMatchesContext, NoReply, Context, TxState, Request, Policy, Screen, Review, Item, Path
<1>7. SignatureInv'
  BY ResponseType DEF TypeOK, PlaceInv, RequestInv, SignatureInv, ReplyDiscipline, Signable, NoReply, Context, TxState, Request, Policy, Screen, Review, Item, Path
<1>8. QED
  BY <1>1, <1>2, <1>3, <1>4, <1>5, <1>6, <1>7

\* io_recv_command keeps the invariant, and never meets the state WAITING.
LEMMA RecvInv == IInv /\ Recv => IInv'
<1> SUFFICES ASSUME IInv, Recv PROVE IInv'
  OBVIOUS
<1> USE ConstantsAssumption DEF IInv, SessionInv, Recv, Restart, ZeroCtx, NothingShown
<1>1. TypeOK'
  BY EmptySeq, ResponseType DEF TypeOK, ReplyDiscipline, PlaceInv, Context, TxState, Request, Policy, Screen, Review, Item, Path
<1>2. ReplyDiscipline'
  BY ResponseType DEF TypeOK, ReplyDiscipline, PlaceInv, Context, TxState, Request, Policy, Screen, Review, Item, Path
<1>3. ReviewMatchesContext'
  BY DEF TypeOK, ReviewMatchesContext, PlaceInv, ReplyDiscipline, Accepts, Fits, Context, TxState, Request, Policy, Screen, Review, Item, Path
<1>4. PlaceInv'
  BY ResponseType DEF TypeOK, PlaceInv, ReplyDiscipline, NoReply, Context, TxState, Request, Policy, Screen, Review, Item, Path
<1>5. RequestInv'
  BY DEF TypeOK, PlaceInv, RequestInv, ReplyDiscipline, ReviewMatchesContext, Context, TxState, Request, Policy, Screen, Review, Item, Path
<1>6. ReadyInv'
  BY ReadyStable, ResponseType DEF TypeOK, PlaceInv, RequestInv, ReadyInv, ReviewMatchesContext, NoReply, Context, TxState, Request, Policy, Screen, Review, Item, Path
<1>7. SignatureInv'
  BY ResponseType DEF TypeOK, PlaceInv, RequestInv, SignatureInv, ReplyDiscipline, Signable, NoReply, Context, TxState, Request, Policy, Screen, Review, Item, Path
<1>8. QED
  BY <1>1, <1>2, <1>3, <1>4, <1>5, <1>6, <1>7

\* The menus touch nothing that a request depends on.
LEMMA NavigateInv == IInv /\ Navigate => IInv'
<1> SUFFICES ASSUME IInv, Navigate PROVE IInv'
  OBVIOUS
<1> USE ConstantsAssumption DEF IInv, SessionInv, Navigate, Press
<1>1. TypeOK'
  BY EmptySeq, ResponseType DEF TypeOK, ReplyDiscipline, PlaceInv, Context, TxState, Request, Policy, Screen, Review, Item, Path
<1>2. ReplyDiscipline'
  BY ResponseType DEF TypeOK, ReplyDiscipline, PlaceInv, Context, TxState, Request, Policy, Screen, Review, Item, Path
<1>3. ReviewMatchesContext'
  BY DEF TypeOK, ReviewMatchesContext, PlaceInv, ReplyDiscipline, Accepts, Fits, Context, TxState, Request, Policy, Screen, Review, Item, Path
<1>4. PlaceInv'
  BY ResponseType DEF TypeOK, PlaceInv, ReplyDiscipline, NoReply, Context, TxState, Request, Policy, Screen, Review, Item, Path
<1>5. RequestInv'
  BY DEF TypeOK, PlaceInv, RequestInv, ReplyDiscipline, ReviewMatchesContext, Context, TxState, Request, Policy, Screen, Review, Item, Path
<1>6. ReadyInv'
  BY ReadyStable, ResponseType DEF TypeOK, PlaceInv, RequestInv, ReadyInv, ReviewMatchesContext, NoReply, Context, TxState, Request, Policy, Screen, Review, Item, Path
<1>7. SignatureInv'
  BY ResponseType DEF TypeOK, PlaceInv, RequestInv, SignatureInv, ReplyDiscipline, Signable, NoReply, Context, TxState, Request, Policy, Screen, Review, Item, Path
<1>8. QED
  BY <1>1, <1>2, <1>3, <1>4, <1>5, <1>6, <1>7

\* The setting changes only under a menu, with no digest under review.
LEMMA SwitchHashSigningInv == IInv /\ SwitchHashSigning => IInv'
<1> SUFFICES ASSUME IInv, SwitchHashSigning PROVE IInv'
  OBVIOUS
<1> USE ConstantsAssumption DEF IInv, SessionInv, SwitchHashSigning, Press
<1>1. TypeOK'
  BY EmptySeq, ResponseType DEF TypeOK, ReplyDiscipline, PlaceInv, Context, TxState, Request, Policy, Screen, Review, Item, Path
<1>2. ReplyDiscipline'
  BY ResponseType DEF TypeOK, ReplyDiscipline, PlaceInv, Context, TxState, Request, Policy, Screen, Review, Item, Path
<1>3. ReviewMatchesContext'
  BY DEF TypeOK, ReviewMatchesContext, PlaceInv, ReplyDiscipline, Accepts, Fits, Context, TxState, Request, Policy, Screen, Review, Item, Path
<1>4. PlaceInv'
  BY ResponseType DEF TypeOK, PlaceInv, ReplyDiscipline, NoReply, Context, TxState, Request, Policy, Screen, Review, Item, Path
<1>5. RequestInv'
  BY DEF TypeOK, PlaceInv, RequestInv, ReplyDiscipline, ReviewMatchesContext, Context, TxState, Request, Policy, Screen, Review, Item, Path
<1>6. ReadyInv'
  BY ReadyStable, ResponseType DEF TypeOK, PlaceInv, RequestInv, ReadyInv, ReviewMatchesContext, NoReply, Context, TxState, Request, Policy, Screen, Review, Item, Path
<1>7. SignatureInv'
  BY ResponseType DEF TypeOK, PlaceInv, RequestInv, SignatureInv, ReplyDiscipline, Signable, NoReply, Context, TxState, Request, Policy, Screen, Review, Item, Path
<1>8. QED
  BY <1>1, <1>2, <1>3, <1>4, <1>5, <1>6, <1>7

\* A refusal is answered at once and ends the request.
LEMMA DenyInv == IInv /\ Deny => IInv'
<1> SUFFICES ASSUME IInv, Deny PROVE IInv'
  OBVIOUS
<1> USE ConstantsAssumption DEF IInv, SessionInv, Deny, Press, Respond, Done
<1>1. TypeOK'
  BY EmptySeq, ResponseType DEF TypeOK, ReplyDiscipline, PlaceInv, Context, TxState, Request, Policy, Screen, Review, Item, Path
<1>2. ReplyDiscipline'
  BY ResponseType DEF TypeOK, ReplyDiscipline, PlaceInv, Context, TxState, Request, Policy, Screen, Review, Item, Path
<1>3. ReviewMatchesContext'
  BY DEF TypeOK, ReviewMatchesContext, PlaceInv, ReplyDiscipline, Accepts, Fits, Context, TxState, Request, Policy, Screen, Review, Item, Path
<1>4. PlaceInv'
  BY ResponseType DEF TypeOK, PlaceInv, ReplyDiscipline, NoReply, Context, TxState, Request, Policy, Screen, Review, Item, Path
<1>5. RequestInv'
  BY DEF TypeOK, PlaceInv, RequestInv, ReplyDiscipline, ReviewMatchesContext, Context, TxState, Request, Policy, Screen, Review, Item, Path
<1>6. ReadyInv'
  BY ReadyStable, ResponseType DEF TypeOK, PlaceInv, RequestInv, ReadyInv, ReviewMatchesContext, NoReply, Context, TxState, Request, Policy, Screen, Review, Item, Path
<1>7. SignatureInv'
  BY ResponseType DEF TypeOK, PlaceInv, RequestInv, SignatureInv, ReplyDiscipline, Signable, NoReply, Context, TxState, Request, Policy, Screen, Review, Item, Path
<1>8. QED
  BY <1>1, <1>2, <1>3, <1>4, <1>5, <1>6, <1>7

\* An approval leads to the heartbeat, with the digest still ready.
LEMMA ApproveInv == IInv /\ Approve => IInv'
<1> SUFFICES ASSUME IInv, Approve PROVE IInv'
  OBVIOUS
<1> USE ConstantsAssumption DEF IInv, SessionInv, Approve, Press
<1>1. TypeOK'
  BY EmptySeq, ResponseType DEF TypeOK, ReplyDiscipline, PlaceInv, Context, TxState, Request, Policy, Screen, Review, Item, Path
<1>2. ReplyDiscipline'
  BY ResponseType DEF TypeOK, ReplyDiscipline, PlaceInv, Context, TxState, Request, Policy, Screen, Review, Item, Path
<1>3. ReviewMatchesContext'
  BY DEF TypeOK, ReviewMatchesContext, PlaceInv, ReplyDiscipline, Accepts, Fits, Context, TxState, Request, Policy, Screen, Review, Item, Path
<1>4. PlaceInv'
  BY ResponseType DEF TypeOK, PlaceInv, ReplyDiscipline, NoReply, Context, TxState, Request, Policy, Screen, Review, Item, Path
<1>5. RequestInv'
  BY DEF TypeOK, PlaceInv, RequestInv, ReplyDiscipline, ReviewMatchesContext, Context, TxState, Request, Policy, Screen, Review, Item, Path
<1>6. ReadyInv'
  BY ReadyStable, ResponseType DEF TypeOK, PlaceInv, RequestInv, ReadyInv, ReviewMatchesContext, NoReply, Context, TxState, Request, Policy, Screen, Review, Item, Path
<1>7. SignatureInv'
  BY ResponseType DEF TypeOK, PlaceInv, RequestInv, SignatureInv, ReplyDiscipline, Signable, NoReply, Context, TxState, Request, Policy, Screen, Review, Item, Path
<1>8. QED
  BY <1>1, <1>2, <1>3, <1>4, <1>5, <1>6, <1>7

\* What is signed is what was ready at the heartbeat.
LEMMA SignInv == IInv /\ Sign => IInv'
<1> SUFFICES ASSUME IInv, Sign PROVE IInv'
  OBVIOUS
<1> USE ConstantsAssumption DEF IInv, SessionInv, Sign, Respond, Done
<1>1. TypeOK'
  <2>1. Signable \in Seq(Token \cup {Padded, NoItem})
    <3>1. ctx.sha \in Seq(Token \cup {Padded, NoItem})
      BY SeqMonotonic DEF TypeOK, Context
    <3>2. ctx.item \in Token \cup {Padded, NoItem}
      BY DEF TypeOK, Context, Item, Token
    <3>3. <<ctx.item>> \in Seq(Token \cup {Padded, NoItem})
      BY <3>2
    <3>4. QED
      BY <3>1, <3>3 DEF Signable
  <2>2. Signature(ctx.path, Signable) \in Response /\ Sw("SIGNATURE_FAIL") \in Response
    BY <2>1, ResponseType DEF Path
  <2>3. ctx' \in Context /\ Len(ctx'.raw) <= MaxTx
    BY DEF TypeOK, Context, TxState
  <2>4. QED
    BY <2>2, <2>3 DEF TypeOK, ReplyDiscipline, Screen
<1>2. ReplyDiscipline'
  BY ResponseType DEF TypeOK, ReplyDiscipline, PlaceInv, Context, TxState, Request, Policy, Screen, Review, Item, Path
<1>3. ReviewMatchesContext'
  BY DEF TypeOK, ReviewMatchesContext, PlaceInv, ReplyDiscipline, Accepts, Fits, Context, TxState, Request, Policy, Screen, Review, Item, Path
<1>4. PlaceInv'
  BY ResponseType DEF TypeOK, PlaceInv, ReplyDiscipline, NoReply, Context, TxState, Request, Policy, Screen, Review, Item, Path
<1>5. RequestInv'
  BY DEF TypeOK, PlaceInv, RequestInv, ReplyDiscipline, ReviewMatchesContext, Context, TxState, Request, Policy, Screen, Review, Item, Path
<1>6. ReadyInv'
  BY ReadyStable, ResponseType DEF TypeOK, PlaceInv, RequestInv, ReadyInv, ReviewMatchesContext, NoReply, Context, TxState, Request, Policy, Screen, Review, Item, Path
<1>7. SignatureInv'
  BY ResponseType DEF TypeOK, PlaceInv, RequestInv, SignatureInv, ReplyDiscipline, Signable, NoReply, Context, TxState, Request, Policy, Screen, Review, Item, Path
<1>8. QED
  BY <1>1, <1>2, <1>3, <1>4, <1>5, <1>6, <1>7

\* A derivation or a signing loop that throws is answered from the main loop;
\* the approved request stays behind, under the signing screen.
LEMMA SignThrowsInv == IInv /\ SignThrows => IInv'
<1> SUFFICES ASSUME IInv, SignThrows PROVE IInv'
  OBVIOUS
<1> USE ConstantsAssumption DEF IInv, SessionInv, SignThrows, Respond
<1>1. TypeOK'
  BY EmptySeq, ResponseType DEF TypeOK, ReplyDiscipline, PlaceInv, Context, TxState, Request, Policy, Screen, Review, Item, Path
<1>2. ReplyDiscipline'
  BY ResponseType DEF TypeOK, ReplyDiscipline, PlaceInv, Context, TxState, Request, Policy, Screen, Review, Item, Path
<1>3. ReviewMatchesContext'
  BY DEF TypeOK, ReviewMatchesContext, PlaceInv, ReplyDiscipline, Accepts, Fits, Context, TxState, Request, Policy, Screen, Review, Item, Path
<1>4. PlaceInv'
  BY ResponseType DEF TypeOK, PlaceInv, ReplyDiscipline, NoReply, Context, TxState, Request, Policy, Screen, Review, Item, Path
<1>5. RequestInv'
  BY DEF TypeOK, PlaceInv, RequestInv, ReplyDiscipline, ReviewMatchesContext, Context, TxState, Request, Policy, Screen, Review, Item, Path
<1>6. ReadyInv'
  BY ReadyStable, ResponseType DEF TypeOK, PlaceInv, RequestInv, ReadyInv, ReviewMatchesContext, NoReply, Context, TxState, Request, Policy, Screen, Review, Item, Path
<1>7. SignatureInv'
  BY ResponseType DEF TypeOK, PlaceInv, RequestInv, SignatureInv, ReplyDiscipline, Signable, NoReply, Context, TxState, Request, Policy, Screen, Review, Item, Path
<1>8. QED
  BY <1>1, <1>2, <1>3, <1>4, <1>5, <1>6, <1>7

\* The answer to the review of a public key
LEMMA ValidatePublicKeyInv ==
  ASSUME NEW choice \in BOOLEAN, IInv, ValidatePublicKey(choice)
  PROVE  IInv'
<1> USE ConstantsAssumption DEF IInv, SessionInv, ValidatePublicKey, Press, Respond
<1> DEFINE r == IF choice THEN PublicKey(ctx.path) ELSE Sw("DENY")
<1>0. r \in Response /\ r # NoReply /\ r.digest = <<>>
  <2>1. ctx.path \in Path
    BY DEF ReviewMatchesContext, Path
  <2>2. QED
    BY <2>1, ResponseType
<1>1. Respond(r) /\ pc = "exchange" /\ ioState = "WAITING"
  BY DEF ReplyDiscipline, TypeOK, Review
<1> HIDE DEF r
<1>2. reply' = r /\ owed' = 0 /\ out' = NoReply
  BY <1>1 DEF TypeOK, ReplyDiscipline
<1>3. TypeOK'
  BY <1>0, <1>2 DEF TypeOK, Context, TxState, Request, Policy, Screen, Review, Item, Path
<1>4. ReplyDiscipline'
  BY <1>2 DEF TypeOK, ReplyDiscipline, Context, TxState, Request, Policy, Screen, Review, Item, Path
<1>5. ReviewMatchesContext'
  BY DEF ReviewMatchesContext
<1>6. PlaceInv'
  BY <1>2 DEF TypeOK, PlaceInv, NoReply, Context, TxState, Request, Policy, Screen, Review, Item, Path
<1>7. RequestInv' /\ ReadyInv' /\ SignatureInv'
  BY <1>0, <1>2, ReadyStable DEF TypeOK, RequestInv, ReadyInv, SignatureInv, ReviewMatchesContext, Context, TxState, Request, Policy, Screen, Review, Item, Path
<1>8. QED
  BY <1>3, <1>4, <1>5, <1>6, <1>7

-----------------------------------------------------------------------------
(* The commands                                                            *)

\* A command that is answered at once keeps the invariant, whatever its
\* handler made of the context, short of a reviewed or approved request.
LEMMA AnswerInv ==
  ASSUME IInv, NEW r \in Response, r # NoReply, r.digest = <<>>, Answer(r),
         screen' \in {screen, "warning"}, spoiled' \in BOOLEAN,
         ctx' \in Context, Len(ctx'.raw) <= MaxTx,
         ctx'.state # "PARSED",
         ctx'.state = "APPROVED" => ctx' = ctx /\ screen' = screen,
         ctx'.state = "TX_RECEIVING" => /\ ctx'.reqType = "TRANSACTION"
                                        /\ ctx'.raw # <<>>
                                        /\ ~spoiled' => ctx'.sha = <<>>
  PROVE  IInv'
<1> USE ConstantsAssumption DEF IInv, SessionInv, Answer, Listening
<1>1. screen \notin Review /\ screen' \notin Review
  BY DEF ReplyDiscipline, Review
<1>2. TypeOK'
  BY EmptySeq, ZeroType DEF TypeOK, Screen
<1>3. ReplyDiscipline'
  BY <1>1 DEF ReplyDiscipline
<1>4. ReviewMatchesContext'
  BY <1>1 DEF ReviewMatchesContext, Review
<1>5. PlaceInv'
  BY <1>1 DEF PlaceInv, ReplyDiscipline
<1>6. RequestInv'
  BY DEF RequestInv
<1>7. ReadyInv' /\ SignatureInv'
  BY DEF ReadyInv, SignatureInv, NoReply
<1>8. QED
  BY <1>2, <1>3, <1>4, <1>5, <1>6, <1>7

\* A command that opens a review keeps it, if the context is what the
\* review is about.
LEMMA AskInv ==
  ASSUME IInv, NEW sc \in Review, NEW item \in Item \cup {NoItem}, Ask(sc, item),
         spoiled' \in BOOLEAN, ctx' \in Context, Len(ctx'.raw) <= MaxTx,
         ctx'.path \in Path,
         sc = "pubkeyReview" => /\ ctx'.reqType = "PUBLIC_KEY"
                                /\ ctx'.state = "NONE" /\ ctx'.path \in OwnPath,
         sc = "txReview" => /\ ctx'.reqType = "TRANSACTION"
                            /\ ctx'.state = "PARSED"
                            /\ item = ctx'.item /\ TxReady',
         sc = "hashReview" => /\ ctx'.reqType = "HASH" /\ ctx'.state = "PARSED"
                              /\ nvram.policy = "ENABLED" /\ item = ctx'.item
  PROVE  IInv'
<1> USE ConstantsAssumption DEF IInv, SessionInv, Ask, Listening
<1>1. sc \in {"pubkeyReview", "txReview", "hashReview"}
  BY DEF Review
<1>2. TypeOK'
  BY EmptySeq, ZeroType DEF TypeOK, Screen, Context
<1>3. ReplyDiscipline'
  BY DEF ReplyDiscipline
<1>4. ReviewMatchesContext'
  BY <1>1 DEF ReviewMatchesContext, TxReady
<1>5. PlaceInv'
  BY <1>1 DEF PlaceInv, ReplyDiscipline
<1>6. RequestInv'
  BY <1>1 DEF RequestInv
<1>7. ReadyInv' /\ SignatureInv'
  BY <1>1 DEF ReadyInv, SignatureInv, NoReply
<1>8. QED
  BY <1>2, <1>3, <1>4, <1>5, <1>6, <1>7

\* The last chunk: parsed or refused, over a context in which the running
\* hash is empty unless an earlier last chunk was refused.
LEMMA FinishTxInv ==
  ASSUME IInv, NEW base \in Context, NEW raw \in Seq(Token),
         raw # <<>>, Len(raw) <= MaxTx, FinishTx(base, raw),
         base.reqType = "TRANSACTION",
         base.state \in {"NONE", "TX_RECEIVING"},
         ~(spoiled /\ base.state = "TX_RECEIVING") => base.sha = <<>>
  PROVE  IInv'
<1> DEFINE parsed == Parse(base, raw)
<1>1. /\ parsed \in Context /\ parsed.state = base.state
      /\ parsed.reqType = "TRANSACTION" /\ parsed.raw = raw
  BY ParseType
<1>2. CASE ~Accepts(raw)
  <2> DEFINE r == Sw(IF Throws(raw) THEN "EXCEPTION" ELSE "TX_PARSING_FAIL")
  <2>1. /\ ctx' = parsed /\ UNCHANGED screen /\ Answer(r)
        /\ spoiled' = (base.state = "TX_RECEIVING")
    BY <1>2 DEF FinishTx
  <2>2. r \in Response /\ r # NoReply /\ r.digest = <<>>
    BY ResponseType
  <2>3. spoiled' \in BOOLEAN
    BY <2>1
  <2> HIDE DEF r, parsed
  <2>4. QED
    BY <1>1, <2>1, <2>2, <2>3, AnswerInv
<1>3. CASE Accepts(raw)
  <2>1. /\ ctx' = [parsed EXCEPT !.state = "PARSED"]
        /\ spoiled' = (spoiled /\ base.state = "TX_RECEIVING")
        /\ Ask("txReview", parsed.item)
    BY <1>3 DEF FinishTx
  <2>2. /\ parsed.path = raw[1] /\ parsed.item = raw[3]
        /\ raw[1] \in Path /\ raw[3] \in Op
        /\ Len(parsed.sha) >= 3
        /\ SubSeq(parsed.sha, Len(parsed.sha) - 2, Len(parsed.sha)) = SubSeq(raw, 2, 4)
        /\ base.sha = <<>> => parsed.sha = SubSeq(raw, 2, 4)
    BY <1>3, FinishReady, AcceptedWhole
  <2> HIDE DEF parsed
  <2>3. /\ ctx' \in Context /\ ctx'.state = "PARSED" /\ ctx'.raw = raw
        /\ ctx'.sha = parsed.sha /\ ctx'.path = parsed.path
        /\ ctx'.item = parsed.item /\ ctx'.reqType = "TRANSACTION"
    BY <1>1, <2>1 DEF Context, TxState
  <2>4. spoiled' \in BOOLEAN
    BY <2>1 DEF IInv, TypeOK
  <2>5. TxReady'
    BY <1>3, <2>1, <2>2, <2>3 DEF TxReady, Accepts, Fits
  <2>6. parsed.item \in Item \cup {NoItem}
    BY <2>2 DEF Item
  <2>7. QED
    BY <2>1, <2>2, <2>3, <2>4, <2>5, <2>6, AskInv DEF Review
<1>4. QED
  BY <1>2, <1>3

\* What the dispatcher guarantees of the data it hands to a handler
LEMMA DataType ==
  ASSUME NEW c \in Commands
  PROVE  /\ c.data \in Seq(Token)
         /\ c.data # <<>> => c.data[1] \in Token
         /\ \A ins \in {"GET_PUBLIC_KEY", "SIGN_TRANSACTION", "SIGN_HASH"} :
              Dispatched(c, ins) => c.data # <<>>
<1>1. c.data \in Seq(Token)
  BY ConstantsAssumption DEF Command
<1>2. c.data # <<>> => c.data[1] \in Token
  <2>1. c.data # <<>> => 1 \in 1 .. Len(c.data)
    BY <1>1, EmptySeq, LenProperties
  <2>2. QED
    BY <1>1, <2>1, ElementOfSeq
<1>3. QED
  BY <1>1, <1>2 DEF Dispatched, NoData

\* The context an answer leaves untouched needs no second look.
LEMMA AnswerKeeps ==
  ASSUME IInv, NEW sw, Answer(Sw(sw)), UNCHANGED <<screen, ctx, spoiled>>
  PROVE  IInv'
<1>1. ctx.state # "PARSED"
  BY DEF IInv, SessionInv, RequestInv, ReplyDiscipline, Answer, Listening, Review
<1>2. /\ spoiled' \in BOOLEAN /\ ctx' \in Context /\ Len(ctx'.raw) <= MaxTx
      /\ ctx' = ctx /\ screen' \in {screen, "warning"}
  BY DEF IInv, TypeOK
<1>3. ctx'.state = "TX_RECEIVING" => /\ ctx'.reqType = "TRANSACTION"
                                     /\ ctx'.raw # <<>>
                                     /\ ~spoiled' => ctx'.sha = <<>>
  BY <1>2 DEF IInv, SessionInv, RequestInv
<1>4. Sw(sw) \in Response /\ Sw(sw) # NoReply /\ Sw(sw).digest = <<>>
  BY ResponseType
<1>5. QED
  BY <1>1, <1>2, <1>3, <1>4, AnswerInv

\* A command that the dispatcher refuses changes nothing.
LEMMA RefuseInv == ASSUME NEW c \in Commands, IInv, Refuse(c) PROVE IInv'
BY AnswerKeeps DEF Refuse

\* Nor do the three commands that only inform.
LEMMA GetInfoInv == ASSUME NEW c \in Commands, IInv, GetInfo(c) PROVE IInv'
BY AnswerKeeps DEF GetInfo

\* The context a handler starts from
LEMMA FreshType ==
  ASSUME NEW req \in Request, NEW p \in Path \cup {NoPath}
  PROVE  LET f == [ZeroCtx EXCEPT !.reqType = req, !.path = p]
         IN /\ f \in Context /\ Len(f.raw) = 0 /\ f.state = "NONE"
            /\ f.path = p /\ f.reqType = req /\ f.sha = <<>>
BY ZeroType DEF ZeroCtx, Context

\* handler_get_public_key clears the context, with no review on the display.
LEMMA GetPublicKeyInv == ASSUME NEW c \in Commands, IInv, GetPublicKey(c) PROVE IInv'
<1> DEFINE path == c.data[1]
           Fresh(p) == [ZeroCtx EXCEPT !.reqType = "PUBLIC_KEY", !.path = p]
<1>1. spoiled' \in BOOLEAN
  BY DEF GetPublicKey, IInv, TypeOK
<1>2. \A p \in Path \cup {NoPath} :
        /\ Fresh(p) \in Context /\ Len(Fresh(p).raw) <= MaxTx
        /\ Fresh(p).state = "NONE" /\ Fresh(p).path = p
        /\ Fresh(p).reqType = "PUBLIC_KEY"
  <2>1. TAKE p \in Path \cup {NoPath}
  <2>2. /\ Fresh(p) \in Context /\ Len(Fresh(p).raw) = 0
        /\ Fresh(p).state = "NONE" /\ Fresh(p).path = p
        /\ Fresh(p).reqType = "PUBLIC_KEY"
    BY FreshType DEF Request
  <2>3. QED
    BY <2>2, ConstantsAssumption
<1>3. ASSUME NEW p \in Path \cup {NoPath}, ctx' = Fresh(p), UNCHANGED screen,
             NEW r \in Response, r # NoReply, r.digest = <<>>, Answer(r)
      PROVE  IInv'
  <2> HIDE DEF Fresh
  <2>1. QED
    BY <1>1, <1>2, <1>3, AnswerInv
<1>4. CASE path \notin Path
  BY <1>3, <1>4, ResponseType DEF GetPublicKey, Path
<1>5. CASE path \in ForeignPath
  BY <1>3, <1>5, ResponseType, ConstantsAssumption DEF GetPublicKey, Path
<1>6. CASE path \in OwnPath /\ c.p1 = 0
  <2>1. /\ ctx' = Fresh(path) /\ UNCHANGED screen
        /\ Answer(PublicKey(path)) /\ path \in Path
    BY <1>6, ConstantsAssumption DEF GetPublicKey, Path
  <2> HIDE DEF Fresh, path
  <2>2. QED
    BY <1>3, <2>1, ResponseType
<1>7. CASE path \in OwnPath /\ c.p1 # 0
  <2>1. ctx' = Fresh(path) /\ Ask("pubkeyReview", NoItem) /\ path \in Path
    BY <1>7, ConstantsAssumption DEF GetPublicKey, Path
  <2> HIDE DEF Fresh, path
  <2>2. QED
    BY <1>1, <1>2, <1>7, <2>1, AskInv DEF Review
<1>8. QED
  BY <1>4, <1>5, <1>6, <1>7 DEF Path

\* What FreshTx is: no hash yet, nothing received
LEMMA FreshTxType ==
  /\ FreshTx \in Context /\ Len(FreshTx.raw) = 0 /\ FreshTx.state = "NONE"
  /\ FreshTx.reqType = "TRANSACTION" /\ FreshTx.sha = <<>>
BY ZeroType DEF FreshTx, ZeroCtx, Context, Request

\* handler_sign_tx keeps the invariant on the first chunk.
LEMMA SignTxFirstInv ==
  ASSUME NEW c \in Commands, IInv, SignTxFirst(c)
  PROVE  IInv'
<1>1. /\ c.data \in Seq(Token) /\ c.data # <<>>
  BY DataType DEF SignTxFirst
<1>2. spoiled \in BOOLEAN /\ MaxTx \in Nat /\ Len(c.data) \in Nat
  BY <1>1, ConstantsAssumption, LenProperties DEF IInv, TypeOK
<1>3. CASE ctx.state # "NONE"
  BY <1>3, AnswerKeeps DEF SignTxFirst
<1>4. CASE ctx.state = "NONE" /\ Overlong(c.data)
  <2>1. /\ ctx' = FreshTx /\ UNCHANGED <<screen, spoiled>>
        /\ Answer(Sw("WRONG_TX_LENGTH"))
    BY <1>4 DEF SignTxFirst
  <2>2. QED
    BY <1>2, <2>1, FreshTxType, ResponseType, AnswerInv
<1>5. CASE ctx.state = "NONE" /\ ~Overlong(c.data) /\ More(c)
  <2>1. /\ ctx' = [FreshTx EXCEPT !.raw = c.data, !.state = "TX_RECEIVING"]
        /\ spoiled' = FALSE /\ UNCHANGED screen /\ Answer(Sw("OK"))
    BY <1>5 DEF SignTxFirst
  <2>2. /\ ctx' \in Context /\ ctx'.raw = c.data /\ ctx'.sha = <<>>
        /\ ctx'.state = "TX_RECEIVING" /\ ctx'.reqType = "TRANSACTION"
    BY <1>1, <2>1, FreshTxType DEF Context, TxState
  <2>3. Len(c.data) <= MaxTx
    BY <1>2, <1>5 DEF Overlong
  <2>4. QED
    BY <1>1, <2>1, <2>2, <2>3, ResponseType, AnswerInv
<1>6. CASE ctx.state = "NONE" /\ ~Overlong(c.data) /\ ~More(c)
  <2>1. FinishTx(FreshTx, c.data)
    BY <1>6 DEF SignTxFirst
  <2>2. Len(c.data) <= MaxTx
    BY <1>2, <1>6 DEF Overlong
  <2>3. QED
    BY <1>1, <2>1, <2>2, FreshTxType, FinishTxInv
<1>7. QED
  BY <1>3, <1>4, <1>5, <1>6

\* handler_sign_tx keeps the invariant on every other chunk.
LEMMA SignTxNextInv ==
  ASSUME NEW c \in Commands, IInv, SignTxNext(c)
  PROVE  IInv'
<1>1. /\ c.data \in Seq(Token) /\ c.data # <<>>
  BY DataType DEF SignTxNext
<1>2. ctx \in Context /\ ctx.raw \in Seq(Token) /\ MaxTx \in Nat
  BY ConstantsAssumption DEF IInv, TypeOK, Context
<1>3. PICK whole : whole = ctx.raw \o c.data
  OBVIOUS
<1>4. whole \in Seq(Token) /\ Len(whole) \in Nat /\ whole # <<>>
  <2>1. whole \in Seq(Token) /\ Len(whole) = Len(ctx.raw) + Len(c.data)
    BY <1>1, <1>2, <1>3, ConcatProperties
  <2>2. Len(c.data) \in Nat /\ Len(c.data) # 0 /\ Len(ctx.raw) \in Nat
    BY <1>1, <1>2, EmptySeq, LenProperties
  <2>3. \A m, n \in Nat : n # 0 => m + n \in Nat /\ m + n # 0
    OBVIOUS
  <2>4. Len(whole) \in Nat /\ Len(whole) # 0
    BY <2>1, <2>2, <2>3, Zenon
  <2>5. QED
    BY <2>1, <2>4, EmptySeq
<1>5. CASE ctx.state # "TX_RECEIVING"
  BY <1>3, <1>5, AnswerKeeps DEF SignTxNext
<1>6. CASE ctx.state = "TX_RECEIVING" /\ Overlong(whole)
  BY <1>3, <1>6, AnswerKeeps DEF SignTxNext
<1>7. CASE ctx.state = "TX_RECEIVING" /\ ~Overlong(whole)
  <2>1. /\ ctx.reqType = "TRANSACTION" /\ spoiled \in BOOLEAN
        /\ ~spoiled => ctx.sha = <<>>
    BY <1>7 DEF IInv, TypeOK, SessionInv, RequestInv
  <2>2. Len(whole) <= MaxTx
    BY <1>2, <1>4, <1>7 DEF Overlong
  <2>3. CASE More(c)
    <3>1. /\ ctx' = [ctx EXCEPT !.raw = whole] /\ UNCHANGED <<screen, spoiled>>
          /\ Answer(Sw("OK"))
      BY <1>3, <1>7, <2>3 DEF SignTxNext
    <3>2. /\ ctx' \in Context /\ ctx'.raw = whole /\ ctx'.sha = ctx.sha
          /\ ctx'.state = "TX_RECEIVING" /\ ctx'.reqType = ctx.reqType
      BY <1>2, <1>4, <1>7, <3>1 DEF Context
    <3>3. QED
      BY <1>4, <2>1, <2>2, <3>1, <3>2, ResponseType, AnswerInv
  <2>4. CASE ~More(c)
    <3>1. FinishTx(ctx, whole)
      BY <1>3, <1>7, <2>4 DEF SignTxNext
    <3>2. QED
      BY <1>2, <1>4, <1>7, <2>1, <2>2, <3>1, FinishTxInv
  <2>5. QED
    BY <2>3, <2>4
<1>8. QED
  BY <1>5, <1>6, <1>7

\* handler_sign_hash keeps the invariant: it asks only under the setting.
LEMMA SignHashInv ==
  ASSUME NEW c \in Commands, IInv, SignHash(c)
  PROVE  IInv'
<1> DEFINE fresh == [ZeroCtx EXCEPT !.reqType = "HASH"]
           path == IF c.data[1] \in Path THEN c.data[1] ELSE NoPath
           item == IF Len(c.data) = 1 THEN Padded ELSE c.data[2]
<1>1. spoiled' \in BOOLEAN /\ MaxTx \in Nat /\ path \in Path \cup {NoPath}
  BY ConstantsAssumption DEF SignHash, IInv, TypeOK
<1>2. /\ fresh \in Context /\ Len(fresh.raw) = 0 /\ fresh.state = "NONE"
      /\ fresh.reqType = "HASH"
  BY ZeroType DEF ZeroCtx, Context, Request
<1>3. CASE ctx.state # "NONE"
  BY <1>3, AnswerKeeps DEF SignHash
<1>4. CASE ctx.state = "NONE" /\ ~HashSigningAllowed
  <2>1. ctx' = fresh /\ screen' = "warning" /\ Answer(Sw("HASH_SIGNING_DISABLED"))
    BY <1>4 DEF SignHash
  <2> HIDE DEF fresh
  <2>2. QED
    BY <1>1, <1>2, <2>1, ResponseType, AnswerInv
<1>5. CASE ctx.state = "NONE" /\ HashSigningAllowed /\ ~HashAccepts(c.data)
  <2>1. /\ ctx' = [fresh EXCEPT !.path = path] /\ UNCHANGED screen
        /\ Answer(Sw("HASH_PARSING_FAIL"))
    BY <1>5 DEF SignHash
  <2> HIDE DEF fresh, path
  <2>2. ctx' \in Context /\ Len(ctx'.raw) = 0 /\ ctx'.state = "NONE"
    BY <1>1, <1>2, <2>1 DEF Context
  <2>3. QED
    BY <1>1, <2>1, <2>2, ResponseType, AnswerInv
<1>6. CASE ctx.state = "NONE" /\ HashSigningAllowed /\ HashAccepts(c.data)
  <2>1. /\ ctx' = [fresh EXCEPT !.path = path, !.item = item, !.state = "PARSED"]
        /\ Ask("hashReview", item)
    BY <1>6 DEF SignHash
  <2>2. path \in Path /\ item \in Item
    BY <1>6 DEF HashAccepts, Item
  <2>3. nvram.policy = "ENABLED"
    BY <1>6 DEF HashSigningAllowed, IInv, TypeOK, Policy
  <2> HIDE DEF fresh, path, item
  <2>4. /\ ctx' \in Context /\ Len(ctx'.raw) = 0 /\ ctx'.state = "PARSED"
        /\ ctx'.path = path /\ ctx'.item = item /\ ctx'.reqType = "HASH"
    BY <1>1, <1>2, <2>1, <2>2 DEF Context, TxState
  <2>5. QED
    BY <1>1, <2>1, <2>2, <2>3, <2>4, AskInv DEF Review
<1>7. QED
  BY <1>3, <1>4, <1>5, <1>6

\* A step that changes nothing keeps the invariant.
LEMMA StutterInv == IInv /\ UNCHANGED vars => IInv'
BY DEF IInv, TypeOK, ReplyDiscipline, ReviewMatchesContext, SessionInv, PlaceInv,
       RequestInv, ReadyInv, SignatureInv, TxReady, Accepts, Fits, Signable, vars

\* The invariant is inductive.
LEMMA NextInv == IInv /\ [Next]_vars => IInv'
<1> SUFFICES ASSUME IInv, [Next]_vars PROVE IInv'
  OBVIOUS
<1>1. CASE HostCommand
  BY <1>1, RefuseInv, GetInfoInv, GetPublicKeyInv, SignTxFirstInv,
     SignTxNextInv, SignHashInv DEF HostCommand
<1>2. CASE UserAnswer
  BY <1>2, DenyInv, ApproveInv, ValidatePublicKeyInv DEF UserAnswer
<1>3. CASE Launch \/ Reset \/ Quit \/ Recv
  BY <1>3, LaunchInv, ResetInv, QuitInv, RecvInv
<1>4. CASE Navigate \/ SwitchHashSigning \/ Sign \/ SignThrows
  BY <1>4, NavigateInv, SwitchHashSigningInv, SignInv, SignThrowsInv
<1>5. CASE UNCHANGED vars
  BY <1>5, StutterInv
<1>6. QED
  BY <1>1, <1>2, <1>3, <1>4, <1>5 DEF Next

-----------------------------------------------------------------------------
(* The theorems                                                            *)

\* The strengthened invariant holds in every state the device reaches.
THEOREM Invariance == Spec => []IInv
<1>1. QED
  BY InitInv, NextInv, PTL DEF Spec

\* Type correctness: in particular raw_tx never outgrows its buffer, however
\* the host cuts a transaction into chunks.
THEOREM TypeCorrect == Spec => []TypeOK
<1>1. IInv => TypeOK
  BY DEF IInv
<1>2. QED
  BY <1>1, Invariance, PTL

\* One response for each command, over the three states of the I/O.
THEOREM RepliesDisciplined == Spec => []ReplyDiscipline
<1>1. IInv => ReplyDiscipline
  BY DEF IInv
<1>2. QED
  BY <1>1, Invariance, PTL

\* A review stands only over the request it shows.
THEOREM ReviewsMatch == Spec => []ReviewMatchesContext
<1>1. IInv => ReviewMatchesContext
  BY DEF IInv
<1>2. QED
  BY <1>1, Invariance, PTL

\* In the digest of a transaction that is ready, the field before the last
\* is its operation.
LEMMA ReadyItem ==
  ASSUME IInv, TxReady
  PROVE  /\ ctx.sha \in Seq(Token) /\ Len(ctx.sha) \in Nat /\ Len(ctx.sha) >= 3
         /\ ctx.sha[Len(ctx.sha) - 1] = ctx.item
<1>1. /\ ctx.sha \in Seq(Token) /\ ctx.raw \in Seq(Token)
      /\ Len(ctx.raw) = 4
  BY DEF IInv, TypeOK, Context, TxReady, Accepts
<1>2. PICK sha, raw : sha = ctx.sha /\ raw = ctx.raw
  OBVIOUS
<1>3. PICK n : n = Len(sha)
  OBVIOUS
<1>4. n \in Nat /\ n >= 3 /\ SubSeq(sha, n - 2, n) = SubSeq(raw, 2, 4)
  BY <1>1, <1>2, <1>3, LenProperties DEF TxReady
<1>5. \A i \in n - 2 .. n : sha[i] \in Token
  <2>1. \A i \in n - 2 .. n : i \in 1 .. n
    BY <1>4
  <2>2. QED
    BY <1>1, <1>2, <1>3, <2>1, ElementOfSeq
<1>6. SubSeq(sha, n - 2, n)[2] = sha[n - 1]
  <2>1. \A i \in 1 .. 3 : SubSeq(sha, n - 2, n)[i] = sha[n - 2 + i - 1]
    <3>1. /\ n - 2 \in Int /\ n \in Int /\ n - (n - 2) + 1 = 3
          /\ ~(n - 2 > n)
      BY <1>4
    <3>2. QED
      BY <1>5, <3>1, SubSeqProperties
  <2>2. n - 2 + 2 - 1 = n - 1 /\ 2 \in 1 .. 3
    BY <1>4
  <2>3. QED
    BY <2>1, <2>2
<1>7. SubSeq(raw, 2, 4)[2] = raw[3]
  <2>1. \A i \in 2 .. 4 : raw[i] \in Token
    <3>1. \A i \in 2 .. 4 : i \in 1 .. 4
      OBVIOUS
    <3>2. QED
      BY <1>1, <1>2, <3>1, ElementOfSeq
  <2>2. \A i \in 1 .. 3 : SubSeq(raw, 2, 4)[i] = raw[2 + i - 1]
    BY <2>1, SubSeqProperties
  <2>3. QED
    BY <2>2
<1>8. ctx.item = raw[3]
  BY <1>2 DEF TxReady
<1>9. QED
  BY <1>1, <1>2, <1>3, <1>4, <1>6, <1>7, <1>8

\* A transaction is signed over a digest that is not empty, and the item it
\* stands for is the one in the context.
LEMMA SignableItem ==
  ASSUME IInv, ctx.reqType \in {"TRANSACTION", "HASH"},
         ctx.reqType = "TRANSACTION" => TxReady
  PROVE  Signable # <<>> /\ SignedItem(Signable) = ctx.item
<1>1. CASE ctx.reqType = "TRANSACTION"
  <2>1. Signable = ctx.sha /\ SignedItem(Signable) = ctx.sha[Len(ctx.sha) - 1]
    BY <1>1 DEF Signable, SignedItem
  <2>2. QED
    BY <1>1, <2>1, ReadyItem, EmptySeq
<1>2. CASE ctx.reqType = "HASH"
  BY <1>2 DEF Signable, SignedItem
<1>3. QED
  BY <1>1, <1>2

\* Every signature covers what was shown, with the key that was shown.
THEOREM SignaturesAsShown == Spec => []SignedAsShown
<1>1. IInv => SignedAsShown
  <2>1. SUFFICES ASSUME IInv, reply.digest # <<>> PROVE SignedAsShown
    BY DEF SignedAsShown
  <2>2. /\ ctx.reqType \in {"TRANSACTION", "HASH"}
        /\ reply = Signature(ctx.path, Signable)
        /\ shown = [path |-> ctx.path, item |-> ctx.item]
    BY <2>1 DEF IInv, SessionInv, SignatureInv
  <2>3. reply.key = shown.path /\ reply.digest = Signable /\ shown.item = ctx.item
    BY <2>2 DEF Signature
  <2>4. ctx.reqType = "TRANSACTION" => TxReady
    BY <2>1 DEF IInv, SessionInv, ReadyInv
  <2>5. CASE ctx.reqType = "TRANSACTION"
    <3>1. reply.digest = ctx.sha
      BY <2>3, <2>5 DEF Signable
    <3>2. /\ Len(ctx.sha) >= 3
          /\ SubSeq(ctx.sha, Len(ctx.sha) - 2, Len(ctx.sha)) = SubSeq(ctx.raw, 2, 4)
          /\ ctx.sha[Len(ctx.sha) - 1] = ctx.item
      BY <2>1, <2>4, <2>5, ReadyItem DEF TxReady
    <3>3. QED
      BY <2>3, <2>5, <3>1, <3>2 DEF SignedAsShown
  <2>6. CASE ctx.reqType = "HASH"
    BY <2>3, <2>6 DEF SignedAsShown, Signable
  <2>7. QED
    BY <2>2, <2>5, <2>6
<1>2. QED
  BY <1>1, Invariance, PTL

\* A transaction no last chunk of which was refused is signed over its own
\* digest and nothing else.
THEOREM DigestsExact == Spec => []DigestExactUnlessSpoiled
<1>1. IInv => DigestExactUnlessSpoiled
  <2>1. SUFFICES ASSUME IInv, reply.digest # <<>>, ~spoiled,
                        ctx.reqType = "TRANSACTION"
                 PROVE  reply.digest = SubSeq(ctx.raw, 2, 4)
    BY DEF DigestExactUnlessSpoiled
  <2>2. TxReady /\ reply = Signature(ctx.path, Signable)
    BY <2>1 DEF IInv, SessionInv, ReadyInv, SignatureInv
  <2>3. QED
    BY <2>1, <2>2 DEF TxReady, Signature, Signable
<1>2. QED
  BY <1>1, Invariance, PTL

\* A device that owes nothing is not in the middle of a review; a state of
\* approval is what an exception while signing left, without a signature and
\* under the signing screen.
THEOREM IdleSettled == Spec => []IdleIsSettled
<1>1. IInv => IdleIsSettled
  BY DEF IInv, SessionInv, RequestInv, SignatureInv, ReplyDiscipline, Review, IdleIsSettled, TypeOK
<1>2. QED
  BY <1>1, Invariance, PTL

\* What the device remembers of a request fits together: a review is shown
\* for the request in the context, and what is signed was read whole.
THEOREM SessionConsistent == Spec => []SessionInv
<1>1. IInv => SessionInv
  BY DEF IInv
<1>2. QED
  BY <1>1, Invariance, PTL

\* Only the button under the setting changes it.
THEOREM SettingUsers == Spec => SettingIsTheUsers
<1> DEFINE A == nvram'.policy # nvram.policy => pc = "exchange" /\ screen = "settings"
<1>1. ASSUME IInv, [Next]_vars PROVE [A]_vars
  <2>1. CASE Launch
    BY <1>1, <2>1 DEF Launch, IInv, SessionInv, PlaceInv, TypeOK
  <2>2. CASE SwitchHashSigning
    BY <2>2 DEF SwitchHashSigning, Press
  <2>3. CASE HostCommand
    <3>1. UNCHANGED nvram
      BY <2>3 DEF HostCommand, Refuse, GetInfo, GetPublicKey, SignTxFirst,
                  SignTxNext, SignHash, FinishTx, Answer, Ask
    <3>2. QED
      BY <3>1
  <2>4. CASE Reset \/ Quit \/ Recv \/ Navigate \/ UserAnswer \/ Sign \/ SignThrows
    BY <2>4 DEF Reset, Quit, Recv, Navigate, UserAnswer, Deny, Approve,
                ValidatePublicKey, Sign, SignThrows
  <2>5. CASE UNCHANGED vars
    BY <2>5
  <2>6. QED
    BY <1>1, <2>1, <2>2, <2>3, <2>4, <2>5 DEF Next
<1>2. QED
  BY <1>1, Invariance, PTL DEF SettingIsTheUsers, Spec

-----------------------------------------------------------------------------
(* The application implements a signing device                             *)

\* What is shown when there is nothing to show is no item.
LEMMA NothingIsNoItem == NothingShown \notin [path : Path, item : Item]
BY ConstantsAssumption DEF NothingShown

\* A step after which there is neither a review of a request to sign nor a
\* signature in the host's hands is a Drop.
LEMMA DropStep ==
  ASSUME pc' # "heartbeat", screen' \notin {"txReview", "hashReview"},
         reply'.digest = <<>>
  PROVE  Device!Next
BY DEF Device!Next, Device!Drop

\* A step that leaves everything the device shows and says alone stutters.
LEMMA DeviceStutters ==
  ASSUME UNCHANGED <<screen, shown, reply>>, ctx'.reqType = ctx.reqType,
         pc = "heartbeat" <=> pc' = "heartbeat"
  PROVE  UNCHANGED Device!vars
BY DEF Device!vars, SignedItem

\* An answer ends what the host knew of the last request, and no review was
\* on the display.
LEMMA AnswerStep ==
  ASSUME IInv, NEW r, Answer(r), screen' \in {screen, "warning"}
  PROVE  Device!Next
<1>1. screen \notin Review /\ pc' = "loop" /\ reply' = NoReply
  BY DEF Answer, Listening, IInv, ReplyDiscipline
<1>2. QED
  BY <1>1, DropStep DEF Review, NoReply

\* A question is a Show, or the confirmation of a public key, which signs
\* nothing.
LEMMA AskStep ==
  ASSUME IInv, NEW sc \in Review, NEW item, Ask(sc, item),
         sc # "pubkeyReview" => ctx'.path \in Path /\ item \in Item
  PROVE  Device!Next
<1>1. /\ screen \notin Review /\ pc' = "loop" /\ reply' = NoReply
      /\ pc = "exchange" /\ screen' = sc
      /\ shown' = [path |-> ctx'.path, item |-> item]
  BY DEF Ask, Listening, IInv, ReplyDiscipline
<1>2. CASE sc = "pubkeyReview"
  BY <1>1, <1>2, DropStep DEF NoReply
<1>3. CASE sc # "pubkeyReview"
  <2>1. shown' \in [path : Path, item : Item]
    BY <1>1, <1>3
  <2>2. Device!Show(shown')
    BY <1>1, <1>3 DEF Device!Show, Review, NoReply
  <2>3. QED
    BY <2>1, <2>2 DEF Device!Next
<1>4. QED
  BY <1>2, <1>3

\* Every command is answered or opens a review.
LEMMA FinishTxStep ==
  ASSUME IInv, NEW base \in Context, NEW raw \in Seq(Token), FinishTx(base, raw)
  PROVE  Device!Next
<1>1. CASE ~Accepts(raw)
  BY <1>1, AnswerStep DEF FinishTx
<1>2. CASE Accepts(raw)
  <2>1. /\ Ask("txReview", Parse(base, raw).item)
        /\ ctx' = [Parse(base, raw) EXCEPT !.state = "PARSED"]
    BY <1>2 DEF FinishTx
  <2>2. /\ Parse(base, raw) \in Context /\ Parse(base, raw).item \in Item
        /\ Parse(base, raw).path \in Path
    BY <1>2, ParseType, FinishReady, AcceptedWhole DEF Item
  <2>3. ctx'.path \in Path
    BY <2>1, <2>2 DEF Context
  <2>4. QED
    BY <2>1, <2>2, <2>3, AskStep DEF Review
<1>3. QED
  BY <1>1, <1>2

\* A command is a Show, a Drop, or nothing to the device.
LEMMA HostCommandStep ==
  ASSUME IInv, NEW c \in Commands,
         \/ Refuse(c) \/ GetInfo(c) \/ GetPublicKey(c)
         \/ SignTxFirst(c) \/ SignTxNext(c) \/ SignHash(c)
  PROVE  Device!Next
<1>1. CASE Refuse(c) \/ GetInfo(c)
  BY <1>1, AnswerStep DEF Refuse, GetInfo
<1>2. CASE GetPublicKey(c)
  <2>1. \/ \E r : Answer(r) /\ screen' = screen
        \/ Ask("pubkeyReview", NoItem)
    BY <1>2 DEF GetPublicKey
  <2>2. QED
    BY <2>1, AnswerStep, AskStep DEF Review
<1>3. CASE SignTxFirst(c)
  <2>1. \/ \E r : Answer(r) /\ screen' = screen
        \/ FinishTx(FreshTx, c.data)
    BY <1>3 DEF SignTxFirst
  <2>2. QED
    BY <2>1, AnswerStep, FinishTxStep, DataType, FreshTxType
<1>4. CASE SignTxNext(c)
  <2>1. \/ \E r : Answer(r) /\ screen' = screen
        \/ FinishTx(ctx, ctx.raw \o c.data)
    BY <1>4 DEF SignTxNext
  <2>2. ctx \in Context /\ ctx.raw \in Seq(Token) /\ c.data \in Seq(Token)
    BY DataType DEF IInv, TypeOK, Context
  <2>3. ctx.raw \o c.data \in Seq(Token)
    BY <2>2, ConcatProperties
  <2>4. QED
    BY <2>1, <2>2, <2>3, AnswerStep, FinishTxStep
<1>5. CASE SignHash(c)
  <2> DEFINE path == IF c.data[1] \in Path THEN c.data[1] ELSE NoPath
             item == IF Len(c.data) = 1 THEN Padded ELSE c.data[2]
             fresh == [ZeroCtx EXCEPT !.reqType = "HASH"]
  <2>1. \/ \E r : Answer(r) /\ screen' \in {screen, "warning"}
        \/ /\ HashAccepts(c.data) /\ Ask("hashReview", item)
           /\ ctx' = [fresh EXCEPT !.path = path, !.item = item, !.state = "PARSED"]
    BY <1>5 DEF SignHash
  <2>2. HashAccepts(c.data) => path \in Path /\ item \in Item
    BY DEF HashAccepts, Item
  <2>3. ctx' = [fresh EXCEPT !.path = path, !.item = item, !.state = "PARSED"]
          => ctx'.path = path
    BY DEF ZeroCtx
  <2> HIDE DEF path, item, fresh
  <2>4. QED
    BY <2>1, <2>2, <2>3, AnswerStep, AskStep DEF Review
<1>6. QED
  BY <1>1, <1>2, <1>3, <1>4, <1>5

\* An approval is an Agree, and the signature that follows a Grant.
LEMMA ApproveStep == ASSUME IInv, Approve PROVE Device!Next
<1>1. /\ screen \in {"txReview", "hashReview"} /\ pc # "heartbeat"
      /\ pc' = "heartbeat" /\ UNCHANGED <<shown, reply>>
      /\ ctx'.reqType = ctx.reqType
  BY DEF Approve, Press, IInv, TypeOK, Context
<1>2. Device!Agree
  BY <1>1 DEF Device!Agree, SignedItem
<1>3. QED
  BY <1>2 DEF Device!Next

\* The signature: the item it stands for is the one agreed to.
LEMMA SignStep == ASSUME IInv, Sign PROVE Device!Next
<1>1. PICK r \in {Signature(ctx.path, Signable), Sw("SIGNATURE_FAIL")} : Respond(r)
  BY DEF Sign
<1>2. /\ pc = "heartbeat" /\ pc' = "exchange" /\ screen' = "menu" /\ reply' = r
      /\ ctx'.reqType = ctx.reqType
  BY <1>1 DEF Sign, Respond, Done, IInv, TypeOK, Context, ReplyDiscipline
<1>3. CASE r = Sw("SIGNATURE_FAIL")
  BY <1>2, <1>3, ResponseType, DropStep
<1>4. CASE r = Signature(ctx.path, Signable)
  <2>1. /\ ctx.reqType \in {"TRANSACTION", "HASH"}
        /\ shown = [path |-> ctx.path, item |-> ctx.item]
        /\ ctx.reqType = "TRANSACTION" => TxReady
    BY <1>2 DEF IInv, SessionInv, RequestInv, ReadyInv
  <2>2. Signable # <<>> /\ SignedItem(Signable) = ctx.item
    BY <2>1, SignableItem
  <2>3. SignedItem(Signable)' = SignedItem(Signable)
    BY <1>2 DEF SignedItem, Signable, Sign, Done, IInv, TypeOK, Context
  <2>4. reply'.digest = Signable /\ reply'.key = ctx.path
    BY <1>2, <1>4 DEF Signature
  <2>5. SignedItem(reply.digest)' = ctx.item
    BY <1>2, <2>2, <2>4 DEF SignedItem
  <2>6. Device!Grant
    BY <1>2, <2>1, <2>2, <2>4, <2>5 DEF Device!Grant
  <2>7. QED
    BY <2>6 DEF Device!Next
<1>5. QED
  BY <1>3, <1>4

\* Every step of the application is a step of the device, or changes nothing
\* of it.
LEMMA DeviceStep == IInv /\ [Next]_vars => [Device!Next]_(Device!vars)
<1> SUFFICES ASSUME IInv, [Next]_vars PROVE Device!Next \/ UNCHANGED Device!vars
  OBVIOUS
<1>1. CASE Launch \/ Reset \/ Quit
  BY <1>1, DropStep DEF Launch, Reset, Quit, Restart, NoReply
<1>2. CASE Recv
  <2>1. pc = "loop" /\ (screen \in Review <=> ioState = "RECEIVED") /\ out.digest = <<>>
    BY <1>2 DEF Recv, IInv, SessionInv, PlaceInv
  <2>2. CASE reply' = NoReply
    BY <1>2, <2>1, <2>2, DropStep, DeviceStutters DEF Recv, Restart, NoReply
  <2>3. CASE ioState = "READY" /\ out # NoReply
    BY <1>2, <2>1, <2>3, DropStep DEF Recv, Review
  <2>4. CASE ioState = "RECEIVED" \/ (ioState = "READY" /\ out = NoReply)
    BY <1>2, <2>1, <2>4, DeviceStutters DEF Recv
  <2>5. QED
    BY <1>2, <2>2, <2>3, <2>4 DEF Recv, Restart, IInv, TypeOK
<1>3. CASE HostCommand
  BY <1>3, HostCommandStep DEF HostCommand
<1>4. CASE Navigate
  <2>1. pc = "exchange" /\ screen \notin Review /\ screen' \notin Review
    BY <1>4 DEF Navigate, Press, Review
  <2>2. QED
    BY <1>4, <2>1 DEF Navigate, Device!vars, SignedItem, Review
<1>5. CASE SwitchHashSigning
  BY <1>5, DeviceStutters DEF SwitchHashSigning, Press
<1>6. CASE UserAnswer
  <2>1. CASE Approve
    BY <2>1, ApproveStep
  <2>2. CASE Deny
    <3>1. reply' = Sw("DENY") /\ pc' = "exchange" /\ screen' = "menu"
      BY <2>2 DEF Deny, Press, Respond, Review, IInv, ReplyDiscipline
    <3>2. QED
      BY <3>1, ResponseType, DropStep
  <2>3. ASSUME NEW choice \in BOOLEAN, ValidatePublicKey(choice)
        PROVE  Device!Next
    <3>1. ctx.path \in Path
      BY <2>3 DEF ValidatePublicKey, Press, IInv, ReviewMatchesContext, Path
    <3>2. /\ reply' \in {PublicKey(ctx.path), Sw("DENY")}
          /\ pc' = "exchange" /\ screen' = "menu"
      BY <2>3 DEF ValidatePublicKey, Press, Respond, Review, IInv, ReplyDiscipline
    <3>3. reply'.digest = <<>>
      BY <3>1, <3>2, ResponseType
    <3>4. QED
      BY <3>2, <3>3, DropStep
  <2>4. QED
    BY <1>6, <2>1, <2>2, <2>3 DEF UserAnswer
<1>7. CASE Sign
  BY <1>7, SignStep
<1>8. CASE SignThrows
  <2>1. reply' = Sw("EXCEPTION") /\ pc' = "loop" /\ screen' = "signing"
    BY <1>8 DEF SignThrows, Respond, IInv, SessionInv, PlaceInv, ReplyDiscipline
  <2>2. QED
    BY <2>1, ResponseType, DropStep
<1>9. CASE UNCHANGED vars
  BY <1>9, DeviceStutters DEF vars
<1>10. QED
  BY <1>1, <1>2, <1>3, <1>4, <1>5, <1>6, <1>7, <1>8, <1>9 DEF Next

\* The application implements the signing device: key and item of a
\* signature are what was shown and agreed to, and each agreement signs once.
THEOREM Implementation == Spec => ImplementsSigner
<1>1. Init => Device!Init
  BY DEF Init, Device!Init, NoReply
<1>2. QED
  BY <1>1, DeviceStep, Invariance, PTL DEF ImplementsSigner, Device!Spec, Spec

=============================================================================

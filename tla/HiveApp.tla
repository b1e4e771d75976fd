------------------------------ MODULE HiveApp ------------------------------
(***************************************************************************)
(* The Hive application of the Ledger device: the main loop, the half     *)
(* duplex I/O state machine, the dispatcher, every command handler, the    *)
(* screens the user acts on and the persistent setting.                    *)
(*                                                                         *)
(* The device is single threaded.  It leaves a handler only inside the     *)
(* SDK's io_exchange (and inside one heartbeat while it signs); there the  *)
(* host's next command, a button press, or the loss of the link can come   *)
(* in any order.  A step of this module is what the code does between two  *)
(* such points.                                                            *)
(*                                                                         *)
(* Data is abstract: a serialised transaction is a sequence of fields, the *)
(* tokens of the module of that name.                                      *)
(*                                                                         *)
(* A few definitions stand next to a mistaken variant of themselves, used  *)
(* by nothing here: the mistake its properties are there to notice.        *)
(***************************************************************************)
EXTENDS Integers, Sequences, Tokens

CONSTANTS
  MaxTx,        \* MAX_TRANSACTION_LEN, in fields
  Commands      \* the commands the host may send

NoPath == "noPath"
NoItem == "noItem"
Padded == "padded"    \* a digest of fewer than 32 bytes, completed by zeros

Ins == {"GET_PUBLIC_KEY", "SIGN_TRANSACTION", "GET_VERSION",
        "GET_APP_NAME", "SIGN_HASH", "GET_SETTINGS"}

P1First == 0
P1Subsequent == 128
P2Last == 0
P2More == 128

Byte == 0 .. 255

Command == [frame : {"ok", "badLength", "badCla"}, ins : Ins \cup {"OTHER"},
            p1 : Byte, p2 : Byte, data : Seq(Token)]

(***************************************************************************)
(* A response: its status word, the path of the key it discloses or that   *)
(* signed, and the sequence of hashed fields a signature covers (empty     *)
(* when the response carries no signature).  The status words other than   *)
(* SW_OK are named where they are sent, and told apart nowhere.            *)
(***************************************************************************)
Response == [sw : {"OK", "ERROR"}, key : Path \cup {NoPath},
             digest : Seq(Token \cup {Padded, NoItem})]

NoReply == [sw |-> "ERROR", key |-> "none", digest |-> <<>>]
Sw(sw) == [sw |-> IF sw = "OK" THEN "OK" ELSE "ERROR", key |-> NoPath,
           digest |-> <<>>]
PublicKey(p) == [sw |-> "OK", key |-> p, digest |-> <<>>]
Signature(p, d) == [sw |-> "OK", key |-> p, digest |-> d]

ASSUME ConstantsAssumption ==
  /\ MaxTx \in Nat
  /\ Commands \subseteq Command
  /\ OwnPath \cap ForeignPath = {}
  /\ {NoPath, "none"} \cap Path = {}

VARIABLES
  pc,       \* where the device is: between io_exchange and a handler
  ioState,  \* G_io_state
  out,      \* the response in G_io_apdu_buffer (NoReply: G_output_len is 0)
  owed,     \* commands taken minus responses sent, as the host counts them
  reply,    \* the response the host got for its last command
  screen,   \* the flow on the display
  shown,    \* the path and the item shown for the host's last command
  ctx,      \* G_context
  nvram,    \* N_settings
  spoiled   \* history: a last chunk was refused since the last first chunk

vars == <<pc, ioState, out, owed, reply, screen, shown, ctx, nvram, spoiled>>

Policy == {"DISABLED", "ENABLED"}
TxState == {"NONE", "TX_RECEIVING", "PARSED", "APPROVED"}
Request == {"PUBLIC_KEY", "TRANSACTION", "HASH"}
Item == Op \cup Digest \cup {Padded}
Review == {"pubkeyReview", "txReview", "hashReview"}
Screen == {"off", "menu", "about", "settings", "warning", "signing"}
            \cup Review

Context == [state : TxState, reqType : Request, path : Path \cup {NoPath},
            raw : Seq(Token), sha : Seq(Token), item : Item \cup {NoItem}]

\* G_context after explicit_bzero
ZeroCtx == [state |-> "NONE", reqType |-> "PUBLIC_KEY", path |-> NoPath,
            raw |-> <<>>, sha |-> <<>>, item |-> NoItem]

NothingShown == [path |-> NoPath, item |-> NoItem]

-----------------------------------------------------------------------------
(* transaction_parse                                                       *)

\* G_context once transaction_parse has run over raw
Parse(c, raw) ==
  [c EXCEPT !.raw = raw,
            !.sha = c.sha \o Hashed(raw),
            !.path = IF Fits(raw, 1) THEN raw[1] ELSE NoPath,
            !.item = IF Reach(raw) >= 3 THEN raw[3] ELSE NoItem]

-----------------------------------------------------------------------------
(* io_recv_command and io_send_response                                    *)

\* Mistaken: the response always waits for the next io_exchange.
RespondLater(r) ==
  /\ ioState' = "READY"
  /\ out' = r
  /\ UNCHANGED <<reply, owed>>

\* io_send_response: it answers at once while the exchange is asynchronous,
\* and leaves the response to the next io_exchange otherwise.
Respond(r) ==
  /\ ioState' = "READY"
  /\ IF ioState = "WAITING"
     THEN /\ out' = NoReply
          /\ reply' = r
          /\ owed' = owed - 1
     ELSE /\ out' = r
          /\ UNCHANGED <<reply, owed>>

\* main and app_main up to the loop: the context and the I/O state start
\* afresh, the setting stays.
Restart ==
  /\ pc' = "loop"
  /\ ioState' = "READY"
  /\ out' = NoReply
  /\ owed' = 0
  /\ reply' = NoReply
  /\ screen' = "menu"
  /\ shown' = NothingShown
  /\ ctx' = ZeroCtx
  /\ UNCHANGED spoiled

\* Mistaken: every launch writes the default setting.
ForgetSetting ==
  /\ pc = "exit"
  /\ Restart
  /\ nvram' = [initialized |-> TRUE, policy |-> "DISABLED"]

\* Opening the application.  The very first time the setting is written.
Launch ==
  /\ pc = "exit"
  /\ Restart
  /\ nvram' = IF nvram.initialized THEN nvram
              ELSE [initialized |-> TRUE, policy |-> "DISABLED"]

\* The link goes down (EXCEPTION_IO_RESET): every blocking call throws it,
\* app_main rethrows it and main starts over.
Reset ==
  /\ pc \in {"loop", "exchange", "heartbeat"}
  /\ Restart
  /\ UNCHANGED nvram

\* io_recv_command.  READY: the pending response goes out and the device
\* waits for a command.  RECEIVED: the handler left the answer to the user.
\* WAITING would be an error, on which app_main returns and main starts over.
Recv ==
  /\ pc = "loop"
  /\ IF ioState = "WAITING"
     THEN Restart /\ UNCHANGED nvram
     ELSE /\ pc' = "exchange"
          /\ ioState' = IF ioState = "READY" THEN "RECEIVED" ELSE "WAITING"
          /\ IF ioState = "READY" /\ out # NoReply
             THEN reply' = out /\ owed' = owed - 1
             ELSE UNCHANGED <<reply, owed>>
          /\ UNCHANGED <<out, screen, shown, ctx, nvram, spoiled>>

-----------------------------------------------------------------------------
(* apdu_parser and apdu_dispatcher                                         *)

\* The host sends its next command once the last one is answered: the SDK
\* drops what arrives before.
Listening == pc = "exchange" /\ owed = 0

\* A command arrives and its handler answers r.
Answer(r) ==
  /\ Listening
  /\ pc' = "loop"
  /\ ioState' = "READY"
  /\ out' = r
  /\ owed' = 1
  /\ reply' = NoReply
  /\ shown' = NothingShown
  /\ UNCHANGED nvram

\* A command arrives and its handler shows sc instead of answering.
Ask(sc, item) ==
  /\ Listening
  /\ pc' = "loop"
  /\ ioState' = "RECEIVED"
  /\ out' = out
  /\ owed' = 1
  /\ reply' = NoReply
  /\ screen' = sc
  /\ shown' = [path |-> ctx'.path, item |-> item]
  /\ UNCHANGED nvram

\* SIGN_TRANSACTION is refused only if both parameters are wrong.
BadParams(c) ==
  \/ /\ c.ins \in {"GET_VERSION", "GET_APP_NAME", "SIGN_HASH", "GET_SETTINGS"}
     /\ c.p1 # 0 \/ c.p2 # 0
  \/ c.ins = "GET_PUBLIC_KEY" /\ (c.p1 > 1 \/ c.p2 > 0)
  \/ /\ c.ins = "SIGN_TRANSACTION"
     /\ c.p1 \notin {P1First, P1Subsequent}
     /\ c.p2 \notin {P2Last, P2More}

NoData(c) ==
  /\ c.ins \in {"GET_PUBLIC_KEY", "SIGN_TRANSACTION", "SIGN_HASH"}
  /\ c.data = <<>>

Dispatched(c, ins) == /\ c.frame = "ok" /\ c.ins = ins
                      /\ ~BadParams(c) /\ ~NoData(c)

\* Everything the parser and the dispatcher answer themselves
Refuse(c) ==
  /\ \/ c.frame = "badLength" /\ Answer(Sw("WRONG_DATA_LENGTH"))
     \/ c.frame = "badCla" /\ Answer(Sw("CLA_NOT_SUPPORTED"))
     \/ /\ c.frame = "ok"
        /\ \/ c.ins \notin Ins /\ Answer(Sw("INS_NOT_SUPPORTED"))
           \/ BadParams(c) /\ Answer(Sw("WRONG_P1P2"))
           \/ ~BadParams(c) /\ NoData(c) /\ Answer(Sw("WRONG_DATA_LENGTH"))
  /\ UNCHANGED <<screen, ctx, spoiled>>

-----------------------------------------------------------------------------
(* The handlers                                                            *)

\* handler_get_version, handler_get_app_name, handler_get_settings
GetInfo(c) ==
  /\ \E ins \in {"GET_VERSION", "GET_APP_NAME", "GET_SETTINGS"} :
       Dispatched(c, ins)
  /\ Answer(Sw("OK"))
  /\ UNCHANGED <<screen, ctx, spoiled>>

\* handler_get_public_key: it clears the context in every state.
GetPublicKey(c) ==
  LET path == c.data[1]
      Fresh(p) == [ZeroCtx EXCEPT !.reqType = "PUBLIC_KEY", !.path = p]
  IN /\ Dispatched(c, "GET_PUBLIC_KEY")
     /\ UNCHANGED spoiled
     /\ \/ /\ path \notin Path
           /\ ctx' = Fresh(NoPath)
           /\ Answer(Sw("WRONG_BIP32_PATH"))
           /\ UNCHANGED screen
        \/ /\ path \in ForeignPath           \* the derivation throws
           /\ ctx' = Fresh(path)
           /\ Answer(Sw("EXCEPTION"))
           /\ UNCHANGED screen
        \/ /\ path \in OwnPath /\ c.p1 = 0
           /\ ctx' = Fresh(path)
           /\ Answer(PublicKey(path))
           /\ UNCHANGED screen
        \/ /\ path \in OwnPath /\ c.p1 = 1
           /\ ctx' = Fresh(path)
           /\ Ask("pubkeyReview", NoItem)

\* The end of handler_sign_tx, after the last chunk is in: the whole of raw
\* is parsed over whatever the running hash holds.  base is G_context then.
\* On an error the state stays what it was.
FinishTx(base, raw) ==
  LET parsed == Parse(base, raw)
  IN \/ /\ ~Accepts(raw)
        /\ ctx' = parsed
        /\ spoiled' = (base.state = "TX_RECEIVING")
        /\ Answer(Sw(IF Throws(raw) THEN "EXCEPTION" ELSE "TX_PARSING_FAIL"))
        /\ UNCHANGED screen
     \/ /\ Accepts(raw)
        /\ ctx' = [parsed EXCEPT !.state = "PARSED"]
        /\ spoiled' = (spoiled /\ base.state = "TX_RECEIVING")
        /\ Ask("txReview", parsed.item)

More(c) == (c.p2 \div P2More) % 2 = 1

\* Mistaken: the running hash is not initialised again.
KeepHash == [ZeroCtx EXCEPT !.reqType = "TRANSACTION", !.sha = ctx.sha]

\* The context a transaction starts with: cleared, sha256 initialised
FreshTx == [ZeroCtx EXCEPT !.reqType = "TRANSACTION"]

\* Mistaken: one field more than raw_tx has room for
OverlongByTwo(raw) == Len(raw) > MaxTx + 1

\* The room left in raw_tx is exceeded.
Overlong(raw) == Len(raw) > MaxTx

\* handler_sign_tx, first chunk
SignTxFirst(c) ==
  /\ Dispatched(c, "SIGN_TRANSACTION")
  /\ c.p1 = P1First
  /\ \/ /\ ctx.state # "NONE"
        /\ Answer(Sw("BAD_STATE"))
        /\ UNCHANGED <<screen, ctx, spoiled>>
     \/ /\ ctx.state = "NONE" /\ Overlong(c.data)
        /\ ctx' = FreshTx
        /\ Answer(Sw("WRONG_TX_LENGTH"))
        /\ UNCHANGED <<screen, spoiled>>
     \/ /\ ctx.state = "NONE" /\ ~Overlong(c.data) /\ More(c)
        /\ ctx' = [FreshTx EXCEPT !.raw = c.data, !.state = "TX_RECEIVING"]
        /\ spoiled' = FALSE
        /\ Answer(Sw("OK"))
        /\ UNCHANGED screen
     \/ /\ ctx.state = "NONE" /\ ~Overlong(c.data) /\ ~More(c)
        /\ FinishTx(FreshTx, c.data)

\* handler_sign_tx, any other chunk: too long a chunk is dropped, but what
\* came before stays and the host may go on.
SignTxNext(c) ==
  LET raw == ctx.raw \o c.data
  IN /\ Dispatched(c, "SIGN_TRANSACTION")
     /\ c.p1 # P1First
     /\ \/ /\ ctx.state # "TX_RECEIVING"
           /\ Answer(Sw("BAD_STATE"))
           /\ UNCHANGED <<screen, ctx, spoiled>>
        \/ /\ ctx.state = "TX_RECEIVING" /\ Overlong(raw)
           /\ Answer(Sw("WRONG_TX_LENGTH"))
           /\ UNCHANGED <<screen, ctx, spoiled>>
        \/ /\ ctx.state = "TX_RECEIVING" /\ ~Overlong(raw) /\ More(c)
           /\ ctx' = [ctx EXCEPT !.raw = raw]
           /\ Answer(Sw("OK"))
           /\ UNCHANGED <<screen, spoiled>>
        \/ /\ ctx.state = "TX_RECEIVING" /\ ~Overlong(raw) /\ ~More(c)
           /\ FinishTx(ctx, raw)

\* Mistaken: the setting is not looked at.
AlwaysAllowed == TRUE

\* The setting, as SIGN_HASH reads it: anything but DISABLED allows.
HashSigningAllowed == nvram.policy # "DISABLED"

\* handler_sign_hash
SignHash(c) ==
  LET fresh == [ZeroCtx EXCEPT !.reqType = "HASH"]
      path == IF c.data[1] \in Path THEN c.data[1] ELSE NoPath
      item == IF Len(c.data) = 1 THEN Padded ELSE c.data[2]
  IN /\ Dispatched(c, "SIGN_HASH")
     /\ UNCHANGED spoiled
     /\ \/ /\ ctx.state # "NONE"
           /\ Answer(Sw("BAD_STATE"))
           /\ UNCHANGED <<screen, ctx>>
        \/ /\ ctx.state = "NONE" /\ ~HashSigningAllowed
           /\ ctx' = fresh
           /\ screen' = "warning"
           /\ Answer(Sw("HASH_SIGNING_DISABLED"))
        \/ /\ ctx.state = "NONE" /\ HashSigningAllowed /\ ~HashAccepts(c.data)
           /\ ctx' = [fresh EXCEPT !.path = path]
           /\ Answer(Sw("HASH_PARSING_FAIL"))
           /\ UNCHANGED screen
        \/ /\ ctx.state = "NONE" /\ HashSigningAllowed /\ HashAccepts(c.data)
           /\ ctx' = [fresh EXCEPT !.path = path, !.item = item,
                                   !.state = "PARSED"]
           /\ Ask("hashReview", item)

HostCommand ==
  \E c \in Commands : \/ Refuse(c)
                      \/ GetInfo(c)
                      \/ GetPublicKey(c)
                      \/ SignTxFirst(c)
                      \/ SignTxNext(c)
                      \/ SignHash(c)

-----------------------------------------------------------------------------
(* The user: menus, settings and the answer to a review                    *)

Press(from, to) == pc = "exchange" /\ screen \in from /\ screen' = to

\* The menus, "Back" and the warning
Navigate ==
  /\ \/ Press({"menu"}, "settings")
     \/ Press({"menu"}, "about")
     \/ Press({"settings", "about", "warning"}, "menu")
  /\ UNCHANGED <<pc, ioState, out, owed, reply, shown, ctx, nvram, spoiled>>

\* switch_settings_hash_signing
SwitchHashSigning ==
  /\ Press({"settings"}, "settings")
  /\ nvram' = [nvram EXCEPT !.policy =
                 IF nvram.policy = "ENABLED" THEN "DISABLED" ELSE "ENABLED"]
  /\ UNCHANGED <<pc, ioState, out, owed, reply, shown, ctx, spoiled>>

\* "Quit" in the menu, or the power going at any moment: RAM is lost, the
\* setting is not.
Quit ==
  /\ pc # "exit"
  /\ pc' = "exit"
  /\ screen' = "off"
  /\ ioState' = "READY"
  /\ out' = NoReply
  /\ owed' = 0
  /\ reply' = NoReply
  /\ shown' = NothingShown
  /\ ctx' = ZeroCtx
  /\ UNCHANGED <<nvram, spoiled>>

\* ui_action_validate_pubkey
ValidatePublicKey(choice) ==
  /\ Press({"pubkeyReview"}, "menu")
  /\ Respond(IF choice THEN PublicKey(ctx.path) ELSE Sw("DENY"))
  /\ UNCHANGED <<pc, shown, ctx, nvram, spoiled>>

\* Mistaken: the operation alone is signed.
SignItem == <<ctx.item>>

\* What cx_hash_final yields, or the hash of the request
Signable == IF ctx.reqType = "TRANSACTION" THEN ctx.sha ELSE <<ctx.item>>

\* Mistaken: the state is not put back.
NotDone == ctx

\* What both validate callbacks leave behind, whatever the choice was
Done == [ctx EXCEPT !.state = "NONE"]

\* Mistaken: a refusal is answered with a signature.
DenySigns ==
  /\ Press({"txReview", "hashReview"}, "menu")
  /\ Respond(Signature(ctx.path, Signable))
  /\ ctx' = Done
  /\ UNCHANGED <<pc, shown, nvram, spoiled>>

\* ui_action_validate_transaction and ui_action_validate_hash, refusal
Deny ==
  /\ Press({"txReview", "hashReview"}, "menu")
  /\ Respond(Sw("DENY"))
  /\ ctx' = Done
  /\ UNCHANGED <<pc, shown, nvram, spoiled>>

\* The same, approval, up to the heartbeat that refreshes the display:
\* events come in there, the loss of the link among them.
Approve ==
  /\ Press({"txReview", "hashReview"}, "signing")
  /\ pc' = "heartbeat"
  /\ ctx' = [ctx EXCEPT !.state = "APPROVED"]
  /\ UNCHANGED <<ioState, out, owed, reply, shown, nvram, spoiled>>

\* ... and from the heartbeat on: crypto_sign_digest signs or gives up
\* (for a foreign path the derivation throws before that),
Sign ==
  /\ pc = "heartbeat"
  /\ ctx.path \in OwnPath
  /\ \E r \in {Signature(ctx.path, Signable), Sw("SIGNATURE_FAIL")} : Respond(r)
  /\ pc' = "exchange"
  /\ screen' = "menu"
  /\ ctx' = Done
  /\ UNCHANGED <<shown, nvram, spoiled>>

\* Mistaken: the exception is caught and nobody answers.
SwallowException ==
  /\ pc = "heartbeat"
  /\ ioState' = "RECEIVED"
  /\ pc' = "loop"
  /\ UNCHANGED <<out, owed, reply, screen, shown, ctx, nvram, spoiled>>

\* ... or it throws, whatever the path: in the derivation, or in the signing
\* loop, whose exceptions crypto_sign_digest throws again (module Signature,
\* phase "thrown").  The exception leaves the callback, its code is the
\* answer, and neither the state nor the screen is put back.
SignThrows ==
  /\ pc = "heartbeat"
  /\ Respond(Sw("EXCEPTION"))
  /\ pc' = "loop"
  /\ UNCHANGED <<screen, shown, ctx, nvram, spoiled>>

UserAnswer == Deny \/ Approve \/ \E choice \in BOOLEAN : ValidatePublicKey(choice)

-----------------------------------------------------------------------------
Init ==
  /\ pc = "exit"
  /\ ioState = "READY"
  /\ out = NoReply
  /\ owed = 0
  /\ reply = NoReply
  /\ screen = "off"
  /\ shown = NothingShown
  /\ ctx = ZeroCtx
  /\ nvram = [initialized |-> FALSE, policy |-> "DISABLED"]
  /\ spoiled = FALSE

Next ==
  \/ Launch \/ Reset \/ Quit
  \/ Recv \/ HostCommand
  \/ Navigate \/ SwitchHashSigning
  \/ UserAnswer \/ Sign \/ SignThrows

Spec == Init /\ [][Next]_vars

\* The device runs on whenever it is not blocked, and an attended device is
\* answered: the user does not leave a review on the display for ever.
FairSpec == /\ Spec
            /\ WF_vars(Recv)
            /\ WF_vars(Sign \/ SignThrows)
            /\ WF_vars(UserAnswer)

-----------------------------------------------------------------------------
(* What must hold                                                          *)

\* Every variable has its type; raw_tx never outgrows its buffer.
TypeOK ==
  /\ pc \in {"exit", "loop", "exchange", "heartbeat"}
  /\ ioState \in {"READY", "RECEIVED", "WAITING"}
  /\ out \in Response \cup {NoReply}
  /\ reply \in Response \cup {NoReply}
  /\ owed \in 0 .. 1
  /\ screen \in Screen
  /\ shown \in [path : Path \cup {NoPath}, item : Item \cup {NoItem}]
  /\ ctx \in Context
  /\ Len(ctx.raw) <= MaxTx
  /\ nvram \in [initialized : BOOLEAN, policy : Policy]
  /\ spoiled \in BOOLEAN

\* One response for each command, over the three I/O states: the device
\* owes a response exactly while one is about to go out or while it asks
\* the user, who then can answer; it never sends a left-over response again,
\* and io_recv_command never meets the state it treats as an error.
ReplyDiscipline ==
  /\ pc = "loop" => /\ ioState # "WAITING"
                    /\ ioState = "READY" => (owed = 1 <=> out # NoReply)
                    /\ ioState = "RECEIVED" => owed = 1 /\ screen \in Review
  /\ pc = "exchange" => /\ owed = 1 <=> screen \in Review
                        /\ owed = 1 <=> ioState = "WAITING"
  /\ pc = "heartbeat" => owed = 1 /\ ioState = "WAITING"

\* A review stands on the display only over the request it was opened for,
\* and shows the path and the operation or digest that are to be signed;
\* a digest is reviewed only while the user's setting allows it.
ReviewMatchesContext ==
  /\ screen = "pubkeyReview" =>
       /\ ctx.reqType = "PUBLIC_KEY" /\ ctx.state = "NONE"
       /\ ctx.path = shown.path /\ shown.path \in OwnPath
  /\ screen = "txReview" =>
       /\ ctx.reqType = "TRANSACTION" /\ ctx.state = "PARSED"
       /\ Accepts(ctx.raw)
       /\ shown = [path |-> ctx.raw[1], item |-> ctx.raw[3]]
       /\ shown = [path |-> ctx.path, item |-> ctx.item]
  /\ screen = "hashReview" =>
       /\ ctx.reqType = "HASH" /\ ctx.state = "PARSED"
       /\ nvram.policy = "ENABLED"
       /\ shown = [path |-> ctx.path, item |-> ctx.item]

\* Every signature the host gets was made with the key the user was shown,
\* over a digest that ends with the transaction whose operation was shown
\* (or over the digest that was shown).
SignedAsShown ==
  LET d == reply.digest
      n == Len(d)
  IN d # <<>> =>
       /\ reply.key = shown.path
       /\ ctx.reqType = "TRANSACTION" =>
            /\ n >= 3
            /\ SubSeq(d, n - 2, n) = SubSeq(ctx.raw, 2, 4)
            /\ d[n - 1] = shown.item
       /\ ctx.reqType # "TRANSACTION" => d = <<shown.item>>

\* A transaction no last chunk of which was refused is signed over its own
\* digest and nothing else, however it was cut into chunks and whatever the
\* device was asked before.
DigestExactUnlessSpoiled ==
  reply.digest # <<>> /\ ctx.reqType = "TRANSACTION" /\ ~spoiled
    => reply.digest = SubSeq(ctx.raw, 2, 4)

\* A device that owes nothing is not in the middle of a review: it is ready
\* for a new request, collects the chunks of one, or an exception cut an
\* approval short; then no signature was given and the signing screen still
\* stands, whatever the host asked since, for the state to be told by.
IdleIsSettled ==
  pc = "exchange" /\ owed = 0 =>
    /\ ctx.state # "PARSED"
    /\ ctx.state = "APPROVED" => screen = "signing" /\ reply.digest = <<>>
    /\ ctx.state = "TX_RECEIVING" => /\ ctx.reqType = "TRANSACTION"
                                     /\ ctx.raw # <<>>

\* A transaction that is under review or about to be signed: parsed from
\* raw_tx, with the digest of raw_tx as the end of the running hash.
TxReady ==
  LET n == Len(ctx.sha)
  IN /\ Accepts(ctx.raw)
     /\ ctx.path = ctx.raw[1] /\ ctx.item = ctx.raw[3]
     /\ n >= 3 /\ SubSeq(ctx.sha, n - 2, n) = SubSeq(ctx.raw, 2, 4)
     /\ ~spoiled => ctx.sha = SubSeq(ctx.raw, 2, 4)

\* What ties the screen, the I/O state and the context together between the
\* points where the invariants above look: it makes them inductive.
PlaceInv ==
  /\ pc = "exit" <=> screen = "off"
  /\ pc = "loop" => (screen \in Review <=> ioState = "RECEIVED")
  /\ pc = "heartbeat" => screen = "signing"
  /\ out.digest = <<>>
  /\ ~nvram.initialized => nvram.policy = "DISABLED" /\ pc = "exit"

RequestInv ==
  /\ ctx.state \in {"PARSED", "APPROVED"} => ctx.path \in Path
  /\ pc = "heartbeat" => /\ ctx.state = "APPROVED"
                         /\ ctx.reqType \in {"TRANSACTION", "HASH"}
                         /\ shown = [path |-> ctx.path, item |-> ctx.item]
  /\ ctx.state = "APPROVED" => screen = "signing"
  /\ ctx.state = "PARSED" => screen \in {"txReview", "hashReview"}
  /\ ctx.state = "TX_RECEIVING" => /\ ctx.reqType = "TRANSACTION"
                                   /\ ctx.raw # <<>>
                                   /\ ~spoiled => ctx.sha = <<>>

ReadyInv ==
  /\ ctx.reqType = "TRANSACTION"
  /\ ctx.state = "PARSED" \/ pc = "heartbeat" \/ reply.digest # <<>>
  => TxReady

SignatureInv ==
  reply.digest # <<>> => /\ pc = "exchange" /\ owed = 0
                         /\ ctx.state = "NONE"
                         /\ ctx.reqType \in {"TRANSACTION", "HASH"}
                         /\ reply = Signature(ctx.path, Signable)
                         /\ shown = [path |-> ctx.path, item |-> ctx.item]

SessionInv == PlaceInv /\ RequestInv /\ ReadyInv /\ SignatureInv

IInv == TypeOK /\ ReplyDiscipline /\ ReviewMatchesContext /\ SessionInv

\* Over restarts, power losses and launches too, the setting for hash
\* signing changes only when the user presses the button under it.
SettingIsTheUsers ==
  [][nvram'.policy # nvram.policy => pc = "exchange" /\ screen = "settings"]_vars

\* The item a digest stands for: the operation between the header and the
\* extensions of a transaction, or the digest itself.
SignedItem(d) == IF ctx.reqType = "TRANSACTION" THEN d[Len(d) - 1] ELSE d[1]

\* The application implements a signing device: what is signed is what was
\* shown and agreed to, key and item, and each agreement signs once.
Device == INSTANCE Signer WITH
  Items <- [path : Path, item : Item],
  Nothing <- NothingShown,
  stage <- IF pc = "heartbeat" THEN "agreed"
           ELSE IF screen \in {"txReview", "hashReview"} THEN "review"
           ELSE "idle",
  item <- IF pc = "heartbeat" \/ screen \in {"txReview", "hashReview"}
          THEN shown ELSE NothingShown,
  signed <- IF reply.digest = <<>> THEN NothingShown
            ELSE [path |-> reply.key, item |-> SignedItem(reply.digest)]

ImplementsSigner == Device!Spec

\* Every command is answered, or the link goes down.
Answered == owed = 1 ~> owed = 0

-----------------------------------------------------------------------------
(* What the documents say and the code does not do                         *)

\* COMMANDS.md: a transaction with extensions is rejected.
ExtensionsRejected == screen = "txReview" => ctx.raw[4] = "ext0"

\* COMMANDS.md: SIGN_TRANSACTION signs the provided transaction.
DigestIsTheTransaction ==
  reply.digest # <<>> /\ ctx.reqType = "TRANSACTION"
    => reply.digest = SubSeq(ctx.raw, 2, 4)
=============================================================================

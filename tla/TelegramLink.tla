---------------------------- MODULE TelegramLink ----------------------------
(***************************************************************************)
(* Linking a Telegram chat to an account (services/telegram_service.go,    *)
(* bot/bot.go, db/repositories/telegram_repo.go).  The web page stores a   *)
(* verification code in the account's telegram_users row; the chat sends   *)
(* it to the bot, which finds the row by the code and marks it verified.   *)
(* The bot runs every update in a goroutine of its own, and each database  *)
(* call of a handler is a step of its own.                                 *)
(*                                                                         *)
(* Codes are random; a fresh one is the next number, which leaves out that *)
(* two of the 2^32 coincide.  An account has one monitor to toggle.        *)
(* Operators named Bug... are mutants of the definition after them.        *)
(***************************************************************************)
EXTENDS Integers, Sequences

CONSTANTS
  Users,
  Chats,         \* Telegram accounts, each with its private chat
  Names,         \* Telegram usernames
  NoName,        \* the username of an account that has none
  NameOf,        \* NameOf[c]: the username Telegram reports for chat c
  NoChat,        \* telegram_chat_id is NULL
  NoUser,
  Handlers,      \* bot goroutines
  MaxCodes,      \* bound: codes issued in a behaviour
  MaxCommands,   \* bound: bot commands in a behaviour
  MaxFaults      \* bound: database calls of the bot that fail

ASSUME LinkAssumption ==
  /\ NoName \notin Names /\ NoChat \notin Chats /\ NoUser \notin Users
  /\ NameOf \in [Chats -> Names \cup {NoName}]
  /\ MaxCodes \in Nat /\ MaxCommands \in Nat /\ MaxFaults \in Nat

VARIABLES
  row,        \* telegram_users; code 0 is NULL
  muted,      \* telegram_subscriptions: notifications of the account's monitor are off
  bot,        \* bot[h]: the command of handler h and its next database call
  issuedTo,   \* the codes issued, in order, and the account each was issued to
  commands, faults,
  uses,       \* history: how often a code verified an account
  accepted,   \* history: the code that last verified the account ...
  verifier    \* history: ... and the chat that sent it

histories == <<uses, accepted, verifier>>
vars == <<row, muted, bot, issuedTo, commands, faults, histories>>

Codes == DOMAIN issuedTo
Latest(u) == {c \in Codes : issuedTo[c] = u /\ \A d \in Codes : issuedTo[d] = u => d <= c}

NoRow == [name |-> NoName, code |-> 0, chat |-> NoChat, verified |-> FALSE]
Quiet == [pc |-> "idle", chat |-> NoChat, code |-> 0, user |-> NoUser, mute |-> FALSE]

Init ==
  /\ row = [u \in Users |-> NoRow] /\ muted = [u \in Users |-> FALSE]
  /\ bot = [h \in Handlers |-> Quiet]
  /\ issuedTo = << >> /\ commands = 0 /\ faults = 0
  /\ uses = [c \in 1..MaxCodes |-> 0]
  /\ accepted = [u \in Users |-> 0] /\ verifier = [u \in Users |-> NoChat]

At(h, pc) == bot[h].pc = pc
Go(h, pc, u) == bot' = [bot EXCEPT ![h].pc = pc, ![h].user = u]
Reply(h) == bot' = [bot EXCEPT ![h] = Quiet]

-----------------------------------------------------------------------------
(* The queries of the repository: the rows each selects.                   *)

ByName(name) == {u \in Users : row[u] # NoRow /\ row[u].name = name}
BugByCode(code) == {u \in Users : row[u].code # 0}
ByCode(code) == {u \in Users : code # 0 /\ row[u].code = code /\ ~row[u].verified}
ByChat(chat) == {u \in Users : row[u].chat = chat}

(* telegram_chat_id is UNIQUE: an update that repeats one fails.           *)
Free(chat, u) == \A v \in Users \ {u} : row[v].chat # chat

-----------------------------------------------------------------------------
BugInitiateLink(u, name) ==
  /\ Len(issuedTo) < MaxCodes
  /\ issuedTo' = Append(issuedTo, u)
  /\ row' = [row EXCEPT ![u] = [@ EXCEPT !.name = name, !.code = Len(issuedTo')]]
  /\ UNCHANGED <<muted, bot, commands, faults, histories>>

(* InitiateLink: one upsert.  The code, the name and the flag are new; the *)
(* chat of an earlier link stays.  (The unique index on the name that the  *)
(* code looks for is in neither schema file.)                              *)
InitiateLink(u, name) ==
  /\ Len(issuedTo) < MaxCodes
  /\ issuedTo' = Append(issuedTo, u)
  /\ row' = [row EXCEPT ![u] = [@ EXCEPT !.name = name, !.code = Len(issuedTo'),
                                         !.verified = FALSE]]
  /\ UNCHANGED <<muted, bot, commands, faults, histories>>

-----------------------------------------------------------------------------
(* The bot.                                                                *)

(* A chat sends a command or presses a button: /start, /verify <code> or   *)
(* the toggle, which withAuth wraps.                                       *)
Command(h, chat, pc, code) ==
  /\ At(h, "idle") /\ commands < MaxCommands /\ commands' = commands + 1
  /\ bot' = [bot EXCEPT ![h] = [Quiet EXCEPT !.pc = pc, !.chat = chat, !.code = code]]
  /\ UNCHANGED <<row, muted, issuedTo, faults, histories>>

(* A handler's query finds no row: it answers.  (The second look of the    *)
(* toggle dereferences the missing row; the panic is recovered.)           *)
Found(h) ==
  CASE At(h, "start") -> ByName(NameOf[bot[h].chat])
    [] At(h, "verify") -> ByCode(bot[h].code)
    [] At(h, "auth") -> {u \in ByChat(bot[h].chat) : row[u].verified}
    [] At(h, "toggle") -> ByChat(bot[h].chat)
    [] OTHER -> {}

AfterFound(pc) ==
  CASE pc = "start" -> "rebind" [] pc = "verify" -> "confirm"
    [] pc = "auth" -> "toggle" [] pc = "toggle" -> "status"

Looking(h) == bot[h].pc \in {"start", "verify", "auth", "toggle"}

(* The query returns one of the rows it selects.                           *)
Lookup(h) ==
  /\ Looking(h)
  /\ IF Found(h) = {} THEN Reply(h)
     ELSE \E u \in Found(h) : Go(h, AfterFound(bot[h].pc), u)
  /\ UNCHANGED <<row, muted, issuedTo, commands, faults, histories>>

(* UpdateChatID; handleStart ignores its error.                            *)
Rebind(h) ==
  /\ At(h, "rebind")
  /\ row' = IF Free(bot[h].chat, bot[h].user)
            THEN [row EXCEPT ![bot[h].user].chat = bot[h].chat] ELSE row
  /\ Reply(h)
  /\ UNCHANGED <<muted, issuedTo, commands, faults, histories>>

BugConfirm(h) ==
  /\ At(h, "confirm") /\ Reply(h)
  /\ UNCHANGED <<row, muted, issuedTo, commands, faults, histories>>

(* VerifyTelegramUser, by the account the code was found for.              *)
Confirm(h) ==
  LET u == bot[h].user
      chat == bot[h].chat
  IN  /\ At(h, "confirm")
      /\ IF Free(chat, u)
         THEN /\ row' = [row EXCEPT ![u] = [name |-> NameOf[chat], code |-> 0,
                                            chat |-> chat, verified |-> TRUE]]
              /\ uses' = [uses EXCEPT ![bot[h].code] = @ + 1]
              /\ accepted' = [accepted EXCEPT ![u] = bot[h].code]
              /\ verifier' = [verifier EXCEPT ![u] = chat]
         ELSE UNCHANGED <<row, histories>>
      /\ Reply(h)
      /\ UNCHANGED <<muted, issuedTo, commands, faults>>

(* GetNotificationStatus, for the value to store the opposite of.          *)
ReadStatus(h) ==
  /\ At(h, "status")
  /\ bot' = [bot EXCEPT ![h].pc = "upsert", ![h].mute = ~muted[bot[h].user]]
  /\ UNCHANGED <<row, muted, issuedTo, commands, faults, histories>>

(* UpsertSubscription.                                                     *)
StoreStatus(h) ==
  /\ At(h, "upsert")
  /\ muted' = [muted EXCEPT ![bot[h].user] = bot[h].mute]
  /\ Reply(h)
  /\ UNCHANGED <<row, issuedTo, commands, faults, histories>>

(* A database call fails.  Every handler answers, except that a failed     *)
(* GetNotificationStatus reads as "off" and the toggle goes on.            *)
CallFails(h) ==
  /\ ~At(h, "idle") /\ faults < MaxFaults /\ faults' = faults + 1
  /\ IF At(h, "status")
     THEN bot' = [bot EXCEPT ![h].pc = "upsert", ![h].mute = FALSE]
     ELSE Reply(h)
  /\ UNCHANGED <<row, muted, issuedTo, commands, histories>>

Handle(h) == Lookup(h) \/ Rebind(h) \/ Confirm(h) \/ ReadStatus(h) \/ StoreStatus(h)

Next ==
  \/ \E u \in Users, name \in Names : InitiateLink(u, name)
  \/ \E h \in Handlers :
       \/ Handle(h) \/ CallFails(h)
       \/ \E chat \in Chats :
            \/ Command(h, chat, "start", 0) \/ Command(h, chat, "auth", 0)
            \/ \E code \in Codes : Command(h, chat, "verify", code)

Spec == Init /\ [][Next]_vars

(* The bot's goroutines run; chats and the web page owe nothing.           *)
FairSpec == Spec /\ \A h \in Handlers : WF_vars(Handle(h))

-----------------------------------------------------------------------------
Row == [name : Names \cup {NoName}, code : Nat, chat : Chats \cup {NoChat},
        verified : BOOLEAN]
BotPCs == {"idle", "start", "verify", "auth", "toggle", "rebind", "confirm", "status", "upsert"}
Session == [pc : BotPCs, chat : Chats \cup {NoChat}, code : Nat,
            user : Users \cup {NoUser}, mute : BOOLEAN]

RowsOK ==
  /\ row \in [Users -> Row]
  /\ \A u \in Users : row[u].verified => row[u].code = 0 /\ row[u].chat # NoChat

Placed(h) ==
  /\ ~At(h, "idle") => bot[h].chat \in Chats
  /\ bot[h].pc \in {"rebind", "confirm", "status", "upsert"} => bot[h].user \in Users

BotOK == bot \in [Handlers -> Session] /\ \A h \in Handlers : Placed(h)

RestOK ==
  /\ muted \in [Users -> BOOLEAN] /\ issuedTo \in Seq(Users)
  /\ commands \in Nat /\ faults \in Nat

(* The shape of the state: a verified row has a chat and its code is       *)
(* spent, and a handler at work has a chat.                                *)
TypeOK == RowsOK /\ BotOK /\ RestOK

(* An account is verified only through a code that was issued to it,       *)
(* however commands, re-links and database failures overlap.               *)
VerifiedByOwnCode ==
  \A u \in Users : row[u].verified => accepted[u] \in Codes /\ issuedTo[accepted[u]] = u

(* A chat that sends the current code of an account gets it verified,      *)
(* unless the code is replaced first or the chat is another account's,     *)
(* once no more calls fail.                                                *)
Sending(chat, code) ==
  \E h \in Handlers : At(h, "verify") /\ bot[h].chat = chat /\ bot[h].code = code
CodeWorks ==
  \A u \in Users, chat \in Chats, code \in 1..MaxCodes :
    (Sending(chat, code) /\ row[u].code = code /\ faults = MaxFaults)
      ~> (row[u].code # code \/ ~Free(chat, u))

(* "Code is single-use: cleared from the database after successful         *)
(* verification" (README.md:238).                                          *)
CodeUsedOnce == \A c \in 1..MaxCodes : uses[c] <= 1

(* "Code is invalidated on re-link: calling InitiateLink again overwrites  *)
(* the old code" (README.md:239): a verified account was verified with the *)
(* last code issued to it.                                                 *)
RelinkInvalidates == \A u \in Users : row[u].verified => accepted[u] \in Latest(u)

(* telegram_chat_id is "NULL until verified" (db/telegram.sql:12): an      *)
(* account that was never verified has no chat.                            *)
NullUntilVerified == \A u \in Users : verifier[u] = NoChat => row[u].chat = NoChat

(* The username is "For display only" (README.md:90): the chat of a        *)
(* verified account is the one that sent its code.                         *)
NameForDisplay == \A u \in Users : row[u].verified => row[u].chat = verifier[u]
=============================================================================

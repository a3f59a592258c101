------------------------- MODULE TelegramLinkProofs -------------------------
(***************************************************************************)
(* Proofs about TelegramLink: the shape of its state, and that an account  *)
(* is verified only through a code issued to it, for any number of         *)
(* accounts, chats, handlers and failures.                                 *)
(***************************************************************************)
EXTENDS TelegramLink, TLAPS

(* A handler that answers is idle, the others stay where they are.         *)
LEMMA ReplyTyped ==
  ASSUME BotOK, NEW h \in Handlers, Reply(h)
  PROVE  BotOK'
<1>1. Quiet \in Session
  BY DEF Quiet, Session, BotPCs
<1>2. bot' = [bot EXCEPT ![h] = Quiet]
  BY DEF Reply
<1>3. bot' \in [Handlers -> Session]
  BY <1>1, <1>2 DEF BotOK
<1>4. ASSUME NEW g \in Handlers PROVE Placed(g)'
  <2>1. CASE g = h
    BY <1>2, <2>1 DEF BotOK, Placed, At, Quiet
  <2>2. CASE g # h
    <3>1. bot'[g] = bot[g]
      BY <1>2, <2>2 DEF BotOK
    <3> QED BY <3>1 DEF BotOK, Placed, At
  <2> QED BY <2>1, <2>2
<1> QED BY <1>3, <1>4 DEF BotOK

(* A handler whose session is replaced by one in its place.                *)
LEMMA SessionTyped ==
  ASSUME BotOK, NEW h \in Handlers, NEW s \in Session,
         bot' = [bot EXCEPT ![h] = s], s.chat \in Chats,
         s.pc \in {"rebind", "confirm", "status", "upsert"} => s.user \in Users
  PROVE  BotOK'
<1>1. bot' \in [Handlers -> Session]
  BY DEF BotOK
<1>2. ASSUME NEW g \in Handlers PROVE Placed(g)'
  <2>1. CASE g = h
    <3>1. bot'[g] = s
      BY <2>1 DEF BotOK
    <3> QED BY <3>1 DEF Placed
  <2>2. CASE g # h
    <3>1. bot'[g] = bot[g]
      BY <2>2 DEF BotOK
    <3> QED BY <3>1 DEF BotOK, Placed, At
  <2> QED BY <2>1, <2>2
<1> QED BY <1>1, <1>2 DEF BotOK

(* What a query finds is an account.                                       *)
LEMMA FoundUsers == \A h \in Handlers : Found(h) \subseteq Users
  BY DEF Found, ByName, ByCode, ByChat

(* Every step of a handler leaves the sessions in place.                   *)
LEMMA BotTyped == TypeOK /\ [Next]_vars => BotOK'
<1> SUFFICES ASSUME TypeOK, [Next]_vars PROVE BotOK'
  OBVIOUS
<1>1. BotOK /\ bot \in [Handlers -> Session] /\ \A h \in Handlers : Placed(h)
  BY DEF TypeOK, BotOK
<1>2. ASSUME NEW h \in Handlers, Lookup(h) PROVE BotOK'
  <2>1. CASE Found(h) = {}
    BY <1>1, <1>2, <2>1, ReplyTyped DEF Lookup
  <2>2. CASE Found(h) # {}
    <3>1. PICK u \in Found(h) : Go(h, AfterFound(bot[h].pc), u)
      BY <1>2, <2>2 DEF Lookup
    <3>2. u \in Users
      BY FoundUsers, <3>1
    <3>3. AfterFound(bot[h].pc) \in BotPCs /\ ~At(h, "idle")
      BY <1>2 DEF Lookup, Looking, AfterFound, BotPCs, At
    <3> DEFINE s == [bot[h] EXCEPT !.pc = AfterFound(bot[h].pc), !.user = u]
    <3>4. s \in Session
      BY <1>1, <3>2, <3>3 DEF Session
    <3>5. bot' = [bot EXCEPT ![h] = s]
      BY <1>1, <3>1 DEF Go, Session
    <3>6. s.chat = bot[h].chat /\ s.user = u /\ s.chat \in Chats
      BY <1>1, <3>3 DEF Session, Placed
    <3> HIDE DEF s
    <3> QED BY <1>1, <3>2, <3>4, <3>5, <3>6, SessionTyped
  <2> QED BY <2>1, <2>2
<1>3. ASSUME NEW h \in Handlers, ReadStatus(h) PROVE BotOK'
  <2> DEFINE s == [bot[h] EXCEPT !.pc = "upsert", !.mute = ~muted[bot[h].user]]
  <2>1. bot[h].user \in Users /\ bot[h].chat \in Chats
    BY <1>1, <1>3 DEF ReadStatus, Placed, At
  <2>2. (~muted[bot[h].user]) = TRUE \/ (~muted[bot[h].user]) = FALSE
    OBVIOUS
  <2>3. s \in Session
    BY <1>1, <2>2 DEF Session, BotPCs
  <2>4. bot' = [bot EXCEPT ![h] = s]
    BY <1>1, <1>3 DEF ReadStatus, Session
  <2>5. s.chat = bot[h].chat /\ s.user = bot[h].user
    BY <1>1 DEF Session
  <2> HIDE DEF s
  <2> QED BY <1>1, <2>1, <2>3, <2>4, <2>5, SessionTyped
<1>4. ASSUME NEW h \in Handlers, CallFails(h) PROVE BotOK'
  <2>1. CASE ~At(h, "status")
    BY <1>1, <1>4, <2>1, ReplyTyped DEF CallFails
  <2>2. CASE At(h, "status")
    <3> DEFINE s == [bot[h] EXCEPT !.pc = "upsert", !.mute = FALSE]
    <3>1. bot[h].user \in Users /\ bot[h].chat \in Chats
      BY <1>1, <2>2 DEF Placed, At
    <3>2. s \in Session
      BY <1>1 DEF Session, BotPCs
    <3>3. bot' = [bot EXCEPT ![h] = s]
      BY <1>1, <1>4, <2>2 DEF CallFails, Session
    <3>4. s.chat = bot[h].chat /\ s.user = bot[h].user
      BY <1>1 DEF Session
    <3> HIDE DEF s
    <3> QED BY <1>1, <3>1, <3>2, <3>3, <3>4, SessionTyped
  <2> QED BY <2>1, <2>2
<1>5. ASSUME NEW h \in Handlers, NEW chat \in Chats, NEW pc \in {"start", "auth", "verify"},
             NEW code \in Nat, Command(h, chat, pc, code)
      PROVE  BotOK'
  <2> DEFINE s == [Quiet EXCEPT !.pc = pc, !.chat = chat, !.code = code]
  <2>1. s \in Session /\ s.chat = chat /\ s.pc = pc
    BY DEF Quiet, Session, BotPCs
  <2>2. bot' = [bot EXCEPT ![h] = s]
    BY <1>5 DEF Command
  <2> HIDE DEF s
  <2> QED BY <1>1, <2>1, <2>2, SessionTyped
<1>6. ASSUME NEW u \in Users, NEW name \in Names, InitiateLink(u, name) PROVE BotOK'
  BY <1>1, <1>6 DEF InitiateLink, BotOK, Placed, At
<1>7. ASSUME NEW h \in Handlers, Rebind(h) \/ Confirm(h) \/ StoreStatus(h) PROVE BotOK'
  BY <1>1, <1>7, ReplyTyped DEF Rebind, Confirm, StoreStatus
<1>8. CASE UNCHANGED vars
  BY <1>1, <1>8 DEF vars, BotOK, Placed, At
<1>9. ASSUME NEW code \in Codes PROVE code \in Nat
  BY DEF Codes, TypeOK, RestOK
<1> QED
  BY <1>2, <1>3, <1>4, <1>5, <1>6, <1>7, <1>8, <1>9 DEF Next, Handle

(* The rows: only an upsert, a rebinding and a confirmation write one.     *)
LEMMA RowsTyped == TypeOK /\ [Next]_vars => RowsOK'
<1> SUFFICES ASSUME TypeOK, [Next]_vars PROVE RowsOK'
  OBVIOUS
<1>1. RowsOK /\ row \in [Users -> Row] /\ \A h \in Handlers : Placed(h)
  BY DEF TypeOK, RowsOK, BotOK
<1>2. ASSUME NEW u \in Users, NEW s \in Row, row' = [row EXCEPT ![u] = s],
             s.verified => s.code = 0 /\ s.chat # NoChat
      PROVE  RowsOK'
  <2>1. row' \in [Users -> Row]
    BY <1>1, <1>2
  <2>2. ASSUME NEW v \in Users
        PROVE  row'[v].verified => row'[v].code = 0 /\ row'[v].chat # NoChat
    BY <1>1, <1>2 DEF RowsOK
  <2> QED BY <2>1, <2>2 DEF RowsOK
<1>3. ASSUME NEW u \in Users, NEW name \in Names, InitiateLink(u, name) PROVE RowsOK'
  <2> DEFINE s == [row[u] EXCEPT !.name = name, !.code = Len(issuedTo'), !.verified = FALSE]
  <2>1. issuedTo \in Seq(Users) /\ issuedTo' = Append(issuedTo, u)
    BY <1>3 DEF InitiateLink, TypeOK, RestOK
  <2>2. Len(issuedTo') \in Nat
    BY <2>1
  <2>3. s \in Row /\ s.verified = FALSE
    BY <1>1, <2>2 DEF Row
  <2>4. row' = [row EXCEPT ![u] = s]
    BY <1>3 DEF InitiateLink
  <2> HIDE DEF s
  <2> QED BY <1>2, <2>3, <2>4
<1>4. ASSUME NEW h \in Handlers, Rebind(h) PROVE RowsOK'
  <2>1. CASE row' = row
    BY <1>1, <2>1 DEF RowsOK
  <2>2. CASE row' # row
    <3> DEFINE u == bot[h].user
               s == [row[u] EXCEPT !.chat = bot[h].chat]
    <3>1. u \in Users /\ bot[h].chat \in Chats
      BY <1>1, <1>4 DEF Rebind, Placed, At
    <3>2. s \in Row /\ s.verified = row[u].verified /\ s.code = row[u].code
          /\ s.chat = bot[h].chat
      BY <1>1, <3>1 DEF Row
    <3>3. row' = [row EXCEPT ![u] = s]
      BY <1>1, <1>4, <2>2, <3>1 DEF Rebind, Row
    <3>4. s.verified => s.code = 0 /\ s.chat # NoChat
      BY <1>1, <3>1, <3>2, LinkAssumption DEF RowsOK
    <3> HIDE DEF s
    <3> QED BY <1>2, <3>1, <3>2, <3>3, <3>4
  <2> QED BY <2>1, <2>2
<1>5. ASSUME NEW h \in Handlers, Confirm(h) PROVE RowsOK'
  <2>1. CASE row' = row
    BY <1>1, <2>1 DEF RowsOK
  <2>2. CASE row' # row
    <3> DEFINE s == [name |-> NameOf[bot[h].chat], code |-> 0, chat |-> bot[h].chat,
                     verified |-> TRUE]
    <3>1. bot[h].user \in Users /\ bot[h].chat \in Chats
      BY <1>1, <1>5 DEF Confirm, Placed, At
    <3>2. s \in Row /\ s.code = 0 /\ s.chat # NoChat
      BY <3>1, LinkAssumption DEF Row
    <3>3. row' = [row EXCEPT ![bot[h].user] = s]
      BY <1>5, <2>2 DEF Confirm
    <3> HIDE DEF s
    <3> QED BY <1>2, <3>1, <3>2, <3>3
  <2> QED BY <2>1, <2>2
<1>6. CASE row' = row
  BY <1>1, <1>6 DEF RowsOK
<1> QED
  BY <1>3, <1>4, <1>5, <1>6
  DEF Next, Handle, Lookup, ReadStatus, StoreStatus, CallFails, Command, vars

(* The shape of the state is an invariant.                                 *)
THEOREM TypeCorrect == Spec => []TypeOK
<1>1. Init => TypeOK
  <2> SUFFICES ASSUME Init PROVE TypeOK
    OBVIOUS
  <2>1. RowsOK
    BY DEF Init, RowsOK, NoRow, Row
  <2>2. BotOK
    BY DEF Init, BotOK, Quiet, Session, BotPCs, Placed, At
  <2> QED BY <2>1, <2>2 DEF Init, TypeOK, RestOK
<1>2. TypeOK /\ [Next]_vars => TypeOK'
  <2> SUFFICES ASSUME TypeOK, [Next]_vars PROVE RestOK'
    BY BotTyped, RowsTyped DEF TypeOK
  <2>1. RestOK /\ \A h \in Handlers : Placed(h)
    BY DEF TypeOK, BotOK
  <2>2. ASSUME NEW u \in Users, NEW name \in Names, InitiateLink(u, name) PROVE RestOK'
    BY <2>1, <2>2 DEF InitiateLink, RestOK
  <2>3. ASSUME NEW h \in Handlers, Lookup(h) \/ Rebind(h) \/ Confirm(h) \/ ReadStatus(h)
        PROVE  RestOK'
    BY <2>1, <2>3 DEF Lookup, Rebind, Confirm, ReadStatus, RestOK
  <2>4. ASSUME NEW h \in Handlers, StoreStatus(h) PROVE RestOK'
    <3>1. bot[h].mute \in BOOLEAN
      BY DEF TypeOK, BotOK, Session
    <3> QED BY <2>1, <2>4, <3>1 DEF StoreStatus, RestOK
  <2>5. ASSUME NEW h \in Handlers, CallFails(h) PROVE RestOK'
    BY <2>1, <2>5 DEF CallFails, RestOK
  <2>6. ASSUME NEW h \in Handlers, NEW chat, NEW pc, NEW code, Command(h, chat, pc, code)
        PROVE  RestOK'
    BY <2>1, <2>6 DEF Command, RestOK
  <2>7. CASE UNCHANGED vars
    BY <2>1, <2>7 DEF vars, RestOK
  <2> QED
    BY <2>2, <2>3, <2>4, <2>5, <2>6, <2>7 DEF Next, Handle
<1> QED BY <1>1, <1>2, PTL DEF Spec
-----------------------------------------------------------------------------
(* Verified by a code of one's own.  The invariant follows a code from the *)
(* row it is stored in, through the handler that found that row by it, to  *)
(* the account it verifies; between the last two the row may have changed. *)

Owns(u, code) == code \in Codes /\ issuedTo[code] = u

OwnInv ==
  /\ \A u \in Users : row[u].code # 0 => Owns(u, row[u].code)
  /\ \A h \in Handlers : At(h, "confirm") => Owns(bot[h].user, bot[h].code)
  /\ \A u \in Users : row[u].verified => Owns(u, accepted[u])
  /\ accepted \in [Users -> Nat]

(* A step that writes neither a code nor the codes issued and brings no    *)
(* handler to "confirm" preserves it.                                      *)
LEMMA OwnFrame ==
  ASSUME OwnInv, issuedTo' = issuedTo, accepted' = accepted,
         \A u \in Users : row'[u].code = row[u].code /\ row'[u].verified = row[u].verified,
         \A h \in Handlers : At(h, "confirm")' => bot'[h] = bot[h]
  PROVE  OwnInv'
  BY DEF OwnInv, Owns, Codes, At

(* A handler that answers is not at "confirm", the others have not moved.  *)
LEMMA ReplyFrame ==
  ASSUME BotOK, NEW h \in Handlers, Reply(h)
  PROVE  \A g \in Handlers : At(g, "confirm")' => bot'[g] = bot[g] /\ g # h
  BY DEF BotOK, Reply, Quiet, At

(* However commands, re-links and failures overlap, an account is verified *)
(* only through a code that was issued to it.                              *)
THEOREM OwnCode == Spec => []VerifiedByOwnCode
<1>1. Init => OwnInv
  BY DEF Init, OwnInv, NoRow, Quiet, At
<1>2. TypeOK /\ OwnInv /\ [Next]_vars => OwnInv'
  <2> SUFFICES ASSUME TypeOK, OwnInv, [Next]_vars PROVE OwnInv'
    OBVIOUS
  <2>1. /\ bot \in [Handlers -> Session] /\ row \in [Users -> Row] /\ BotOK
        /\ issuedTo \in Seq(Users) /\ \A h \in Handlers : Placed(h)
    BY DEF TypeOK, BotOK, RowsOK, RestOK
  <2>2. ASSUME NEW u \in Users, NEW name \in Names, InitiateLink(u, name) PROVE OwnInv'
    <3> DEFINE new == Len(issuedTo')
    <3>1. issuedTo' = Append(issuedTo, u) /\ accepted' = accepted /\ bot' = bot
      BY <2>2 DEF InitiateLink, histories
    <3>2. /\ new = Len(issuedTo) + 1 /\ Codes' = 1..new /\ Codes = 1..Len(issuedTo)
          /\ issuedTo'[new] = u
          /\ \A c \in Codes : c \in Codes' /\ issuedTo'[c] = issuedTo[c]
      BY <2>1, <3>1 DEF Codes
    <3>3. /\ row'[u].code = new /\ row'[u].verified = FALSE
          /\ \A v \in Users \ {u} : row'[v] = row[v]
      BY <2>1, <2>2 DEF InitiateLink, Row
    <3>4. new \in Codes' /\ issuedTo'[new] = u
      BY <2>1, <3>1, <3>2
    <3>5. ASSUME NEW v \in Users
          PROVE  /\ row'[v].code # 0 => Owns(v, row[v].code)'
                 /\ row'[v].verified => Owns(v, accepted[v])'
      <4>1. CASE v = u
        BY <3>3, <3>4, <4>1 DEF Owns
      <4>2. CASE v # u
        <5>1. row'[v] = row[v] /\ accepted'[v] = accepted[v]
          BY <3>1, <3>3, <4>2
        <5>2. Owns(v, row[v].code) => Owns(v, row[v].code)'
          BY <3>2, <5>1 DEF Owns
        <5>3. Owns(v, accepted[v]) => Owns(v, accepted[v])'
          BY <3>2, <5>1 DEF Owns
        <5> QED BY <5>1, <5>2, <5>3 DEF OwnInv, Owns
      <4> QED BY <4>1, <4>2
    <3>6. \A h \in Handlers : At(h, "confirm")' => Owns(bot[h].user, bot[h].code)'
      BY <3>1, <3>2 DEF OwnInv, Owns, At
    <3> QED BY <3>1, <3>5, <3>6 DEF OwnInv
  <2>3. ASSUME NEW h \in Handlers, Lookup(h) PROVE OwnInv'
    <3>1. issuedTo' = issuedTo /\ accepted' = accepted /\ row' = row
      BY <2>3 DEF Lookup, histories
    <3>2. CASE Found(h) = {}
      BY <2>1, <2>3, <3>1, <3>2, ReplyFrame, OwnFrame DEF Lookup
    <3>3. CASE Found(h) # {}
      <4>1. PICK u \in Found(h) : Go(h, AfterFound(bot[h].pc), u)
        BY <2>3, <3>3 DEF Lookup
      <4>2. /\ bot'[h].pc = AfterFound(bot[h].pc) /\ bot'[h].user = u
            /\ bot'[h].code = bot[h].code
            /\ \A g \in Handlers \ {h} : bot'[g] = bot[g]
        BY <2>1, <4>1 DEF Go, Session
      <4>3. CASE ~At(h, "verify")
        <5>1. bot'[h].pc # "confirm"
          BY <2>3, <4>2, <4>3 DEF Lookup, Looking, AfterFound, At
        <5>2. \A g \in Handlers : At(g, "confirm")' => bot'[g] = bot[g]
          BY <4>2, <5>1 DEF At
        <5> QED BY <3>1, <5>2, OwnFrame
      <4>4. CASE At(h, "verify")
        <5>1. u \in Users /\ bot[h].code # 0 /\ row[u].code = bot[h].code
          BY <4>1, <4>4 DEF Found, ByCode, At
        <5>2. Owns(u, bot[h].code)
          BY <5>1 DEF OwnInv
        <5> QED BY <3>1, <4>2, <5>2 DEF OwnInv, Owns, Codes, At
      <4> QED BY <4>3, <4>4
    <3> QED BY <3>2, <3>3
  <2>4. ASSUME NEW h \in Handlers, Rebind(h) PROVE OwnInv'
    <3>1. \A u \in Users : row'[u].code = row[u].code /\ row'[u].verified = row[u].verified
      BY <2>1, <2>4 DEF Rebind, Row
    <3>2. issuedTo' = issuedTo /\ accepted' = accepted /\ Reply(h)
      BY <2>4 DEF Rebind, histories
    <3> QED BY <2>1, <3>1, <3>2, ReplyFrame, OwnFrame
  <2>5. ASSUME NEW h \in Handlers, Confirm(h) PROVE OwnInv'
    <3>1. Reply(h) /\ issuedTo' = issuedTo
      BY <2>5 DEF Confirm
    <3>2. CASE ~Free(bot[h].chat, bot[h].user)
      <4>1. row' = row /\ accepted' = accepted
        BY <2>5, <3>2 DEF Confirm, histories
      <4> QED BY <2>1, <3>1, <4>1, ReplyFrame, OwnFrame
    <3>3. CASE Free(bot[h].chat, bot[h].user)
      <4> DEFINE u == bot[h].user
      <4>1. u \in Users /\ Owns(u, bot[h].code) /\ bot[h].code \in Nat
        BY <2>1, <2>5 DEF Confirm, Placed, OwnInv, At, Session
      <4>2. /\ row'[u].code = 0 /\ accepted'[u] = bot[h].code
            /\ accepted' \in [Users -> Nat]
            /\ \A v \in Users \ {u} : row'[v] = row[v] /\ accepted'[v] = accepted[v]
        BY <2>1, <2>5, <3>3, <4>1 DEF Confirm, OwnInv
      <4>3. \A g \in Handlers : At(g, "confirm")' => bot'[g] = bot[g]
        BY <2>1, <3>1, ReplyFrame
      <4> HIDE DEF u
      <4> QED BY <3>1, <4>1, <4>2, <4>3 DEF OwnInv, Owns, Codes, At
    <3> QED BY <3>2, <3>3
  <2>6. ASSUME NEW h \in Handlers, ReadStatus(h) PROVE OwnInv'
    <3>1. \A g \in Handlers : At(g, "confirm")' => bot'[g] = bot[g]
      BY <2>1, <2>6 DEF ReadStatus, At, Session
    <3> QED BY <2>6, <3>1, OwnFrame DEF ReadStatus, histories
  <2>7. ASSUME NEW h \in Handlers, StoreStatus(h) PROVE OwnInv'
    BY <2>1, <2>7, ReplyFrame, OwnFrame DEF StoreStatus, histories
  <2>8. ASSUME NEW h \in Handlers, CallFails(h) PROVE OwnInv'
    <3>1. \A g \in Handlers : At(g, "confirm")' => bot'[g] = bot[g]
      <4>1. CASE At(h, "status")
        BY <2>1, <2>8, <4>1 DEF CallFails, At, Session
      <4>2. CASE ~At(h, "status")
        BY <2>1, <2>8, <4>2, ReplyFrame DEF CallFails
      <4> QED BY <4>1, <4>2
    <3> QED BY <2>8, <3>1, OwnFrame DEF CallFails, histories
  <2>9. ASSUME NEW h \in Handlers, NEW chat \in Chats, NEW pc \in {"start", "auth", "verify"},
               NEW code, Command(h, chat, pc, code)
        PROVE  OwnInv'
    <3>1. \A g \in Handlers : At(g, "confirm")' => bot'[g] = bot[g]
      BY <2>1, <2>9 DEF Command, At, Session, Quiet
    <3> QED BY <2>9, <3>1, OwnFrame DEF Command, histories
  <2>10. CASE UNCHANGED vars
    BY <2>10, OwnFrame DEF vars, histories, At
  <2> QED
    BY <2>2, <2>3, <2>4, <2>5, <2>6, <2>7, <2>8, <2>9, <2>10 DEF Next, Handle
<1>3. OwnInv => VerifiedByOwnCode
  BY DEF OwnInv, Owns, VerifiedByOwnCode
<1> QED BY <1>1, <1>2, <1>3, TypeCorrect, PTL DEF Spec
=============================================================================

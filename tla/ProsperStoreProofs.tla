------------------------- MODULE ProsperStoreProofs -------------------------
(***************************************************************************)
(* Facts about the row operations of ProsperStore, cited by the proofs     *)
(* about the requests that use them.                                       *)
(***************************************************************************)
EXTENDS ProsperStore, TLAPS, SequenceTheorems

\* Changing the status of a contact (services.py, pause_contact and others)
\* keeps a database a database.
LEMMA SetContactStatusType ==
    ASSUME NEW d \in Database, NEW c \in Chats, NEW status \in ContactStatus
    PROVE  SetContactStatus(d, c, status) \in Database
  BY DEF SetContactStatus, Database

\* get_or_create_contact returns a database.
LEMMA GetOrCreateContactType ==
    ASSUME NEW d \in Database, NEW c \in Chats
    PROVE  GetOrCreateContact(d, c) \in Database
  BY DEF GetOrCreateContact, Database, ContactStatus

\* get_active_conversation returns an active conversation of the chat if there
\* is one, and None only if there is none.
LEMMA ActiveConversationType ==
    ASSUME NEW d \in Database, NEW c \in Chats
    PROVE  /\ ActiveConversation(d, c) \in Nat
           /\ ActiveConversations(d, c) # {} =>
                  /\ ActiveConversation(d, c) \in DOMAIN d.convs[c]
                  /\ ActiveConversation(d, c) # 0
                  /\ d.convs[c][ActiveConversation(d, c)].status = "active"
<1>1. d.convs[c] \in Seq(Conversation)
  BY DEF Database
<1>2. DOMAIN d.convs[c] = 1..Len(d.convs[c])
  BY <1>1
<1>3. CASE ActiveConversations(d, c) = {}
  BY <1>3 DEF ActiveConversation
<1>4. CASE ActiveConversations(d, c) # {}
  <2>1. ActiveConversation(d, c) \in ActiveConversations(d, c)
    BY <1>4 DEF ActiveConversation
  <2>2. QED
    BY <2>1, <1>1, <1>2 DEF ActiveConversations
<1>5. QED
  BY <1>3, <1>4

\* get_or_create_active_conversation returns a database.
LEMMA GetOrCreateActiveConversationType ==
    ASSUME NEW d \in Database, NEW c \in Chats
    PROVE  GetOrCreateActiveConversation(d, c) \in Database
<1> DEFINE new == [status |-> "active", stage |-> "rental_listing_matching"]
<1>1. new \in Conversation
  BY DEF Conversation, Stage
<1>2. d.convs[c] \in Seq(Conversation)
  BY DEF Database
<1>3. Append(d.convs[c], new) \in Seq(Conversation)
  BY <1>1, <1>2
<1>4. QED
  BY <1>3 DEF GetOrCreateActiveConversation, Database

\* Replacing one conversation of a chat.
LEMMA ConversationExceptType ==
    ASSUME NEW d \in Database, NEW c \in Chats, NEW i, NEW v \in Conversation
    PROVE  [d EXCEPT !.convs[c][i] = v] \in Database
<1>1. d.convs[c] \in Seq(Conversation)
  BY DEF Database
<1>2. [d.convs[c] EXCEPT ![i] = v] \in Seq(Conversation)
  <2>1. CASE i \in 1..Len(d.convs[c])
    BY <1>1, <2>1, ExceptSeq
  <2>2. CASE i \notin 1..Len(d.convs[c])
    <3>1. DOMAIN d.convs[c] = 1..Len(d.convs[c])
      BY <1>1
    <3>2. [d.convs[c] EXCEPT ![i] = v] = d.convs[c]
      BY <1>1, <2>2, <3>1
    <3>3. QED
      BY <1>1, <3>2
  <2>3. QED
    BY <2>1, <2>2
<1>3. QED
  BY <1>2 DEF Database

\* close_conversation of a conversation that exists returns a database.
LEMMA CloseConversationType ==
    ASSUME NEW d \in Database, NEW c \in Chats, NEW i
    PROVE  CloseConversation(d, c, i) \in Database
<1>1. [status |-> "closed", stage |-> "end"] \in Conversation
  BY DEF Conversation, Stage
<1>2. QED
  BY <1>1, ConversationExceptType DEF CloseConversation

\* A stage set in a conversation that exists leaves a database.
LEMMA SetStageType ==
    ASSUME NEW d \in Database, NEW c \in Chats, NEW i, NEW stage \in Stage
    PROVE  SetStage(d, c, i, stage) \in Database
<1>1. d.convs[c] \in Seq(Conversation)
  BY DEF Database
<1>2. DOMAIN d.convs[c] = 1..Len(d.convs[c])
  BY <1>1
<1>3. CASE i \in 1..Len(d.convs[c])
  <2>1. d.convs[c][i] \in Conversation
    BY <1>1, <1>3
  <2>2. [d.convs[c][i] EXCEPT !.stage = stage] \in Conversation
    BY <2>1 DEF Conversation
  <2> DEFINE v == [d.convs[c][i] EXCEPT !.stage = stage]
  <2>3. SetStage(d, c, i, stage) = [d EXCEPT !.convs[c][i] = v]
    BY DEF SetStage
  <2>4. [d EXCEPT !.convs[c][i] = v] \in Database
    <3> HIDE DEF v
    <3>1. v \in Conversation
      BY <2>2 DEF v
    <3>2. QED
      BY <3>1, ConversationExceptType
  <2>5. QED
    BY <2>3, <2>4, Zenon
<1>4. CASE i \notin 1..Len(d.convs[c])
  <2>1. [d.convs[c] EXCEPT ![i].stage = stage] = d.convs[c]
    BY <1>1, <1>2, <1>4
  <2>2. SetStage(d, c, i, stage) = [d EXCEPT !.convs[c] = d.convs[c]]
    BY <2>1 DEF SetStage
  <2>3. QED
    BY <2>2, <1>1 DEF Database
<1>5. QED
  BY <1>3, <1>4

\* append_message returns a database.
LEMMA AppendMessageType ==
    ASSUME NEW d \in Database, NEW c \in Chats, NEW i \in Nat,
           NEW id \in MessageIds \cup OutboundIds,
           NEW direction \in {"inbound", "human", "outbound"}
    PROVE  AppendMessage(d, c, i, id, direction) \in Database
<1>1. [chat |-> c, id |-> id, conv |-> i, direction |-> direction] \in MessageRow
  BY DEF MessageRow
<1>2. QED
  BY <1>1 DEF AppendMessage, Database

-----------------------------------------------------------------------------
(***************************************************************************)
(* Integrity: every operation of the message path keeps one open           *)
(* conversation, the last one, and one row per message.                    *)
(***************************************************************************)
Sound(d) == d \in Database /\ LatestOpen(d) /\ StoredOnce(d)

\* Operations that leave conversations and messages alone.
LEMMA SameRowsSound ==
    ASSUME NEW d, NEW e \in Database, Sound(d),
           e.convs = d.convs, e.messages = d.messages
    PROVE  Sound(e)
  BY DEF Sound, LatestOpen, StoredOnce

\* The database of init_db is sound.
LEMMA EmptyDatabaseSound == Sound(EmptyDatabase)
<1>1. EmptyDatabase \in Database
  BY DEF EmptyDatabase, Database, ContactStatus
<1>2. LatestOpen(EmptyDatabase)
  BY DEF EmptyDatabase, LatestOpen, LatestOpenIn
<1>3. QED
  BY <1>1, <1>2 DEF Sound, StoredOnce, EmptyDatabase

\* A new contact has no conversations, so the rows stay sound.
LEMMA GetOrCreateContactSound ==
    ASSUME NEW d, Sound(d), NEW c \in Chats
    PROVE  /\ Sound(GetOrCreateContact(d, c))
           /\ GetOrCreateContact(d, c).convs = d.convs
<1>1. d \in Database
  BY DEF Sound
<1>2. GetOrCreateContact(d, c) \in Database
  BY <1>1, GetOrCreateContactType
<1>3. /\ GetOrCreateContact(d, c).convs = d.convs
      /\ GetOrCreateContact(d, c).messages = d.messages
  BY <1>1 DEF GetOrCreateContact, Database
<1>4. QED
  BY <1>2, <1>3, SameRowsSound

\* Pausing, ignoring and activating touch no conversation and no message.
LEMMA SetContactStatusSound ==
    ASSUME NEW d, Sound(d), NEW c \in Chats, NEW status \in ContactStatus
    PROVE  /\ Sound(SetContactStatus(d, c, status))
           /\ SetContactStatus(d, c, status).convs = d.convs
<1>1. d \in Database
  BY DEF Sound
<1>2. SetContactStatus(d, c, status) \in Database
  BY <1>1, SetContactStatusType
<1>3. /\ SetContactStatus(d, c, status).convs = d.convs
      /\ SetContactStatus(d, c, status).messages = d.messages
  BY <1>1 DEF SetContactStatus, Database
<1>4. QED
  BY <1>2, <1>3, SameRowsSound

\* append_message checks for a stored row before it adds one.
LEMMA AppendMessageSound ==
    ASSUME NEW d, Sound(d), NEW c \in Chats, NEW i \in Nat,
           NEW id \in MessageIds \cup OutboundIds,
           NEW direction \in {"inbound", "human", "outbound"}
    PROVE  /\ Sound(AppendMessage(d, c, i, id, direction))
           /\ AppendMessage(d, c, i, id, direction).convs = d.convs
<1> DEFINE row == [chat |-> c, id |-> id, conv |-> i, direction |-> direction]
           e   == AppendMessage(d, c, i, id, direction)
<1>1. d \in Database
  BY DEF Sound
<1>2. e \in Database
  BY <1>1, AppendMessageType
<1>3. e.convs = d.convs
  BY <1>1 DEF AppendMessage, Database
<1>4. LatestOpen(e)
  BY <1>3 DEF Sound, LatestOpen
<1>5. StoredOnce(e)
  <2>1. CASE StoredMessage(d, c, id)
    BY <2>1 DEF AppendMessage, Sound
  <2>2. CASE ~StoredMessage(d, c, id)
    <3>1. e.messages = d.messages \cup {row}
      BY <1>1, <2>2 DEF AppendMessage, Database
    <3>2. \A x \in d.messages : ~(x.chat = row.chat /\ x.id = row.id)
      BY <2>2 DEF StoredMessage
    <3>3. QED
      BY <3>1, <3>2 DEF Sound, StoredOnce
  <2>3. QED
    BY <2>1, <2>2
<1>6. QED
  BY <1>2, <1>3, <1>4, <1>5 DEF Sound

\* A stage change keeps the status and the number of the conversations.
LEMMA SetStageSound ==
    ASSUME NEW d, Sound(d), NEW c \in Chats, NEW i, NEW stage \in Stage
    PROVE  Sound(SetStage(d, c, i, stage))
<1> DEFINE e == SetStage(d, c, i, stage)
<1>1. d \in Database
  BY DEF Sound
<1>2. e \in Database
  BY <1>1, SetStageType
<1>3. e.messages = d.messages
  BY <1>1 DEF SetStage, Database
<1>4. ASSUME NEW x \in Chats
      PROVE  LatestOpenIn(e.convs[x])
  <2>1. /\ d.convs \in [Chats -> Seq(Conversation)]
        /\ LatestOpenIn(d.convs[x])
    BY <1>1 DEF Database, Sound, LatestOpen
  <2>2. e.convs = [d.convs EXCEPT ![c][i].stage = stage]
    BY <1>1 DEF SetStage, Database
  <2>3. CASE x # c
    BY <2>1, <2>2, <2>3
  <2>4. CASE x = c
    <3> DEFINE q == d.convs[c]
    <3>1. q \in Seq(Conversation) /\ LatestOpenIn(q)
      BY <2>1, <2>4
    <3>2. e.convs[x] = [q EXCEPT ![i].stage = stage]
      BY <2>1, <2>2, <2>4
    <3>3. e.convs[x] \in Seq(Conversation)
      BY <1>2 DEF Database
    <3>4. DOMAIN e.convs[x] = DOMAIN q /\ Len(e.convs[x]) = Len(q)
      BY <3>1, <3>2, <3>3
    <3>5. \A j \in DOMAIN q : e.convs[x][j].status = q[j].status
      <4>1. \A j \in DOMAIN q : q[j] \in Conversation
        BY <3>1
      <4>2. QED
        BY <3>2, <4>1 DEF Conversation
    <3>6. QED
      BY <3>1, <3>4, <3>5 DEF LatestOpenIn
  <2>5. QED
    BY <2>3, <2>4
<1>5. QED
  BY <1>2, <1>3, <1>4 DEF Sound, LatestOpen, StoredOnce

\* A new conversation is the only open one: either the chat had none open, as
\* after a close, or nothing changes.
LEMMA CreateConversationSound ==
    ASSUME NEW d \in Database, StoredOnce(d), NEW c \in Chats,
           \A x \in Chats \ {c} : LatestOpenIn(d.convs[x]),
           ActiveConversations(d, c) # {} => LatestOpenIn(d.convs[c])
    PROVE  LET e == GetOrCreateActiveConversation(d, c)
           IN  /\ Sound(e)
               /\ DOMAIN d.convs[c] \subseteq DOMAIN e.convs[c]
               /\ ActiveConversations(e, c) # {}
<1> DEFINE e   == GetOrCreateActiveConversation(d, c)
           q   == d.convs[c]
           new == [status |-> "active", stage |-> "rental_listing_matching"]
<1>1. q \in Seq(Conversation) /\ d.convs \in [Chats -> Seq(Conversation)]
  BY DEF Database
<1>2. CASE ActiveConversations(d, c) # {}
  <2>1. e = d
    BY <1>2 DEF GetOrCreateActiveConversation
  <2>2. LatestOpen(d)
    BY <1>2 DEF LatestOpen
  <2>3. QED
    BY <1>2, <2>1, <2>2 DEF Sound
<1>3. CASE ActiveConversations(d, c) = {}
  <2>1. e.convs = [d.convs EXCEPT ![c] = Append(q, new)] /\ e.messages = d.messages
    BY <1>3 DEF GetOrCreateActiveConversation, Database
  <2>2. e \in Database
    BY GetOrCreateActiveConversationType
  <2>3. \A i \in DOMAIN q : q[i].status # "active"
    BY <1>3 DEF ActiveConversations
  <2>4. e.convs[c] = Append(q, new)
    BY <1>1, <2>1
  <2>5. /\ DOMAIN q = 1..Len(q)
        /\ DOMAIN Append(q, new) = 1..(Len(q) + 1)
        /\ Len(q) \in Nat
        /\ Len(Append(q, new)) = Len(q) + 1
        /\ Append(q, new)[Len(q) + 1] = new
        /\ \A i \in 1..Len(q) : Append(q, new)[i] = q[i]
    <3>1. new \in Conversation
      BY DEF Conversation, Stage
    <3>2. QED
      BY <1>1, <3>1, AppendProperties
  <2>6. LatestOpenIn(e.convs[c])
    <3>1. \A i \in 1..(Len(q) + 1) : i = Len(q) + 1 \/ i \in 1..Len(q)
      BY <2>5
    <3>2. QED
      BY <2>3, <2>4, <2>5, <3>1 DEF LatestOpenIn
  <2>7. \A x \in Chats \ {c} : e.convs[x] = d.convs[x]
    BY <1>1, <2>1
  <2>8. LatestOpen(e)
    BY <2>6, <2>7 DEF LatestOpen
  <2>9. Len(q) + 1 \in ActiveConversations(e, c)
    BY <2>4, <2>5 DEF ActiveConversations
  <2>10. QED
    BY <2>1, <2>2, <2>4, <2>5, <2>8, <2>9 DEF Sound, StoredOnce
<1>4. QED
  BY <1>2, <1>3

\* The reset command closes the open conversation and opens the next one.
LEMMA ReopenSound ==
    ASSUME NEW d, Sound(d), NEW c \in Chats
    PROVE  LET active == ActiveConversation(d, c)
               closed == IF active = 0 THEN d ELSE CloseConversation(d, c, active)
               e      == GetOrCreateActiveConversation(
                             SetContactStatus(closed, c, "active"), c)
           IN  Sound(e) /\ DOMAIN d.convs[c] \subseteq DOMAIN e.convs[c]
<1> DEFINE active == ActiveConversation(d, c)
           closed == IF active = 0 THEN d ELSE CloseConversation(d, c, active)
           f      == SetContactStatus(closed, c, "active")
           q      == d.convs[c]
           end    == [status |-> "closed", stage |-> "end"]
<1>1. d \in Database /\ LatestOpen(d) /\ StoredOnce(d) /\ q \in Seq(Conversation)
  BY DEF Sound, Database
<1>2. closed \in Database /\ closed.messages = d.messages
  <2>1. CloseConversation(d, c, active).messages = d.messages
    BY <1>1 DEF CloseConversation, Database
  <2>2. QED
    BY <1>1, <2>1, CloseConversationType
<1>3. \A x \in Chats \ {c} : closed.convs[x] = d.convs[x]
  BY <1>1 DEF CloseConversation, Database
<1>4. /\ DOMAIN closed.convs[c] = DOMAIN q
      /\ \A i \in DOMAIN q : closed.convs[c][i].status # "active"
  <2>1. CASE active = 0
    BY <1>1, <2>1, ActiveConversationType DEF ActiveConversations
  <2>2. CASE active # 0
    <3>1. active \in DOMAIN q /\ q[active].status = "active"
      BY <1>1, <2>2, ActiveConversationType DEF ActiveConversation
    <3>2. \A i \in DOMAIN q : q[i].status = "active" => i = active
      BY <1>1, <3>1 DEF LatestOpen, LatestOpenIn
    <3>3. closed.convs[c] = [q EXCEPT ![active] = end]
      BY <1>1, <2>2 DEF CloseConversation, Database
    <3>4. QED
      BY <1>1, <3>1, <3>2, <3>3
  <2>3. QED
    BY <2>1, <2>2
<1>5. f \in Database /\ f.convs = closed.convs /\ f.messages = closed.messages
  <2>1. f \in Database
    BY <1>2, SetContactStatusType DEF ContactStatus
  <2>2. f.convs = closed.convs /\ f.messages = closed.messages
    BY <1>2 DEF SetContactStatus, Database
  <2>3. QED
    BY <2>1, <2>2
<1> HIDE DEF f, closed
<1>6. StoredOnce(f)
  BY <1>1, <1>2, <1>5 DEF StoredOnce
<1>7. \A x \in Chats \ {c} : LatestOpenIn(f.convs[x])
  BY <1>1, <1>3, <1>5 DEF LatestOpen
<1>8. ActiveConversations(f, c) = {}
  BY <1>4, <1>5 DEF ActiveConversations
<1>9. /\ Sound(GetOrCreateActiveConversation(f, c))
      /\ DOMAIN f.convs[c] \subseteq DOMAIN GetOrCreateActiveConversation(f, c).convs[c]
  BY <1>5, <1>6, <1>7, <1>8, CreateConversationSound
<1>10. QED
  BY <1>4, <1>5, <1>9 DEF f, closed

\* One message of a batch (services.py, handle_bridge_inbound): the rows stay
\* sound, no conversation disappears, and the conversation returned for the
\* pipeline is one of the chat.
LEMMA HandleInboundSound ==
    ASSUME NEW d, Sound(d), NEW c \in Chats,
           NEW m \in [id : MessageIds, kind : MessageKind]
    PROVE  LET h == HandleInbound(d, c, m)
           IN  /\ Sound(h.db)
               /\ DOMAIN d.convs[c] \subseteq DOMAIN h.db.convs[c]
               /\ h.conv \in Nat
               /\ h.conv # 0 => h.conv \in DOMAIN h.db.convs[c]
<1> DEFINE d1     == GetOrCreateContact(d, c)
           active == ActiveConversation(d1, c)
           d2     == GetOrCreateActiveConversation(d1, c)
           i2     == ActiveConversation(d2, c)
           latest == IF active # 0 THEN active ELSE LatestConversation(d1, c)
           closed == IF active = 0 THEN d1 ELSE CloseConversation(d1, c, active)
           opened == GetOrCreateActiveConversation(SetContactStatus(closed, c, "active"), c)
           h      == HandleInbound(d, c, m)
           store(e, i, direction) ==
               IF i = 0 THEN e ELSE AppendMessage(e, c, i, m.id, direction)
<1>1. Sound(d1) /\ d1 \in Database /\ d1.convs = d.convs
  BY GetOrCreateContactSound DEF Sound
<1>2. active \in Nat /\ d1.contact[c] \in {"active", "paused", "ignored"}
  <2>1. d.contact[c] \in ContactStatus
    BY DEF Sound, Database
  <2>2. d1.contact[c] \in ContactStatus /\ d1.contact[c] # "none"
    BY <2>1, <1>1 DEF GetOrCreateContact, Database, Sound, ContactStatus
  <2>3. QED
    BY <1>1, <2>2, ActiveConversationType DEF ContactStatus
<1>3. /\ Sound(d2) /\ i2 \in Nat /\ i2 \in DOMAIN d2.convs[c]
      /\ DOMAIN d1.convs[c] \subseteq DOMAIN d2.convs[c]
  <2>1. StoredOnce(d1) /\ \A x \in Chats : LatestOpenIn(d1.convs[x])
    BY <1>1 DEF Sound, LatestOpen
  <2>2. /\ Sound(d2) /\ ActiveConversations(d2, c) # {}
        /\ DOMAIN d1.convs[c] \subseteq DOMAIN d2.convs[c]
    BY <1>1, <2>1, CreateConversationSound
  <2>3. QED
    BY <2>2, ActiveConversationType DEF Sound
<1>4. ASSUME NEW e, Sound(e), NEW i \in Nat, NEW direction \in {"inbound", "human"}
      PROVE  Sound(store(e, i, direction)) /\ store(e, i, direction).convs = e.convs
  BY <1>4, AppendMessageSound
<1>5. Sound(opened) /\ DOMAIN d1.convs[c] \subseteq DOMAIN opened.convs[c]
  BY <1>1, ReopenSound
<1>6. latest \in Nat
  BY <1>1, <1>2 DEF LatestConversation, Database
<1> HIDE DEF d1, active, d2, i2, latest, opened, store
<1>7. CASE m.kind = "human" /\ StoredMessage(d1, c, m.id)
  <2>1. h = Handled(d1, "duplicate_from_me_ignored", 0)
    BY <1>7 DEF HandleInbound, d1
  <2>2. QED
    BY <2>1, <1>1 DEF Handled
<1>8. CASE m.kind = "reset"
  <2>1. h = Handled(opened, "contact_reset_by_command", 0)
    BY <1>8 DEF HandleInbound, d1, opened, active
  <2>2. QED
    BY <2>1, <1>1, <1>5 DEF Handled
<1>9. CASE m.kind = "human" /\ ~StoredMessage(d1, c, m.id)
  <2>1. h = Handled(SetContactStatus(store(d1, active, "human"), c, "paused"),
                    "human_reply_paused_contact", 0)
    BY <1>9 DEF HandleInbound, d1, active, store
  <2>2. /\ Sound(SetContactStatus(store(d1, active, "human"), c, "paused"))
        /\ SetContactStatus(store(d1, active, "human"), c, "paused").convs = d1.convs
    <3>1. /\ Sound(store(d1, active, "human"))
          /\ store(d1, active, "human").convs = d1.convs
      BY <1>1, <1>2, <1>4
    <3>2. QED
      BY <3>1, SetContactStatusSound DEF ContactStatus
  <2>3. QED
    BY <2>1, <2>2, <1>1 DEF Handled
<1>10. CASE m.kind = "lead" /\ d1.contact[c] = "ignored"
  <2>1. h = Handled(d1, "contact_ignored", 0)
    BY <1>10 DEF HandleInbound, d1
  <2>2. QED
    BY <2>1, <1>1 DEF Handled
<1>11. CASE m.kind = "lead" /\ d1.contact[c] = "paused"
  <2>1. h = Handled(store(d1, latest, "inbound"), "contact_paused", 0)
    BY <1>11 DEF HandleInbound, d1, latest, active, store
  <2>2. /\ Sound(store(d1, latest, "inbound"))
        /\ store(d1, latest, "inbound").convs = d1.convs
    BY <1>1, <1>4, <1>6
  <2>3. QED
    BY <2>1, <2>2, <1>1 DEF Handled
<1>12. CASE m.kind = "lead" /\ d1.contact[c] = "active"
  <2>1. h = Handled(store(d2, i2, "inbound"), "stored_inbound_message", i2)
    BY <1>12 DEF HandleInbound, d1, d2, i2, store
  <2>2. Sound(store(d2, i2, "inbound")) /\ store(d2, i2, "inbound").convs = d2.convs
    BY <1>3, <1>4
  <2>3. QED
    BY <2>1, <2>2, <1>1, <1>3 DEF Handled
<1>13. QED
  BY <1>2, <1>7, <1>8, <1>9, <1>10, <1>11, <1>12 DEF MessageKind

-----------------------------------------------------------------------------
(***************************************************************************)
(* Isolation: what a request that works on one chat changes.               *)
(***************************************************************************)

\* From d to e no switch is turned, no message is removed and no conversation
\* of chat c, and every row that is new or changed belongs to chat c.
ChangesOnly(d, e, c) ==
    /\ e.pauseAi = d.pauseAi /\ e.sendLock = d.sendLock
    /\ d.messages \subseteq e.messages
    /\ \A row \in e.messages \ d.messages : row.chat = c
    /\ Len(e.convs[c]) >= Len(d.convs[c])
    /\ \A x \in Chats \ {c} : e.contact[x] = d.contact[x] /\ e.convs[x] = d.convs[x]

\* No automated part is recorded from d to e.
NoReplyAdded(d, e) == \A row \in e.messages \ d.messages : row.direction # "outbound"

\* The contact of the chat was paused or ignored.
TakenOver(d, c) == d.contact[c] \in {"paused", "ignored"}

\* A request that changes nothing changes only its chat.
LEMMA ChangesNothing ==
    ASSUME NEW d \in Database, NEW c \in Chats
    PROVE  ChangesOnly(d, d, c) /\ NoReplyAdded(d, d)
<1>1. Len(d.convs[c]) \in Nat
  BY DEF Database
<1>2. QED
  BY <1>1 DEF ChangesOnly, NoReplyAdded

\* The operations of a request follow one another.
LEMMA ChangesTransitive ==
    ASSUME NEW d \in Database, NEW e \in Database, NEW f \in Database, NEW c \in Chats,
           ChangesOnly(d, e, c), ChangesOnly(e, f, c)
    PROVE  /\ ChangesOnly(d, f, c)
           /\ NoReplyAdded(d, e) /\ NoReplyAdded(e, f) => NoReplyAdded(d, f)
<1>1. /\ Len(d.convs[c]) \in Nat /\ Len(e.convs[c]) \in Nat /\ Len(f.convs[c]) \in Nat
  BY DEF Database
<1>2. Len(f.convs[c]) >= Len(d.convs[c])
  BY <1>1 DEF ChangesOnly
<1>3. QED
  BY <1>2 DEF ChangesOnly, NoReplyAdded

\* get_or_create_contact creates a contact of the chat and changes no status.
LEMMA GetOrCreateContactChanges ==
    ASSUME NEW d \in Database, NEW c \in Chats
    PROVE  LET e == GetOrCreateContact(d, c)
           IN  /\ ChangesOnly(d, e, c) /\ NoReplyAdded(d, e)
               /\ TakenOver(d, c) => TakenOver(e, c)
<1> DEFINE e == GetOrCreateContact(d, c)
<1>1. Len(d.convs[c]) \in Nat
  BY DEF Database
<1>2. CASE d.contact[c] = "none"
  BY <1>1, <1>2 DEF GetOrCreateContact, ChangesOnly, NoReplyAdded, TakenOver, Database
<1>3. CASE d.contact[c] # "none"
  BY <1>3, ChangesNothing DEF GetOrCreateContact
<1>4. QED
  BY <1>2, <1>3

\* A contact status is of one chat.
LEMMA SetContactStatusChanges ==
    ASSUME NEW d \in Database, NEW c \in Chats, NEW status \in ContactStatus
    PROVE  LET e == SetContactStatus(d, c, status)
           IN  ChangesOnly(d, e, c) /\ NoReplyAdded(d, e) /\ e.contact[c] = status
<1>1. Len(d.convs[c]) \in Nat
  BY DEF Database
<1>2. QED
  BY <1>1 DEF SetContactStatus, ChangesOnly, NoReplyAdded, Database

\* append_message adds at most the row it was asked for.
LEMMA AppendMessageChanges ==
    ASSUME NEW d \in Database, NEW c \in Chats, NEW i, NEW id, NEW direction
    PROVE  LET e   == AppendMessage(d, c, i, id, direction)
               row == [chat |-> c, id |-> id, conv |-> i, direction |-> direction]
           IN  /\ ChangesOnly(d, e, c)
               /\ e.messages \subseteq d.messages \cup {row}
               /\ e.contact = d.contact /\ e.convs = d.convs
               /\ StoredMessage(e, c, id)
               /\ direction # "outbound" => NoReplyAdded(d, e)
<1> DEFINE e   == AppendMessage(d, c, i, id, direction)
           row == [chat |-> c, id |-> id, conv |-> i, direction |-> direction]
<1>1. Len(d.convs[c]) \in Nat
  BY DEF Database
<1>2. CASE StoredMessage(d, c, id)
  BY <1>2, ChangesNothing DEF AppendMessage, NoReplyAdded
<1>3. CASE ~StoredMessage(d, c, id)
  <2>1. e = [d EXCEPT !.messages = @ \cup {row}]
    BY <1>3 DEF AppendMessage
  <2>2. /\ e.messages = d.messages \cup {row}
        /\ e.contact = d.contact /\ e.convs = d.convs
        /\ e.pauseAi = d.pauseAi /\ e.sendLock = d.sendLock
    BY <2>1 DEF Database
  <2>3. row.chat = c /\ row.id = id /\ row.direction = direction
    OBVIOUS
  <2> HIDE DEF e, row
  <2>4. ChangesOnly(d, e, c)
    BY <1>1, <2>2, <2>3 DEF ChangesOnly
  <2>5. StoredMessage(e, c, id)
    BY <2>2, <2>3 DEF StoredMessage
  <2>6. direction # "outbound" => NoReplyAdded(d, e)
    BY <2>2, <2>3 DEF NoReplyAdded
  <2>7. QED
    BY <2>2, <2>4, <2>5, <2>6 DEF e, row
<1>4. QED
  BY <1>2, <1>3

\* A change of one chat's conversations that removes none.
LEMMA ConversationsChange ==
    ASSUME NEW d \in Database, NEW c \in Chats, NEW q \in Seq(Conversation),
           Len(q) >= Len(d.convs[c])
    PROVE  LET e == [d EXCEPT !.convs[c] = q]
           IN  /\ ChangesOnly(d, e, c) /\ NoReplyAdded(d, e)
               /\ e.messages = d.messages /\ e.contact = d.contact /\ e.convs[c] = q
  BY DEF ChangesOnly, NoReplyAdded, Database

\* get_or_create_active_conversation adds a conversation to the chat.
LEMMA GetOrCreateActiveConversationChanges ==
    ASSUME NEW d \in Database, NEW c \in Chats
    PROVE  LET e == GetOrCreateActiveConversation(d, c)
           IN  /\ ChangesOnly(d, e, c) /\ NoReplyAdded(d, e)
               /\ e.messages = d.messages /\ e.contact = d.contact
<1> DEFINE new == [status |-> "active", stage |-> "rental_listing_matching"]
           q   == Append(d.convs[c], new)
<1>1. d.convs[c] \in Seq(Conversation)
  BY DEF Database
<1>2. new \in Conversation
  BY DEF Conversation, Stage
<1>3. q \in Seq(Conversation) /\ Len(q) >= Len(d.convs[c])
  BY <1>1, <1>2
<1> DEFINE e == GetOrCreateActiveConversation(d, c)
           f == [d EXCEPT !.convs[c] = q]
<1>4. e = d \/ e = f
  BY DEF GetOrCreateActiveConversation
<1> HIDE DEF q
<1>5. /\ ChangesOnly(d, f, c) /\ NoReplyAdded(d, f)
      /\ f.messages = d.messages /\ f.contact = d.contact
  BY <1>3, ConversationsChange
<1> HIDE DEF e, f
<1>6. QED
  BY <1>4, <1>5, ChangesNothing DEF e

\* close_conversation changes one conversation of the chat.
LEMMA CloseConversationChanges ==
    ASSUME NEW d \in Database, NEW c \in Chats, NEW i
    PROVE  LET e == CloseConversation(d, c, i)
           IN  /\ ChangesOnly(d, e, c) /\ NoReplyAdded(d, e)
               /\ e.messages = d.messages /\ e.contact = d.contact
<1> DEFINE q == [d.convs[c] EXCEPT ![i] = [status |-> "closed", stage |-> "end"]]
           e == CloseConversation(d, c, i)
<1>1. e \in Database
  BY CloseConversationType
<1>2. e = [d EXCEPT !.convs[c] = q]
  BY DEF CloseConversation
<1>3. e.convs[c] = q
  BY <1>2 DEF Database
<1>4. d.convs[c] \in Seq(Conversation) /\ e.convs[c] \in Seq(Conversation)
  BY <1>1 DEF Database
<1>5. DOMAIN q = DOMAIN d.convs[c]
  OBVIOUS
<1> HIDE DEF q
<1>6. q \in Seq(Conversation) /\ Len(q) >= Len(d.convs[c])
  BY <1>3, <1>4, <1>5
<1>7. QED
  BY <1>2, <1>6, ConversationsChange

\* A stage change keeps every status, every message and every other chat.
LEMMA SetStageChanges ==
    ASSUME NEW d \in Database, NEW c \in Chats, NEW i, NEW stage \in Stage
    PROVE  LET e == SetStage(d, c, i, stage)
           IN  /\ ChangesOnly(d, e, c) /\ NoReplyAdded(d, e)
               /\ e.messages = d.messages /\ e.contact = d.contact
               /\ DOMAIN e.convs[c] = DOMAIN d.convs[c]
               /\ i \in DOMAIN d.convs[c] => e.convs[c][i].status = d.convs[c][i].status
<1> DEFINE q == [d.convs[c] EXCEPT ![i].stage = stage]
           e == SetStage(d, c, i, stage)
<1>1. e \in Database
  BY SetStageType
<1>2. e = [d EXCEPT !.convs[c] = q]
  BY DEF SetStage
<1>3. e.convs[c] = q
  BY <1>2 DEF Database
<1>4. d.convs[c] \in Seq(Conversation) /\ e.convs[c] \in Seq(Conversation)
  BY <1>1 DEF Database
<1>5. DOMAIN q = DOMAIN d.convs[c]
  OBVIOUS
<1>6. i \in DOMAIN d.convs[c] => q[i].status = d.convs[c][i].status
  <2>1. i \in DOMAIN d.convs[c] => d.convs[c][i] \in Conversation
    BY <1>4
  <2>2. QED
    BY <2>1 DEF Conversation
<1> HIDE DEF q
<1>7. q \in Seq(Conversation) /\ Len(q) >= Len(d.convs[c])
  BY <1>3, <1>4, <1>5
<1>8. /\ ChangesOnly(d, e, c) /\ NoReplyAdded(d, e)
      /\ e.messages = d.messages /\ e.contact = d.contact
  BY <1>2, <1>7, ConversationsChange
<1> HIDE DEF e
<1>9. QED
  BY <1>3, <1>5, <1>6, <1>8 DEF e

\* The reset command closes a conversation of its chat and opens another.
LEMMA ReopenChanges ==
    ASSUME NEW d \in Database, NEW c \in Chats
    PROVE  LET active == ActiveConversation(d, c)
               closed == IF active = 0 THEN d ELSE CloseConversation(d, c, active)
               e      == GetOrCreateActiveConversation(
                             SetContactStatus(closed, c, "active"), c)
           IN  e \in Database /\ ChangesOnly(d, e, c) /\ NoReplyAdded(d, e)
<1> DEFINE active == ActiveConversation(d, c)
           closed == IF active = 0 THEN d ELSE CloseConversation(d, c, active)
           f      == SetContactStatus(closed, c, "active")
           e      == GetOrCreateActiveConversation(f, c)
<1>1. closed \in Database /\ ChangesOnly(d, closed, c) /\ NoReplyAdded(d, closed)
  BY ChangesNothing, CloseConversationType, CloseConversationChanges
<1> HIDE DEF closed
<1>2. f \in Database /\ ChangesOnly(closed, f, c) /\ NoReplyAdded(closed, f)
  BY <1>1, SetContactStatusType, SetContactStatusChanges DEF ContactStatus
<1> HIDE DEF f
<1>3. e \in Database /\ ChangesOnly(f, e, c) /\ NoReplyAdded(f, e)
  BY <1>2, GetOrCreateActiveConversationType, GetOrCreateActiveConversationChanges
<1> HIDE DEF e
<1>4. ChangesOnly(d, f, c) /\ NoReplyAdded(d, f)
  BY <1>1, <1>2, ChangesTransitive
<1>5. ChangesOnly(d, e, c) /\ NoReplyAdded(d, e)
  BY <1>2, <1>3, <1>4, ChangesTransitive
<1>6. QED
  BY <1>3, <1>5 DEF e, f, closed

\* One message of a batch (services.py, handle_bridge_inbound) changes rows of
\* its chat only and records no automated part; only the reset command gives
\* a contact back that was taken over; and a message that does not keep the
\* pipeline from the batch is stored.
LEMMA HandleInboundChanges ==
    ASSUME NEW d, Sound(d), NEW c \in Chats,
           NEW m \in [id : MessageIds, kind : MessageKind]
    PROVE  LET h == HandleInbound(d, c, m)
           IN  /\ ChangesOnly(d, h.db, c) /\ NoReplyAdded(d, h.db)
               /\ m.kind # "reset" /\ TakenOver(d, c) => TakenOver(h.db, c)
               /\ h.reason \notin SkipReasons => StoredMessage(h.db, c, m.id)
<1> DEFINE d1     == GetOrCreateContact(d, c)
           active == ActiveConversation(d1, c)
           d2     == GetOrCreateActiveConversation(d1, c)
           i2     == ActiveConversation(d2, c)
           latest == IF active # 0 THEN active ELSE LatestConversation(d1, c)
           closed == IF active = 0 THEN d1 ELSE CloseConversation(d1, c, active)
           opened == GetOrCreateActiveConversation(SetContactStatus(closed, c, "active"), c)
           h      == HandleInbound(d, c, m)
           store(e, i, direction) ==
               IF i = 0 THEN e ELSE AppendMessage(e, c, i, m.id, direction)
           \* What a value of h.db has to satisfy.
           Good(e) == /\ ChangesOnly(d, e, c) /\ NoReplyAdded(d, e)
                      /\ TakenOver(d, c) => TakenOver(e, c)
<1>1. /\ d \in Database /\ Sound(d1) /\ d1 \in Database
      /\ Good(d1)
  BY GetOrCreateContactSound, GetOrCreateContactChanges DEF Sound
<1>2. active \in Nat /\ d1.contact[c] \in {"active", "paused", "ignored"}
  <2>1. d.contact[c] \in ContactStatus
    BY <1>1 DEF Database
  <2>2. d1.contact[c] \in ContactStatus /\ d1.contact[c] # "none"
    BY <2>1, <1>1 DEF GetOrCreateContact, Database, ContactStatus
  <2>3. QED
    BY <1>1, <2>2, ActiveConversationType DEF ContactStatus
<1>3. /\ d2 \in Database /\ i2 \in Nat /\ i2 # 0
      /\ Good(d2)
  <2>1. StoredOnce(d1) /\ \A x \in Chats : LatestOpenIn(d1.convs[x])
    BY <1>1 DEF Sound, LatestOpen
  <2>2. d2 \in Database /\ ActiveConversations(d2, c) # {}
    BY <1>1, <2>1, CreateConversationSound DEF Sound
  <2>3. /\ ChangesOnly(d1, d2, c) /\ NoReplyAdded(d1, d2)
        /\ d2.contact = d1.contact
    BY <1>1, GetOrCreateActiveConversationChanges
  <2>4. Good(d2)
    BY <1>1, <2>2, <2>3, ChangesTransitive DEF TakenOver
  <2>5. QED
    BY <2>2, <2>4, ActiveConversationType
<1>4. ASSUME NEW e \in Database, Good(e), NEW i \in Nat, NEW direction \in {"inbound", "human"}
      PROVE  /\ store(e, i, direction) \in Database
             /\ Good(store(e, i, direction))
             /\ i # 0 => StoredMessage(store(e, i, direction), c, m.id)
  <2>1. CASE i = 0
    BY <1>4, <2>1
  <2>2. CASE i # 0
    <3> DEFINE f == AppendMessage(e, c, i, m.id, direction)
    <3>1. f \in Database
      BY <1>4, AppendMessageType
    <3>2. /\ ChangesOnly(e, f, c) /\ NoReplyAdded(e, f)
          /\ f.contact = e.contact /\ StoredMessage(f, c, m.id)
      BY <1>4, AppendMessageChanges
    <3>3. Good(f)
      BY <1>1, <1>4, <3>1, <3>2, ChangesTransitive DEF TakenOver
    <3>4. QED
      BY <2>2, <3>1, <3>2, <3>3
  <2>3. QED
    BY <2>1, <2>2
<1>5. ChangesOnly(d, opened, c) /\ NoReplyAdded(d, opened)
  <2>1. opened \in Database /\ ChangesOnly(d1, opened, c) /\ NoReplyAdded(d1, opened)
    BY <1>1, ReopenChanges
  <2>2. QED
    BY <1>1, <2>1, ChangesTransitive
<1>6. latest \in Nat
  BY <1>1, <1>2 DEF LatestConversation, Database
<1> HIDE DEF d1, active, d2, i2, latest, opened, store
<1>7. CASE m.kind = "human" /\ StoredMessage(d1, c, m.id)
  <2>1. h = Handled(d1, "duplicate_from_me_ignored", 0)
    BY <1>7 DEF HandleInbound, d1
  <2>2. QED
    BY <2>1, <1>1, <1>7 DEF Handled
<1>8. CASE m.kind = "reset"
  <2>1. h = Handled(opened, "contact_reset_by_command", 0)
    BY <1>8 DEF HandleInbound, d1, opened, active
  <2>2. QED
    BY <2>1, <1>5, <1>8 DEF Handled, SkipReasons
<1>9. CASE m.kind = "human" /\ ~StoredMessage(d1, c, m.id)
  <2> DEFINE e == store(d1, active, "human")
             f == SetContactStatus(e, c, "paused")
  <2>1. h = Handled(f, "human_reply_paused_contact", 0)
    BY <1>9 DEF HandleInbound, d1, active, store
  <2>2. e \in Database /\ Good(e)
    BY <1>1, <1>2, <1>4
  <2> HIDE DEF e
  <2>3. f \in Database /\ ChangesOnly(e, f, c) /\ NoReplyAdded(e, f) /\ f.contact[c] = "paused"
    BY <2>2, SetContactStatusType, SetContactStatusChanges DEF ContactStatus
  <2> HIDE DEF f
  <2>4. Good(f)
    BY <1>1, <2>2, <2>3, ChangesTransitive DEF TakenOver
  <2>5. QED
    BY <2>1, <2>4 DEF Handled, SkipReasons
<1>10. CASE m.kind = "lead" /\ d1.contact[c] = "ignored"
  <2>1. h = Handled(d1, "contact_ignored", 0)
    BY <1>10 DEF HandleInbound, d1
  <2>2. QED
    BY <2>1, <1>1 DEF Handled, SkipReasons
<1>11. CASE m.kind = "lead" /\ d1.contact[c] = "paused"
  <2>1. h = Handled(store(d1, latest, "inbound"), "contact_paused", 0)
    BY <1>11 DEF HandleInbound, d1, latest, active, store
  <2>2. Good(store(d1, latest, "inbound"))
    BY <1>1, <1>4, <1>6
  <2>3. QED
    BY <2>1, <2>2 DEF Handled, SkipReasons
<1>12. CASE m.kind = "lead" /\ d1.contact[c] = "active"
  <2>1. h = Handled(store(d2, i2, "inbound"), "stored_inbound_message", i2)
    BY <1>12 DEF HandleInbound, d1, d2, i2, store
  <2>2. Good(store(d2, i2, "inbound")) /\ StoredMessage(store(d2, i2, "inbound"), c, m.id)
    BY <1>3, <1>4
  <2>3. QED
    BY <2>1, <2>2 DEF Handled
<1>13. QED
  BY <1>2, <1>7, <1>8, <1>9, <1>10, <1>11, <1>12 DEF MessageKind

=============================================================================

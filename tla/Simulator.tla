------------------------------ MODULE Simulator ------------------------------
(***************************************************************************)
(* Simulator conversations: the requests of backend/app/routers/           *)
(* simulator.py store and answer fake tenant messages in the tables of the *)
(* real ones, and the reset deletes them again (reset_fake_chat_data), the *)
(* only deletion of contacts, conversations and messages there is.  It     *)
(* runs in the thread pool: several resets may overlap.                    *)
(*                                                                         *)
(* Rows have ids here: SQLite gives a new row the largest id plus one, so  *)
(* the id of a deleted row comes again, perhaps for the row of a tenant;   *)
(* foreign keys are not enforced.  A reset and a request keep as an id     *)
(* what they looked up.  Until its first write a session has no            *)
(* transaction and sees what is committed at each look; a write waits for  *)
(* the lock and goes by the id.                                            *)
(*                                                                         *)
(* A look-up and the insertion that follows when it finds nothing are one  *)
(* step: what another request inserts in between is refused by a unique    *)
(* constraint (FailRequest).  Texts, stage runs and the state of contacts  *)
(* are left out; the parts of a reply are one row.                         *)
(***************************************************************************)
EXTENDS FiniteSets, FiniteSetsExt, Functions, Naturals

CONSTANTS
    Tenants,        \* chats of the bridge's batches
    Fakes,          \* chat ids the operator uses in the simulator
    FakeNamed,      \* chat ids that begin with "fake"
    Requests,       \* requests of the simulator and batches of the bridge
    Resets,
    NoChat, NoOne,
    MaxId           \* bound: row ids

Chats == Tenants \cup Fakes
Ids   == 1..MaxId

ASSUME SimulatorAssumption ==
    /\ Chats # {} /\ FakeNamed \subseteq Chats /\ NoChat \notin Chats
    /\ NoOne \notin Requests \cup Resets /\ Requests \cap Resets = {}
    /\ MaxId \in Nat \ {0}

VARIABLES
    db,         \* committed rows
    work,       \* the rows the writer sees; db when there is none
    writer,     \* a request, a reset or NoOne
    request,
    reset,
    crossed     \* observer: a reset deleted what others looked up, see Crosses

vars == <<db, work, writer, request, reset, crossed>>

Source == {"whatsapp", "fake_chat"}

\* The contact 0 and the chat NoChat are no row.
ConversationRow == [contact : 0..MaxId, source : Source, open : BOOLEAN]
NoRow == [contact |-> 0, source |-> "fake_chat", open |-> FALSE]

MessageRow == [chat : Chats \cup {NoChat}, conv : 0..MaxId]
NoMessage  == [chat |-> NoChat, conv |-> 0]

Rows == [contact : [Ids -> Chats \cup {NoChat}],
         conv    : [Ids -> ConversationRow],
         message : [Ids -> MessageRow]]

NoRows == [contact |-> [i \in Ids |-> NoChat],
           conv    |-> [j \in Ids |-> NoRow],
           message |-> [m \in Ids |-> NoMessage]]

\* "quiet": a batch that does not run the pipeline.  "closing": the
\* conversation was looked up to be closed.
Kind == {"inbound", "run", "batch", "quiet"}
Request == [pc : {"idle", "triage", "start", "contact", "closing", "conversation", "match", "over"},
            kind : Kind, chat : Chats, contact : 0..MaxId, conv : 0..MaxId]

NoRequest == [pc |-> "idle", kind |-> "run", contact |-> 0, conv |-> 0,
              chat |-> CHOOSE c \in Chats : TRUE]

\* "gone": the contacts it is about to delete; "overtaken": another reset was
\* committed since it began.
Reset == [pc : {"idle", "conversations", "names", "messages", "deleted", "contacts", "over"},
          convs : SUBSET Ids, contacts : SUBSET Ids, messages : SUBSET Ids, gone : SUBSET Ids,
          overtaken : BOOLEAN]

NoReset == [pc |-> "idle", convs |-> {}, contacts |-> {}, messages |-> {}, gone |-> {},
            overtaken |-> FALSE]

Init ==
    /\ db = NoRows /\ work = NoRows /\ writer = NoOne
    /\ request = [s \in Requests |-> NoRequest]
    /\ reset = [r \in Resets |-> NoReset]
    /\ crossed = FALSE

-----------------------------------------------------------------------------
(***************************************************************************)
(* Rows                                                                    *)
(***************************************************************************)
ContactIds(d) == {i \in Ids : d.contact[i] # NoChat}
ConvIds(d)    == {j \in Ids : d.conv[j] # NoRow}
MessageIds(d) == {m \in Ids : d.message[m] # NoMessage}

\* The id of the next row; the bound leaves out the steps that need a larger one.
NextId(used) == IF used = {} THEN 1 ELSE Max(used) + 1

ContactsOf(d, c) == {i \in Ids : d.contact[i] = c}
ConvsOf(d, i)    == {j \in ConvIds(d) : d.conv[j].contact = i}
OpenConvs(d, i)  == {j \in ConvsOf(d, i) : d.conv[j].open}

\* get_or_create_contact and get_or_create_active_conversation, each with the
\* id it returns; a conversation that is open is taken, whatever its source.
WithContact(d, c) ==
    IF ContactsOf(d, c) # {} THEN [rows |-> d, id |-> CHOOSE i \in ContactsOf(d, c) : TRUE]
    ELSE LET i == NextId(ContactIds(d))
         IN  [rows |-> [d EXCEPT !.contact[i] = c], id |-> i]

WithConversation(d, i, source) ==
    IF OpenConvs(d, i) # {} THEN [rows |-> d, id |-> CHOOSE j \in OpenConvs(d, i) : TRUE]
    ELSE LET j == NextId(ConvIds(d))
         IN  [rows |-> [d EXCEPT !.conv[j] = [contact |-> i, source |-> source, open |-> TRUE]],
              id   |-> j]

WithMessage(d, c, j) ==
    LET m == NextId(MessageIds(d))
    IN  [rows |-> [d EXCEPT !.message[m] = [chat |-> c, conv |-> j]], id |-> m]

-----------------------------------------------------------------------------
(***************************************************************************)
(* Transactions                                                            *)
(***************************************************************************)
View(s) == IF writer = s THEN work ELSE db

\* A session goes on with these rows; its first change makes it the writer.
Continue(s, d) ==
    IF d = View(s) THEN UNCHANGED <<db, work, writer>>
    ELSE /\ writer \in {NoOne, s}
         /\ writer' = s /\ work' = d /\ UNCHANGED db

Commit(s, d) ==
    /\ d # View(s) => writer \in {NoOne, s}
    /\ IF d = View(s) /\ writer # s THEN UNCHANGED <<db, work, writer>>
       ELSE db' = d /\ work' = d /\ writer' = NoOne

Rollback(s) ==
    IF writer = s THEN writer' = NoOne /\ work' = db /\ UNCHANGED db
                  ELSE UNCHANGED <<db, work, writer>>

\* A request holds ids it looked up and no transaction that protects them.
Exposed(s) ==
    request[s].pc \in {"contact", "closing", "conversation", "match"} /\ writer # s

-----------------------------------------------------------------------------
(***************************************************************************)
(* fake_inbound, fake_inbound_and_run and bridge_inbound_batch             *)
(***************************************************************************)
Over == [NoRequest EXCEPT !.pc = "over"]

Step(s, handler) ==
    /\ request' = [request EXCEPT ![s] = handler]
    /\ UNCHANGED <<reset, crossed>>

\* A simulator run or a batch for a chat without an open conversation may wait
\* for the triage first.  (A simulator request for a contact that is paused or
\* ignored may end here, unheard.)
Begin(s) ==
    /\ request[s].pc = "idle"
    /\ \E kind \in Kind, c \in Chats, pc \in {"start", "triage"} :
           /\ c \in (IF kind \in {"inbound", "run"} THEN Fakes ELSE Tenants)
           /\ pc = "triage" => /\ kind \in {"run", "batch"}
                               /\ \A i \in ContactsOf(db, c) : OpenConvs(db, i) = {}
           /\ Step(s, [request[s] EXCEPT !.pc = pc, !.kind = kind, !.chat = c])
    /\ UNCHANGED <<db, work, writer>>

\* No enquiry: the contact is kept.  Otherwise the message is stored.
TriageRejects(s) ==
    /\ request[s].pc = "triage"
    /\ LET found == WithContact(View(s), request[s].chat)
       IN  found.id \in Ids /\ Commit(s, found.rows)
    /\ Step(s, Over)

TriageReturns(s) ==
    /\ request[s].pc = "triage"
    /\ Step(s, [request[s] EXCEPT !.pc = "start"])
    /\ UNCHANGED <<db, work, writer>>

\* After a message the request ends, waits for the model, or, of a batch, takes
\* the next message.
AfterMessage(s, handler, d) ==
    \/ Commit(s, d) /\ Step(s, Over)
    \/ /\ handler.pc = "match" /\ handler.kind \in {"run", "batch"}
       /\ Continue(s, d) /\ Step(s, handler)
    \/ /\ handler.kind \in {"batch", "quiet"}
       /\ Continue(s, d)
       /\ Step(s, [handler EXCEPT !.pc = "start", !.contact = 0, !.conv = 0])

FindContact(s) ==
    /\ request[s].pc = "start"
    /\ LET found == WithContact(View(s), request[s].chat)
       IN  /\ found.id \in Ids /\ Continue(s, found.rows)
           /\ Step(s, [request[s] EXCEPT !.pc = "contact", !.contact = found.id])

SourceOf(s) == IF request[s].kind \in {"inbound", "run"} THEN "fake_chat" ELSE "whatsapp"

\* Mutant: the conversation is made with the type of the message as its source.
FindConversationOfType(s) ==
    /\ request[s].pc = "contact"
    /\ LET found == WithConversation(View(s), request[s].contact, "fake_text")
       IN  /\ found.id \in Ids /\ Continue(s, found.rows)
           /\ Step(s, [request[s] EXCEPT !.pc = "conversation", !.conv = found.id])

\* Mutant: the conversation is made with the column's default source.
FindConversationUnnamed(s) ==
    /\ request[s].pc = "contact"
    /\ LET found == WithConversation(View(s), request[s].contact, "whatsapp")
       IN  /\ found.id \in Ids /\ Continue(s, found.rows)
           /\ Step(s, [request[s] EXCEPT !.pc = "conversation", !.conv = found.id])

\* handle_fake_inbound and handle_bridge_inbound: a message for an active contact.
FindConversation(s) ==
    /\ request[s].pc = "contact"
    /\ LET found == WithConversation(View(s), request[s].contact, SourceOf(s))
       IN  /\ found.id \in Ids /\ Continue(s, found.rows)
           /\ Step(s, [request[s] EXCEPT !.pc = "conversation", !.conv = found.id])

\* A message of the operator, or for a paused contact: no conversation is made,
\* the open one or the latest is taken.
FindQuietly(s) ==
    /\ request[s].pc = "contact" /\ request[s].kind \in {"batch", "quiet"}
    /\ \E j \in ConvsOf(View(s), request[s].contact) :
           /\ View(s).conv[j].open \/ OpenConvs(View(s), request[s].contact) = {}
           /\ Step(s, [request[s] EXCEPT !.pc = "conversation", !.conv = j, !.kind = "quiet"])
    /\ UNCHANGED <<db, work, writer>>

\* There is none, or the contact is ignored, or the operator's message was stored.
FindNothing(s) ==
    /\ request[s].pc = "contact" /\ request[s].kind \in {"batch", "quiet"}
    /\ AfterMessage(s, [request[s] EXCEPT !.kind = "quiet"], View(s))

\* The reset command of a tenant: the open conversation is closed by its id, and
\* another one is made.
FindToClose(s) ==
    /\ request[s].pc = "contact" /\ request[s].kind \in {"batch", "quiet"}
    /\ \E j \in OpenConvs(View(s), request[s].contact) :
           Step(s, [request[s] EXCEPT !.pc = "closing", !.conv = j, !.kind = "quiet"])
    /\ UNCHANGED <<db, work, writer>>

CloseAndReopen(s) ==
    /\ \/ /\ request[s].pc = "closing"
          /\ request[s].conv \in ConvIds(View(s))
       \/ /\ request[s].pc = "contact" /\ request[s].kind \in {"batch", "quiet"}
          /\ OpenConvs(View(s), request[s].contact) = {}
    /\ LET d     == View(s)
           rest  == IF request[s].pc = "contact" THEN d
                    ELSE [d EXCEPT !.conv[request[s].conv].open = FALSE]
           other == WithConversation(rest, request[s].contact, "whatsapp")
       IN  /\ other.id \in Ids
           /\ AfterMessage(s, [request[s] EXCEPT !.kind = "quiet"], other.rows)

\* append_message: a message that is stored already is not stored again.  A
\* simulator request goes on in the conversation of the row it found.
StoreMessage(s) ==
    /\ request[s].pc = "conversation"
    /\ LET handler == [request[s] EXCEPT !.pc = "match"]
           stored  == WithMessage(View(s), request[s].chat, request[s].conv)
       IN  \/ stored.id \in Ids /\ AfterMessage(s, handler, stored.rows)
           \/ \E m \in MessageIds(View(s)) :
                  /\ View(s).message[m].chat = request[s].chat
                  /\ AfterMessage(s, IF SourceOf(s) = "whatsapp" THEN handler
                                     ELSE [handler EXCEPT !.conv = View(s).message[m].conv],
                                  View(s))

\* The reply, if any, is recorded in the transcript of the conversation held.
FinishRun(s) ==
    /\ request[s].pc = "match"
    /\ LET reply == WithMessage(View(s), request[s].chat, request[s].conv)
       IN  Commit(s, View(s)) \/ (reply.id \in Ids /\ Commit(s, reply.rows))
    /\ Step(s, Over)

\* The pipeline refuses the contact, a row held is not there any more, another
\* request inserted it first, or the database stays locked: rolled back.
FailRequest(s) ==
    /\ request[s].pc \notin {"idle", "over"}
    /\ Rollback(s)
    /\ Step(s, Over)

-----------------------------------------------------------------------------
(***************************************************************************)
(* reset_fake_chat_data                                                    *)
(***************************************************************************)
ResetStep(r, state) ==
    /\ reset' = [reset EXCEPT ![r] = state]
    /\ UNCHANGED <<request, crossed>>

\* Mutant: the conversations of contacts with a fake name, whatever their source.
FakeConversationsByContact(d) ==
    {j \in ConvIds(d) : \E i \in ContactIds(d) : d.conv[j].contact = i /\ d.contact[i] \in Fakes}

FakeConversations(d) == {j \in ConvIds(d) : d.conv[j].source = "fake_chat"}

ReadFakeConversations(r) ==
    /\ reset[r].pc = "idle"
    /\ LET convs == FakeConversations(db)
       IN  ResetStep(r, [reset[r] EXCEPT !.pc = "conversations", !.convs = convs,
                                         !.contacts = {db.conv[j].contact : j \in convs}])
    /\ UNCHANGED <<db, work, writer>>

ReadFakeContacts(r) ==
    /\ reset[r].pc = "conversations"
    /\ ResetStep(r, [reset[r] EXCEPT !.pc = "names",
                                     !.contacts = @ \cup {i \in Ids : db.contact[i] \in FakeNamed}])
    /\ UNCHANGED <<db, work, writer>>

\* The messages of these conversations are looked up to be deleted, and again by
\* the flush, before its first write: one that came in between makes the flush
\* fail (messages.conversation_id is not null).
LookAtMessages(r) ==
    /\ reset[r].pc = "names"
    /\ ResetStep(r, [reset[r] EXCEPT !.pc = "messages",
                         !.messages = {m \in MessageIds(db) : db.message[m].conv \in reset[r].convs}])
    /\ UNCHANGED <<db, work, writer>>

\* Mutant: the conversations go, their messages stay.
KeepingMessages(r, d) ==
    [d EXCEPT !.conv = [j \in Ids |-> IF j \in reset[r].convs THEN NoRow ELSE @[j]]]

\* The rows are deleted by the ids that were read.
WithoutFakeRows(r, d) ==
    [d EXCEPT !.conv    = [j \in Ids |-> IF j \in reset[r].convs THEN NoRow ELSE @[j]],
              !.message = [m \in Ids |-> IF m \in reset[r].messages THEN NoMessage ELSE @[m]]]

\* The flush writes once it has the lock, whatever came since it looked.
DeleteFakeRows(r) ==
    /\ reset[r].pc = "messages"
    /\ IF reset[r].convs = {} THEN UNCHANGED <<work, writer>>
       ELSE writer = NoOne /\ writer' = r /\ work' = WithoutFakeRows(r, db)
    /\ ResetStep(r, [reset[r] EXCEPT !.pc = "deleted"])
    /\ UNCHANGED db

\* Mutant: every contact of a simulator conversation is deleted.
NoneProtected(d) == {}

\* Contacts that have a conversation left.
Protected(d) == {d.conv[j].contact : j \in ConvIds(d)}

\* As with the messages, a conversation that came before the flush looks at the
\* conversations of these contacts makes it fail.
LookAtContacts(r) ==
    /\ reset[r].pc = "deleted"
    /\ ResetStep(r, [reset[r] EXCEPT !.pc = "contacts",
                         !.gone = (reset[r].contacts \cap ContactIds(View(r))) \ Protected(View(r))])
    /\ UNCHANGED <<db, work, writer>>

\* What this reset deletes although nobody told it of it, or others hold it: a
\* message or a conversation that came after it looked, under the rows it
\* deletes, or ids that a request holds without a transaction.
Crosses(r) ==
    \/ \E m \in MessageIds(db) \ reset[r].messages : db.message[m].conv \in reset[r].convs
    \/ writer # r /\ \E j \in ConvIds(db) : db.conv[j].contact \in reset[r].gone
    \/ \E s \in Requests :
           Exposed(s) /\ (request[s].contact \in reset[r].gone \/ request[s].conv \in reset[r].convs)

\* The contacts are deleted by their ids, and the reset is committed.
DeleteFakeContacts(r) ==
    /\ reset[r].pc = "contacts"
    /\ reset[r].gone # {} => writer \in {NoOne, r}
    /\ LET d == View(r)
       IN  Commit(r, [d EXCEPT !.contact =
                         [i \in Ids |-> IF i \in reset[r].gone THEN NoChat ELSE @[i]]])
    /\ crossed' = (crossed \/ Crosses(r))
    /\ reset' = [q \in Resets |->
           IF q = r THEN [NoReset EXCEPT !.pc = "over"]
           ELSE IF reset[q].pc \in {"idle", "over"} THEN reset[q]
           ELSE [reset[q] EXCEPT !.overtaken = TRUE]]
    /\ UNCHANGED request

\* A row came under one that is being deleted, or the database stays locked.
FailReset(r) ==
    /\ reset[r].pc \notin {"idle", "over"}
    /\ Rollback(r)
    /\ ResetStep(r, [NoReset EXCEPT !.pc = "over"])

-----------------------------------------------------------------------------
Next ==
    \/ \E s \in Requests :
           \/ Begin(s) \/ TriageRejects(s) \/ TriageReturns(s)
           \/ FindContact(s) \/ FindConversation(s) \/ FindQuietly(s) \/ FindNothing(s)
           \/ FindToClose(s) \/ CloseAndReopen(s)
           \/ StoreMessage(s) \/ FinishRun(s) \/ FailRequest(s)
    \/ \E r \in Resets :
           \/ ReadFakeConversations(r) \/ ReadFakeContacts(r) \/ LookAtMessages(r)
           \/ DeleteFakeRows(r) \/ LookAtContacts(r) \/ DeleteFakeContacts(r) \/ FailReset(r)

Spec == Init /\ [][Next]_vars

-----------------------------------------------------------------------------
\* Every variable has its type.
TypeOK ==
    /\ db \in Rows /\ work \in Rows
    /\ writer \in Requests \cup Resets \cup {NoOne}
    /\ request \in [Requests -> Request]
    /\ reset \in [Resets -> Reset]
    /\ crossed \in BOOLEAN

\* Every conversation has its contact and every message its conversation, in
\* spite of deletions (reset_fake_chat_data), unless a reset crossed others.
NoOrphans ==
    crossed \/
        /\ \A j \in ConvIds(db) : db.conv[j].contact \in ContactIds(db)
        /\ \A m \in MessageIds(db) : db.message[m].conv \in ConvIds(db)

\* A message is in a conversation of its own chat: an id that comes again does
\* not bring the rows of one chat into the conversation of another.
MessagesOfOwnChat ==
    crossed \/
    \A m \in MessageIds(db) :
        db.contact[db.conv[db.message[m].conv].contact] = db.message[m].chat

\* docs/domain-glossary.md: the transcript of a simulator conversation is
\* simulator-only, and not the channel transcript.  It is, for chat ids the
\* simulator does not share with a tenant.
SeparateTranscripts ==
    crossed \/
    \A m \in MessageIds(db) :
        LET row == db.message[m]
        IN  /\ row.chat \in Fakes \ Tenants => db.conv[row.conv].source = "fake_chat"
            /\ row.chat \in Tenants \ Fakes => db.conv[row.conv].source = "whatsapp"

\* Every row is where it belongs, under a parent that exists, of its own chat,
\* on its own side: unless a reset, waiting for the lock or for its next look,
\* deleted the parent of a row that came meanwhile, or a row whose id a request
\* or a batch went on to use (reset_fake_chat_data, handle_bridge_inbound,
\* handle_fake_inbound).
RowsBelongTogether == NoOrphans /\ MessagesOfOwnChat /\ SeparateTranscripts

OfWhatsApp(m) == m \in MessageIds(db) /\ db.conv[db.message[m].conv].source = "whatsapp"

\* A reset deletes no conversation of WhatsApp and nothing said in one, even of
\* a chat id the simulator shares, and whatever requests and batches overlap it:
\* the only one that may is a reset that another reset overtook, since the ids
\* it has read may have been given to other rows (reset_fake_chat_data).
WhatsAppRowsStay ==
    [][ \/ /\ \A j \in ConvIds(db) : db.conv[j].source = "whatsapp" =>
                  db'.conv[j] \in {db.conv[j], [db.conv[j] EXCEPT !.open = FALSE]}
           /\ \A m \in Ids : OfWhatsApp(m) => db'.message[m] = db.message[m]
        \/ \E r \in Resets : reset[r].overtaken /\ reset[r].pc = "contacts" /\ reset'[r].pc = "over"
      ]_vars

=============================================================================

---------------------------- MODULE ProsperStore ----------------------------
(***************************************************************************)
(* The SQLite rows the message path works on, and the row operations of    *)
(* backend/app/services.py.  A database value is a record, every operation *)
(* maps a database to the database the session sees after it; which of     *)
(* them is committed, and when, is the business of BridgeBackend.          *)
(*                                                                         *)
(* Contacts are identified by their chat (chat_jid is unique), the         *)
(* conversations of a contact are numbered in the order of creation, and a *)
(* message row keeps the key of its unique constraint (chat and message    *)
(* id), the conversation it belongs to and its direction.  Texts,          *)
(* timestamps, senders, display names and status reasons are left out.     *)
(***************************************************************************)
EXTENDS Naturals, Sequences

CONSTANTS
    Chats,          \* chat_jid values
    MessageIds,     \* message ids of WhatsApp messages typed by people
    OutboundIds     \* message ids the bridge returns for automated sends

ContactStatus == {"none", "active", "paused", "ignored"}   \* "none": no row
Stage         == {"rental_listing_matching", "manual_review", "end"}

Conversation == [status : {"active", "closed"}, stage : Stage]

MessageRow == [chat : Chats, id : MessageIds \cup OutboundIds, conv : Nat,
               direction : {"inbound", "human", "outbound"}]

Database == [contact  : [Chats -> ContactStatus],
             convs    : [Chats -> Seq(Conversation)],
             messages : SUBSET MessageRow,
             pauseAi  : BOOLEAN,
             sendLock : BOOLEAN]

EmptyDatabase == [contact  |-> [c \in Chats |-> "none"],
                  convs    |-> [c \in Chats |-> << >>],
                  messages |-> {},
                  pauseAi  |-> FALSE,
                  sendLock |-> FALSE]

(***************************************************************************)
(* Integrity of the rows                                                   *)
(***************************************************************************)

LatestOpenIn(convs) ==
    \A i \in DOMAIN convs : convs[i].status = "active" <=> i = Len(convs)

\* A contact with conversations has one that is open, and it is the last.
LatestOpen(d) == \A c \in Chats : LatestOpenIn(d.convs[c])

\* The unique constraint of the messages.
StoredOnce(d) ==
    \A x, y \in d.messages : x.chat = y.chat /\ x.id = y.id => x = y

(***************************************************************************)
(* Queries                                                                 *)
(***************************************************************************)

\* The conversations get_active_conversation selects from; 0 stands for None.
ActiveConversations(d, c) ==
    {i \in DOMAIN d.convs[c] : d.convs[c][i].status = "active"}

ActiveConversation(d, c) ==
    IF ActiveConversations(d, c) = {} THEN 0
    ELSE CHOOSE i \in ActiveConversations(d, c) : TRUE

\* get_latest_conversation orders by the time of the last update.  It is asked
\* only when no conversation is active, and then there is none at all
\* (LatestConversationOpen in BridgeBackend), so the order does not matter.
LatestConversation(d, c) == Len(d.convs[c])

StoredMessage(d, c, id) == \E row \in d.messages : row.chat = c /\ row.id = id

\* Mutant: asks for the replies of the operator.
AutoReplySentByOperator(d, c, i) ==
    \E row \in d.messages :
        row.chat = c /\ row.conv = i /\ row.direction = "human"

AutoReplySent(d, c, i) ==
    \E row \in d.messages :
        row.chat = c /\ row.conv = i /\ row.direction = "outbound"

(***************************************************************************)
(* Row operations                                                          *)
(***************************************************************************)

\* Mutant: a message makes the contact active again.
GetOrActivateContact(d, c) == [d EXCEPT !.contact[c] = "active"]

GetOrCreateContact(d, c) ==
    IF d.contact[c] = "none" THEN [d EXCEPT !.contact[c] = "active"] ELSE d

SetContactStatus(d, c, status) == [d EXCEPT !.contact[c] = status]

\* Mutant: the open conversation is not reused.
CreateActiveConversation(d, c) ==
    [d EXCEPT !.convs[c] =
        Append(@, [status |-> "active", stage |-> "rental_listing_matching"])]

GetOrCreateActiveConversation(d, c) ==
    IF ActiveConversations(d, c) # {} THEN d
    ELSE [d EXCEPT !.convs[c] =
              Append(@, [status |-> "active", stage |-> "rental_listing_matching"])]

CloseConversation(d, c, i) ==
    [d EXCEPT !.convs[c][i] = [status |-> "closed", stage |-> "end"]]

SetStage(d, c, i, stage) == [d EXCEPT !.convs[c][i].stage = stage]

\* Mutant: no look-up by chat and message id before the insert.
InsertMessage(d, c, i, id, direction) ==
    [d EXCEPT !.messages = @ \cup
        {[chat |-> c, id |-> id, conv |-> i, direction |-> direction]}]

\* append_message returns the row already stored under this chat and id, if any.
AppendMessage(d, c, i, id, direction) ==
    IF StoredMessage(d, c, id) THEN d
    ELSE [d EXCEPT !.messages = @ \cup
              {[chat |-> c, id |-> id, conv |-> i, direction |-> direction]}]

(***************************************************************************)
(* handle_bridge_inbound: one message of a batch, as typed by the tenant   *)
(* ("lead"), as the tenant's !reset command ("reset") or as typed by the   *)
(* operator on the phone ("human", from_me).  conv is 0 when the handler   *)
(* returns no conversation for the pipeline.                               *)
(***************************************************************************)
MessageKind == {"lead", "reset", "human"}

Handled(d, reason, conv) == [db |-> d, reason |-> reason, conv |-> conv]

HandleInbound(d, c, m) ==
    LET d1     == GetOrCreateContact(d, c)
        active == ActiveConversation(d1, c)
        status == d1.contact[c]
        store(d2, i, direction) ==
            IF i = 0 THEN d2 ELSE AppendMessage(d2, c, i, m.id, direction)
    IN
    CASE m.kind = "human" /\ StoredMessage(d1, c, m.id) ->
             Handled(d1, "duplicate_from_me_ignored", 0)
      [] m.kind = "reset" ->
             LET closed == IF active = 0 THEN d1 ELSE CloseConversation(d1, c, active)
             IN  Handled(GetOrCreateActiveConversation(
                             SetContactStatus(closed, c, "active"), c),
                         "contact_reset_by_command", 0)
      [] m.kind = "human" /\ ~StoredMessage(d1, c, m.id) ->
             Handled(SetContactStatus(store(d1, active, "human"), c, "paused"),
                     "human_reply_paused_contact", 0)
      [] m.kind = "lead" /\ status = "ignored" ->
             Handled(d1, "contact_ignored", 0)
      [] m.kind = "lead" /\ status = "paused" ->
             Handled(store(d1, IF active # 0 THEN active ELSE LatestConversation(d1, c), "inbound"),
                     "contact_paused", 0)
      [] m.kind = "lead" /\ status = "active" ->
             LET d2 == GetOrCreateActiveConversation(d1, c)
                 i  == ActiveConversation(d2, c)
             IN  Handled(store(d2, i, "inbound"), "stored_inbound_message", i)

\* The reasons that make the batch handler skip the pipeline for the whole batch.
SkipReasons == {"human_reply_paused_contact", "contact_paused",
                "contact_ignored", "contact_reset_by_command"}

\* should_pretriage_before_storing, for a message that is not from_me.
ShouldPretriage(d, c) ==
    /\ ~d.pauseAi
    /\ ActiveConversations(d, c) = {}
    /\ d.contact[c] \in {"none", "active"}

=============================================================================

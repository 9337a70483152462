------------------------ MODULE BridgeBackendProps ------------------------
(***************************************************************************)
(* What the batch path of the backend promises, stated over BridgeBackend. *)
(***************************************************************************)
EXTENDS BridgeBackend

\* Every variable has its type: the committed and the working database are
\* databases, a handler's counters are in range, deliveries are of this model.
TypeOK ==
    /\ db \in Database
    /\ work \in Database
    /\ writer \in Requests \cup {NoRequest}
    /\ loop \in Requests \cup {NoRequest}
    /\ req \in [Requests -> Handler]
    /\ post \in [Batches -> Post]
    /\ sent \subseteq Chats \X Nat \X Requests \X (1..Parts)
    /\ budget \in Budget

-----------------------------------------------------------------------------
(***************************************************************************)
(* Rows                                                                    *)
(***************************************************************************)

\* A contact that ever had a conversation has exactly one open conversation,
\* the last one, in what is committed and in what the writer sees: resets,
\* replays and concurrent first messages never leave two open ones or none.
LatestConversationOpen == LatestOpen(db) /\ LatestOpen(work)

\* A message of a chat has one row, however often its batch is posted and
\* whichever conversation is open when it comes again.
MessageStoredOnce == StoredOnce(db) /\ StoredOnce(work)

\* All recorded automated parts of a conversation come from one request.
OneRecordedReply ==
    \A x, y \in work.messages :
        /\ x.direction = "outbound" /\ y.direction = "outbound"
        /\ x.chat = y.chat /\ x.conv = y.conv
        => x.id[1] = y.id[1]

\* The open transaction of a request only touches its own chat, on top of what
\* is committed: nothing committed since it began can be undone by its commit.
WriterIsolation ==
    \A r \in Requests : writer = r =>
        /\ work.pauseAi = db.pauseAi /\ work.sendLock = db.sendLock
        /\ db.messages \subseteq work.messages
        /\ \A row \in work.messages \ db.messages : row.chat = Chat(r)
        /\ Len(work.convs[Chat(r)]) >= Len(db.convs[Chat(r)])
        /\ \A c \in Chats \ {Chat(r)} :
               work.contact[c] = db.contact[c] /\ work.convs[c] = db.convs[c]

-----------------------------------------------------------------------------
(***************************************************************************)
(* Automated replies                                                       *)
(***************************************************************************)

\* A part is only sent by the request that has the write transaction, so at
\* most one reply is being sent at any time, in any chat, and no operator
\* action can be committed between its gates and its last part.
SendingIsWriting == \A r \in Requests : req[r].pc = "send" => writer = r

\* The handler has stored a message of its batch in its open transaction.
StoresNewMessage(r) ==
    \E row \in work.messages \ db.messages : row.direction # "outbound"

\* While a part is sent the AI pause and the send lock are off, the committed
\* transcript of the conversation has no automated reply, and if the handler
\* stored a message the contact is active and the conversation open.
SendsPassTheGates ==
    \A r \in Requests : req[r].pc = "send" =>
        /\ ~db.pauseAi /\ ~db.sendLock
        /\ ~AutoReplySent(db, Chat(r), req[r].conv)
        /\ StoresNewMessage(r) =>
               /\ work.contact[Chat(r)] = "active"
               /\ work.convs[Chat(r)][req[r].conv].status = "active"

-----------------------------------------------------------------------------
(***************************************************************************)
(* Steps                                                                   *)
(***************************************************************************)

\* A request commits in this step.
Commits(r) == req[r].pc # "ok" /\ req'[r].pc = "ok"

\* A contact that is paused or ignored becomes active again only by the
\* operator or by a batch of that chat with the reset command in it.
TakeoverSticks ==
    [][ \A c \in Chats :
          db.contact[c] \in {"paused", "ignored"} /\ db'.contact[c] = "active"
          => \/ budget'.operations # budget.operations
             \/ \E r \in Requests :
                    /\ Commits(r) /\ Chat(r) = c
                    /\ \E n \in DOMAIN Batch(r) : Batch(r)[n].kind = "reset" ]_vars

\* The bridge hears 200 for a batch that reached the pipeline only when every
\* message of the batch is committed, so it may forget them.
AckedMessagesAreStored ==
    [][ \A r \in Requests :
          Commits(r) /\ req[r].conv # 0 /\ ~req[r].skip /\ req[r].next > Len(Batch(r)) =>
              \A n \in DOMAIN Batch(r) : StoredMessage(db', Chat(r), Batch(r)[n].id) ]_vars

-----------------------------------------------------------------------------
(***************************************************************************)
(* Progress                                                                *)
(***************************************************************************)

\* Every write transaction ends.
WriterReleases == (writer # NoRequest) ~> (writer = NoRequest)

-----------------------------------------------------------------------------
(***************************************************************************)
(* What the documents say and the code does not do                         *)
(***************************************************************************)

\* docs/architecture.md: duplicate inbound events are ignored.  So no request
\* whose messages were all stored before goes to the matching prompt.
DuplicatesIgnored ==
    \A r \in Requests : req[r].pc \in {"match", "send"} =>
        \E n \in DOMAIN Batch(r) : ~StoredMessage(db, Chat(r), Batch(r)[n].id)

\* docs/reliability.md: replayed bridge events do not create duplicate
\* conversations.  So a chat has one conversation more than the resets its
\* tenant has typed, at most.
ResetsTyped(c) ==
    UNION {{<<b, n>> : n \in {i \in DOMAIN MessagesOf[b] : MessagesOf[b][i].kind = "reset"}} :
               b \in {x \in Batches : ChatOf[x] = c}}

OneConversationPerReset ==
    \A c \in Chats : Len(db.convs[c]) <= 1 + Cardinality(ResetsTyped(c))

\* docs/reliability.md: no processing when a contact is paused or ignored or a
\* human has replied, checked before model work and before outbound execution.
GatesBeforeOutbound ==
    \A r \in Requests : req[r].pc = "send" => work.contact[Chat(r)] = "active"

=============================================================================

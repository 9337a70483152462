# Prosper: a TLA+ development of the enquiry path

Prosper answers rental enquiries on WhatsApp. A Node.js *bridge* (Baileys) holds
the WhatsApp socket, collects the messages of a chat into bursts and posts them to
a FastAPI *backend*. The backend asks a language model whether a new chat is a
rental enquiry, stores contacts, conversations and messages in SQLite, asks the
model which listing the tenant means, and sends the Playbook of that listing back
through the bridge. An operator watches a React *dashboard*, pauses or ignores
contacts, closes the global switches, and may answer on the phone at any time,
which must silence the automation.

What makes this hard is not one algorithm. It is that a batch is handled over
several seconds, with two model calls and several sends in it, while other
batches, the operator, retries of the same batch and crashes happen at any point.
The modules here model that path as the code has it.

All paths below are relative to the repository (`src/` in the `PROJECT.json` map).

## 1. Inventory

| Component | Code | State | Operations | Modelled |
|---|---|---|---|---|
| Row operations | `backend/app/services.py`, `database/models.py` | contacts, conversations, messages, switches | look up, create, close, append, pause, ignore, reset | `ProsperStore` |
| Batch endpoint and pipeline | `routers/bridge.py`, `pipeline.py`, `actions.py`, `router_support.py`, `database/connection.py` | one handler per request, its session and its transaction | triage, store, route, match, send, commit | `BridgeBackend` |
| Posting with retries | `bridge/src/backend.ts` | attempts of a post | post, retry, give up | `BridgeBackend`, `InboundBuffer` |
| Burst buffers | `bridge/src/inboundBuffer.ts`, `index.ts` 643-712 | buffer and timer per chat, open lookups | receive, flush, flushAll | `InboundBuffer` |
| Graceful shutdown | `bridge/src/index.ts` 492-526 | up, stopping, down | stop, flush, exit | `InboundBuffer` |
| Socket lifecycle | `bridge/src/index.ts` 222-641, 714-858, `pairing.ts` | socket generation, current socket, reconnect timer and counters, credentials | connect, events, reconnect, shutdown | `SocketLifecycle`; the QR code, statistics and recent messages are left out |
| Send server | `bridge/src/sendServer.ts`, `services.py` 429-504 | none of its own | check, send to WhatsApp; the backend's retries | `BridgeSend` |
| Normalisation | `bridge/src/normalize.ts` | none | unwrap, drop | no: a pure function of one message |
| Simulator | `routers/simulator.py`, `services.py` 218-272 | conversations with source `fake_chat` | message, run, reset | `Simulator` |
| Dashboard routes | `routers/conversations.py`, `config_runtime.py` | contact status, switches | update | in `BridgeBackend` |
| Property media | `routers/listings.py` 165-236, `media_storage.py`, `services.py` 291-376 | media rows, files | upload, delete, delete a listing | `PropertyMedia` |
| Listings | `routers/listings.py` 1-135, `services.py` 275-337 | listing rows | save, delete | `ListingReplies` |
| Playbooks | `playbooks.py`, `actions.py` | Playbook rows | validate, save, seed, prune, render | `ListingReplies` |
| Backup and restore | `backup.py`, `cli.py` | archives, rollback snapshot, live database and media | create, verify, restore, undo, cleanup | `BackupRestore` |
| Model client | `llm.py`, `prompts/` | none | prompt with retries | its outcomes, in `BridgeBackend` |
| Authentication | `auth.py`, `dependencies.py`, `routers/auth.py` | a session cookie | log in, check | no: every modelled request is authorised |
| Readiness, seeding, configuration | `readiness.py`, `seed.py`, `config.py`, `main.py`, `cli.py` | none of their own | reports; insert what is missing | coverage and media checks and seeding in `ListingReplies`; the other reports are read-only |
| Dashboard | `frontend/src/` | view state, drafts, polls in flight | load, edit, save | no, see 7 |
| Scripts, evaluations, CI | `scripts/`, `evals/` | none | tools around the program | no |

How they interact: WhatsApp -> socket -> buffers -> `POST /api/bridge/inbound-batch`
-> rows and pipeline -> `POST /send` on the bridge -> WhatsApp. The dashboard calls
the backend over REST and the backend is the only one to touch SQLite. The buffers
also ask the backend how long to wait (`GET /api/bridge/chat-state`).

### Where the behaviour is hard, and what has to hold

* **Concurrent requests.** The bridge's handlers are coroutines of one event loop,
  dashboard handlers run in a thread pool, and each has a database session. A chat
  must keep one open conversation, each WhatsApp message one row, and a
  conversation the automated reply of one request.
* **Objects held over an await.** A session does not read a loaded row again. What
  was checked before a prompt may be false after it.
* **Transactions held over an await.** The first row a request writes locks the
  database until it commits, prompts and sends included. The transaction must end
  in every case, and must not overwrite what others committed.
* **Retries, lost responses, crashes.** A post may be handled twice, at the same
  time. Rows must not be duplicated, and what is acknowledged must be stored.
* **Takeover.** Once the operator has answered, ignored or paused a chat, only the
  operator or the tenant's `!reset` may reopen it.
* **Bursts.** A message arrives while the wait of its burst is asked for, while the
  timer is due or while the previous flush is still being posted. It must not be
  lost, doubled, left without a timer, or handed to the poster out of order. (What the
  backend gets first is another matter: posts are retried side by side.)
* **Shutdown.** What is buffered at a signal is posted before the process exits, and
  the process does exit, whatever sends and reconnects are in progress.
* **Sockets that replace each other.** Closes, the reconnect timer and the operator
  all start connects, which await twice before their socket is there. One socket may
  live, and the bridge must not end up with none and nothing under way.
* **Sends whose answer is lost.** The backend sends again while the first call may
  still be on its way. Parts must not change their order, and a part may come twice
  only if its call was not heard.
* **A reply that takes minutes.** It is rendered once, while the operator edits or
  deletes what it was made of. Checks made in one step and writes made in a later
  one must not overwrite what the operator saved.
* **Deleted rows.** The simulator's reset deletes the rows it has read, SQLite gives
  their ids to new rows, and other requests still hold the old ids.
* **Files beside rows.** A media file and its row are written one after the other,
  a backup copies one after the other, and a restore replaces database, log and
  media one after the other. Errors and kills fall between any two of these steps.

The `hazards` of `PROJECT.json` list these at their lines, with the properties that
cover them, and those that nothing covers yet.

## 2. Modules

```
ProsperStore            rows and row operations (pure operators)
  BridgeBackend         the batch path: handlers, transactions, bridge, operator
    BridgeBackendProps  its properties
      MCBridgeBackend   its instances for TLC
    BridgeBackendRefinement  BridgeBackend implements BatchTransactions
  BatchTransactions     abstract: a post has one effect, or none (no handlers, no locks)
  ProsperStoreProofs    lemmas about the row operations
    BridgeBackendProofs invariants of BridgeBackend, proved (extends BridgeBackendProps too)
      BridgeBackendWriterProofs  transactions, replies, takeovers and acknowledgements, proved
PropertyMedia           media files and rows of the running backend, over SQLite
  BackupRestore         backup, restore, undo and cleanup beside it, with the properties
    MCBackupRestore     its instances for TLC
    BackupRestoreProofs its invariants, proved
InboundBuffer           the bridge's burst buffers and shutdown, with its properties
  MCInboundBuffer       its instance for TLC
  InboundBufferProofs   its invariants, proved
SocketLifecycle         the bridge's sockets: connects, events, timer, reconnects, shutdown
  BridgeSend            a reply sent over them, with retries; the properties of both
    MCBridgeSend        its instance for TLC
    BridgeSendProofs    invariants of the sockets and of the reply, proved
ListingReplies          listings, Playbooks, media rows, the doctor, and a reply made of them
  MCListingReplies      its instance for TLC
  ListingRepliesProofs  its invariants and action properties, proved
Simulator               simulator requests and resets beside batches, over rows with ids
  MCSimulator           its instance for TLC
  SimulatorProofs       its invariants and action property, proved
```

An operator whose comment begins with "Mutant:" is a plausible bug of the operator
after it. Nothing uses it. Putting it in the place of the correct operator must
break the property it is listed with in `PROJECT.json`.

### 2.1 ProsperStore

A database value is a record: the status of each contact (`"none"` without a row),
the conversations of each contact in the order they were created, the set of
message rows and the two switches. Each function of `services.py` on the message
path is an operator from a database to a database. `HandleInbound` is
`handle_bridge_inbound` with all its early returns, in the code's order.

Left out: text, timestamps, senders, display names, status reasons, listings.
`matched_property_id` is not kept: the only test of it (`pipeline.py` 377) cannot
be reached, because a conversation of an earlier message is at
`rental_listing_matching`, `manual_review` or `end`, and the first of these is the
branch before. `get_latest_conversation` sorts by the time of the last update. It is
only asked when no conversation is active, and a contact that has conversations
always has an active one (`LatestConversationOpen`), so its order does not matter.

### 2.2 BridgeBackend

| Variable | Code |
|---|---|
| `db` | what is committed in SQLite |
| `writer`, `work` | the request whose session has the write transaction, and what it sees |
| `loop` | the coroutine that runs at the moment and has not reached an await |
| `req` | per attempt of a post: where the handler is and its local variables |
| `post` | per batch: `postJsonWithRetry`, its attempts and whether it waits |
| `sent` | the parts of replies that reached WhatsApp |
| `budget` | losses, operator actions and crashes so far (bounds only) |

| Action | Code |
|---|---|
| `Start`, `TriageRejects`, `TriageReturns` | `bridge_inbound_batch` 133-166, `run_triage_text` |
| `StoreMessage` | the loop 168-177, one message a step |
| `RouteNothing`, `RouteEnquiry`, `RouteManualReview`, `RouteStored`, `RouteNoAction` | 179-206 with `ensure_pipeline_allowed`, `route_stored_conversation_after_inbound` |
| `MatchManualReview`, `MatchWithoutReply`, `MatchReply` | `run_rental_listing_matching` and `execute_outbound_action_plan` up to the first send |
| `SendPart`, `SendFails` | `_send_action`, one part, and the end of the sequence |
| `LockTimeout` | "database is locked" in a coroutine |
| `Submit`, `GetResponse`, `LoseResponse` | `postJsonWithRetry` |
| `UpdateContactStatus`, `UpdateConfig` | the two dashboard routes |
| `Crash` | the backend process is killed and started again |

Granularity and the reasons for it:

* The code between two awaits of a coroutine is not interleaved with another
  coroutine. It may be interleaved with a dashboard thread, so a stretch with several
  database operations is several steps, and `loop` keeps other coroutines out of it.
  The gate reads at `bridge.py` 179-184 are one step.
* A session with `autoflush=False` sends rows where the code flushes, and SQLite
  takes its lock at the first row. From there to the commit the request is `writer`.
  A stage run is such a row: stage runs are not kept in the model, but writing one
  takes the lock (`Hold`, `RouteNoAction`).
* The writer's coroutine is in an await while another coroutine wants to write. The
  other one blocks the event loop, so the writer cannot go on, and the busy timeout
  always expires: `LockTimeout`, then a 500, then a retry by the bridge. A dashboard
  thread does not block the loop and simply waits (`Operate` needs `writer =
  NoRequest`).
* The session keeps loaded objects until a commit. `heldConv` and `heldContact` are
  the attributes of the objects loaded at `bridge.py` 183-184, which the gate before
  the send looks at.
* `ensure_pipeline_allowed` and the checks before it read the same rows without an
  await in between, so its own errors are not separate outcomes.
* Whether the Playbook of a listing renders, and whether its media files exist, is
  data of the listing: `MatchWithoutReply` may happen in any case.

### 2.3 InboundBuffer

| Variable | Code |
|---|---|
| `buffers` | the map of buffers; `made` tells two buffer objects of a chat apart, as `buffers.get(chat) !== buffer` does |
| `armed` | timers that will fire |
| `fetches` | open calls of `burstWaitForChat` |
| `waiting` | promises of operator messages that await a flush |
| `posts`, `posted`, `forwarded`, `failed` | posts in progress, handed over, accepted, given up |
| `process`, `flushing` | `gracefulShutdown` and its `flushAll` |

`ReceiveFromMe`, `ReceiveMore`, `ReceiveFirst` are the three ways through `receive`.
`FetchReturns` is what follows the await in it, `TimerFires` the timer's callback,
`ForwardImmediate` what follows the flush an operator message waits for, `Stop`,
`FlushNext` and `Exit` the shutdown. `NextTurn` says that a promise that can go on
does so before timers, answers and signals are looked at. Closing the send server
and saving credentials are part of `Exit`. The order in which `flushAll` takes the
chats is left open. A crash of the bridge is not modelled: the buffers are in
memory and the code promises nothing for them.

### 2.4 PropertyMedia and BackupRestore

`PropertyMedia` has the files the backend writes: `main` and `wal` are the SQLite
database and its write-ahead log, `disk` the media directory; `upload` and `removal`
say how far the handlers of a file are. A database file has an identity, which its
log shares, because SQLite replays the log it finds beside a database whatever file
it was written for. Of the rows the model keeps the media files they name. `StoreUpload`
and `RecordUpload` are the two halves of an upload, `UnlinkMedia` and
`DeleteMediaRow` those of a deletion. Every outcome of a half is a disjunct: done,
rejected with clean-up, database locked.

`BackupRestore` adds the command line of `backup.py`; `pc` is the step it is at.

| Action | Code |
|---|---|
| `CopyDatabase`, `CollectMedia`, `WriteArchive` | `create_backup`: SQLite's copy, `_property_media_entries`, the archive, its verification and the rename |
| `RestoreStart`, `SnapshotDatabase`, `SnapshotMedia` | `restore_backup` up to the activation |
| `DropSidecars`, `ReplaceDatabase`, `MoveMedia`, `PlaceMedia`, `FinishRestore` | `_activate_restore` |
| `ActivationFails`, `UndoMain`, `UndoWal`, `UndoMedia` | an exception in it, `_restore_rollback_snapshot` |
| `CleanStart`, `CleanDatabase`, `CleanWal`, `CleanMedia`, `RemoveArchive` | the two cleanup commands |
| `CutOff` | the command is killed, or fails where nothing undoes it; `CutStep` is what a copy or deletion cut in the middle leaves |

`before` and `damage` are observers: the live data when a restore began, and which
kinds of command were cut off since the data was last whole. An archive carries the
`damage` of the data it was made of. Rows are collected and media checked in one step
each, although the code goes file by file: names are never used twice, so a file that
is gone at the end of either pass fails the backup or is skipped in both versions.
The shared-memory file of SQLite is rebuilt from the log and left out, like
temporary names, which nothing reads. The archive that is restored is one the program
made: damaged ones are rejected by `verify_backup` before anything is touched.

A backup lists as skipped, and leaves out, media whose path has a part like `build` or
`logs` or whose name has a fragment like `pairing` or `api_key` (`_media_skip_reason`).
Uploads can have such names; `Skipped` are the ones that do. After a restore their rows
are there and their files are not, so `FilesMatchRows` excepts them (`LeftOut`).

### 2.5 SocketLifecycle and BridgeSend

`SocketLifecycle` names a socket by its generation, as `index.ts` does.

| Variable | Code |
|---|---|
| `socketGeneration`, `currentSock` | the variables of these names |
| `connects`, `sockets` | per generation: how far its `connectSocket` is, who called it, the session it read; the socket it made |
| `session` | the credentials on disk, told apart by how often they were cleared |
| `reconnectTimer`, `badSessionRetryCountSinceOpen`, `requiresReauth` | the one timer, the counter, `lastDisconnectRequiresReauth` |
| `suspended` | updates whose handler awaits `saveCredsWithDiagnostics` |
| `reconnects` | the operator's requests: clearing, connecting, answered |
| `process`, `sendServer` | the steps of `gracefulShutdown`; the HTTP server |
| `seen` | observers: connects or requests that overlapped, updates processed late, connects nobody retries |

| Action | Code |
|---|---|
| `AuthLoaded`, `AuthFails`, `SocketMade` | `connectSocket` after its first and second await; what comes before is `ConnectBegins` in the step of its caller |
| `SocketEvent`, `HandlerResumes`, `HandlerFails` | the handler of `sock.ev.process`: the generation check, `processConnectionUpdate`, and the await between them |
| `ReconnectTimerFires` | `scheduleReconnect`'s callback |
| `ReconnectAsked`, `AuthCleared`, `ReconnectGoesOn`, `ReconnectFails` | `reconnectSocket` |
| `Signal`, `BuffersFlushed`, `ServerClosed`, `Exit` | `gracefulShutdown` |

An action is what runs between two awaits. What WhatsApp and the file system do is
free. A close is classed by what `classifyDisconnect` decides, not by its code. The
content of credentials is left out: that a handler which saves them late, over a session
the operator has just cleared, puts old credentials back on disk (`index.ts` 832, 545)
is not told apart from a save that changes nothing.

`BridgeSend` adds one reply of several parts: `send` is the backend
(`post_bridge_send_with_retry`, part by part), `calls` are the calls the bridge works
on, given up ones included. A call keeps the socket that was current when it came
(`SendArrives`), which may be replaced before `Deliver`. `Beside` joins the two: calls
die with the process, and the server closes when the calls somebody waits for are
answered. `LoseCall`, `LoseBridge` and `ConnectionRefused` are the ways a call ends
without an answer.

### 2.6 ListingReplies

The rows of listings, Playbooks and media, the files, the requests of the operator and
one reply that is made of them. Block texts are told apart by how they render: plain,
asking for notes, malformed, unsupported. A status is any string; `"other"` stands for
all that are neither `available` nor one the pipeline stops at (`unknown` and
`unavailable`).

| Action | Code |
|---|---|
| `Match`, `ListingManualReview`, `ListingAvailable` | `run_rental_listing_matching` from its answer to the end |
| `PlanNothing`, `SendGated`, `CannotRender`, `RenderReply` | `plan_outbound_actions`, `execute_outbound_action_plan` up to the first send |
| `SendText`, `Wait`, `OpenGallery`, `SendMedia`, `SendFails`, `SendEnds` | `_send_action` part by part |
| `BeginSaveListing`, `WriteListing` | `upsert_property`: its look-up, and its write and commit |
| `BeginSavePlaybook`, `BeginSeedPlaybook`, `WritePlaybook` | `playbooks.py`: the look-ups, and the write |
| `BeginDelete`, `BeginPrune`, `DeleteRows` | `delete_properties`, and `prune-playbooks` of `cli.py`: the look-ups, and the deletion |
| `BeginSaveMedia`, `StoreUpload`, `LookUpAgain`, `WriteMedia`, `UnlinkMedia`, `DeleteRows` | the media routes and `upsert_property_media` |
| `Restart` | the backend is started again: `seed_all` |

Every operation on rows is a request of two steps (`pending`): what it looks up, and
what it writes when it has the lock, for which it may wait 30 s. In between come other
requests and the reply. A write goes by the id of the row that was looked up, and an
update only to the columns that differed then (`Column`); by the time of the write the
id may be that of another row, for SQLite gives the largest id of a table again once its
row is deleted (`NewId`). A write may also fail: its row is gone or was inserted by
another, or the lock does not come. While a reply is being sent its transaction is open
and nobody else can commit (`CanCommit`).

`BeginDelete` takes the look-ups of `delete_properties` and those of its flush together.
A media row that comes between the two makes the flush fail, a Playbook that does is
left; both outcomes of `DeleteRows` are there for rows that come after the step.

A file has one name on disk and three readers that resolve it in three ways
(`Spelling`): the backend in its own directory, which may or may not be the repository's
(`BackendAtRoot`), the bridge in `bridge/`, the doctor in the repository and with `~`
(`BackendFinds`, `BridgeFinds`, `DoctorFinds`). Uploads have absolute paths; the other
spellings are typed by the operator.

`Render`, `Accepted` and `GalleryOf` are `render_playbook_blocks`,
`validate_playbook_payload` and `_render_action_parts`; `StrictDoctorPasses` is
`doctor --strict-runtime` as far as it reads these rows. Its checks that files lie in
the media root and are no links, and its warning of Playbooks without a listing, are
left out: with them it is content less often, so what holds whenever the doctor of the
model is content holds whenever the real one is.

The seeding of a start is one step: the backend serves nobody before it ends, and a
command beside it leaves what one of the two orders leaves. Its second select does not
see the listings its first half has added (`autoflush=False`): a new demo listing gets
its starter Playbook at the next start.

### 2.7 Simulator

The only code that deletes contacts, conversations and messages, so rows have ids
here, and SQLite's next id is the largest plus one. `request` and `reset` are what
requests and resets hold between their steps, `writer` and `work` the transaction as
in `BridgeBackend`.

| Action | Code |
|---|---|
| `Begin`, `TriageRejects`, `TriageReturns` | `fake_inbound`, `fake_inbound_and_run` and `bridge_inbound_batch` up to the first message |
| `FindContact`, `FindConversation`, `StoreMessage` | `handle_fake_inbound`, and `handle_bridge_inbound` for an active contact |
| `FindQuietly`, `FindNothing`, `FindToClose`, `CloseAndReopen` | the other ways through `handle_bridge_inbound` |
| `FinishRun`, `FailRequest` | the prompt, the reply and the commit; an exception or a locked database |
| `ReadFakeConversations`, `ReadFakeContacts`, `LookAtMessages` | `reset_fake_chat_data` 238-252: its selects, and those of the flush |
| `DeleteFakeRows` | the writes of the flush, when they have the lock |
| `LookAtContacts`, `DeleteFakeContacts`, `FailReset` | the rest of it and the commit; an exception or a locked database |

A batch of the bridge takes the same steps as a simulator request, message by message,
and holds its ids over its prompts. Resets run in the thread pool and overlap each
other. A session without a transaction sees what is committed at each look. A row that
comes between a select of the reset and the look of its flush makes the flush fail (the
foreign key must not be null), which is `FailReset`; one that comes after it is left
without its parent.

Two observers name what can go wrong then. `crossed` is set when a reset deleted the
parent of a row that came after its look, or a row whose id a request held without a
transaction; `overtaken`, of each reset, when another reset was committed since it
began. Without the first exception `RowsBelongTogether` is false, without the second
`WhatsAppRowsStay` is (section 4).

### 2.8 BatchTransactions and BridgeBackendRefinement

`BatchTransactions` says what a batch may do to the database without handlers, locks,
prompts or crashes: each attempt has at most one effect, which is the messages
handled in their order and then nothing, a route, or the first parts of one reply
(`Effects`). `BridgeBackendRefinement` maps `BridgeBackend` to it: `db` to itself,
`times` to the number of attempts answered 200, `status` to what the bridge made of
the batch. The row operations are those of `ProsperStore` in both, so the refinement
is about what happens between them.

## 3. Runs

| Run | Instance and bounds | States | What it shows |
|---|---|---|---|
| `takeover` | one chat; an enquiry in two messages, and the operator's reply on the phone; 2 attempts per batch, 2 parts, 1 lost response, 1 dashboard action, 1 crash; fair | 83,528 | `TypeOK`; a sender has the transaction (`SendingIsWriting`); a part is sent only with the switches open, no earlier reply, and an active contact if the handler had stored something (`SendsPassTheGates`); a takeover sticks (`TakeoverSticks`); an acknowledged batch is committed (`AckedMessagesAreStored`); every transaction ends (`WriterReleases`); all of it is a sequence of whole effects, and every batch is delivered or given up (`ImplementsTransactions`) |
| `resets` | one chat; an enquiry, and a batch `!reset` + message; 2 attempts, 2 losses, 1 action, 1 crash | 842,151 | exactly one open conversation, the last (`LatestConversationOpen`); one row per message (`MessageStoredOnce`); recorded parts of a conversation come from one request, retried or not (`OneRecordedReply`); the database changes by one whole effect at a time (`TransactionSteps`) |
| `chats` | two enquiries of one chat in batches of their own, one of another chat; 1 attempt, 2 actions, 1 crash | 582,742 | `OneRecordedReply` between batches; a transaction has only its own chat's changes on top of what is committed (`WriterIsolation`) |
| `bursts` | two chats, three messages of one (two of the tenant, one of the operator), one of the other, timestamps not in order of arrival, 1 attempt, a signal at any time; fair | 457,076 | `TypeOK`; every buffer has its timer and every timer its buffer (`TimersMatchBuffers`); no message is lost or doubled (`OnePlace`) or handed to the poster out of order (`PostedInOrder`); what is buffered at the signal is posted before the exit (`ShutdownPostsBuffers`); received messages are delivered or given up (`MessagesSettle`) |
| `restores` | two files of one listing, one of which no backup takes, one archive at a time, two restores, one cleanup, services down during restores and cleanups | 3,742,490 | `TypeOK`; a snapshot holds what a restore touches (`RollbackPossible`); a restore is complete or undone, over cleaned and damaged data too (`RestoreAllOrNothing`); SQLite can open what a command cut off anywhere leaves (`DatabaseUsable`); a row without a file had its deletion begun or is one that no backup takes, and a rejected upload leaves nothing (`FilesMatchRows`) |
| `sockets` | three closes and two operator requests, a reply of 2 parts with 2 attempts and 1 lost call, a signal; fair | 334,467 | `TypeOK`; the send server has the one live socket, with the session that was kept, or none (`SendServerHasTheSocket`); the bridge is never stranded silently (`NotStranded`); no soft retry of a session that needs pairing (`ReauthNotLooped`); parts in order (`PartsInOrder`) and twice only when unheard (`DuplicatesOnlyUnheard`); replies and shutdowns end (`Progress`) |
| `replies` | two listings, one configured in several ways with three media files, absolute, relative and `~`; the backend runs in the repository; four ids; a reply and an operation, two operations, or three if they are about Playbooks | 678,370 | `TypeOK`; the tenant gets the Playbook in its order, the gallery once (`SentInPlaybookOrder`); rows and files stand behind a reply (`ReplyIsBacked`); silence comes from a malformed text or is what the doctor lets expect, but for paths and empty Playbooks (`SilenceIsForeseen`); rows lose their listing only in races of a deletion and another request (`OrphansOnlyFromRaces`); a starter Playbook replaces nothing (`StarterNeverReplaces`) |
| `simulator` | a tenant, a chat used by both sides, a simulator chat; two requests, each of the simulator or a batch, two resets (both interchangeable), three ids | 411,263 | `TypeOK`; rows have their parents, of their own chat and side, unless a reset crossed (`RowsBelongTogether`); a reset deletes nothing of WhatsApp, unless another overtook it (`WhatsAppRowsStay`) |
| `duplicates`, `gates`, `reset_replay`, `services_during_restore` | see section 4 | | counterexamples |

`FairSpec` and `Spec` differ by the fairness below. Deadlock is checked in the runs
of `BridgeBackend` and `InboundBuffer`; the others may stop (a process that exited, a
spent bound) and say so.

### Bounds

The bounds are constants (`MaxAttempts`, `MaxLosses`, `MaxOperations`,
`MaxCrashes`, `Parts`, `MaxTries`) or the sets of batches and messages.

* Two attempts per batch: the second is what runs beside, or after, the first.
  The bridge makes six; a third adds no pair of requests that two batches with two
  attempts (four requests) do not have already.
* Two parts: a first, recorded while the next one is to come, and a last.
* One or two operator actions: the second is needed to close and open a gate, or
  to release a contact that was paused.
* Two batches of a chat: the races are between two handlers of one chat. Two chats
  only share the transaction; `chats` has both, without retries, which `resets` has.
* Four messages in the buffers: two of the tenant make a buffer and a buffer after
  it, the operator's may fall anywhere, and a message in another chat makes `flushAll`
  go on to a second chat. A post makes one attempt: a further one would only keep it
  open longer, which it may be anyway.
* Three closes and two operator requests: the second bad session, a close while a
  connect is in progress, two requests that overlap, and a timer that outlives a
  request (section 5). The instance cuts the product of all of them (`SocketBound`,
  `ReplyBound`): a reply is combined with one close or one request, the sockets alone
  with three closes and one request, or with two requests, and once all closes are
  used no handler waits. The theorems of section 5 have no such bounds.
* Two parts, two attempts and one lost call: a call that was given up runs beside the
  second attempt, or beside the next part. The code makes three attempts.
* A reply and an operation, or two operations, in `replies`: an operation is between its look-up and its
  write while the other one, or the reply, takes place. A third operation, when all at
  work are about Playbooks, makes the case of a save with a prune and a seed in between.
  The second listing gets no new texts: it makes the difference between one listing and
  all, and takes ids the first one had. Four ids are never too few for two listings, three
  files and these operations. `MCInit` varies the media where a Playbook has a gallery and
  keeps them ordinary otherwise; the other initial rows are an operation away.
* Two requests, two resets, three ids in `simulator`: a request holds ids while two resets
  and another request go on, the second reset deletes what came since the first, and
  an id comes again. Steps that would need a fourth id are left out: a fourth message
  before the next reset. The theorems hold for every number of ids.

* Two restores, one cleanup: the second restore starts from what the first one, or
  the cleanup, left half done. One archive: it stays while files are deleted, so that
  a restore brings back what is gone. One of the two files is left out by backups.

The number of conversations needs no bound: the resets bound it.

### Fairness

`FairSpec` of `BridgeBackend` has weak fairness of each handler (the event loop
runs every coroutine that can go on, a prompt ends with its timeout of 60 s, a send
with its own and at most three attempts), of `Submit` (the retry timer) and of
`GetResponse`. Nothing is assumed of losses, operator actions and crashes, which are
bounded. A handler that cannot have the lock fails, it does not wait, so no strong
fairness is needed. `FairSpec` of `InboundBuffer` has weak fairness of open
questions (`burstWaitForChat` catches every error), timers, promises and posts, all
of which Node.js runs. Both are stated per kind of step, and none is assumed of
messages arriving.

`BridgeSend` has weak fairness of the bridge (`BridgeRuns`: what the event loop
runs, and calls of the file system, which end) and of the reply (`SendRuns`: httpx
ends every call by its timeout, and the bridge works on the calls it has). A step of
one does not disable the other for ever and each kind of step is bounded, so weak
fairness of the two is enough. Nothing is assumed of WhatsApp, the operator, lost
calls and signals. `BatchTransactions` has weak fairness of `Acknowledge \/ GiveUp`
of each batch, which `ImplementsTransactions` derives from the fairness of
`BridgeBackend`. `ListingReplies`, `Simulator` and `BackupRestore` have no liveness
property and no fairness: their steps may stop anywhere.

## 4. Findings

Each is a run with one property that quotes the repository, and a counterexample.

| Run | What the repository says | What the code does |
|---|---|---|
| `duplicates` | "Duplicate inbound events with the same normalized chat and message identifiers are ignored." (`docs/architecture.md`) | rows are not duplicated, but a replayed batch runs the pipeline again |
| `gates` | "These checks happen before model work and before outbound execution." (`docs/reliability.md`) | the check before the send sees the contact as it was before the prompt, if the handler had no open transaction to keep the operator out |
| `reset_replay` | "Replayed bridge events therefore do not create duplicate stored messages or duplicate conversations." (`docs/reliability.md`) | a replayed `!reset` resets again, as its message id is not stored |
| `services_during_restore` | "only after explicit operator confirmation and while local services are stopped" (`docs/architecture.md`) | the ports are probed once, before the snapshot; a backend started afterwards runs over the files that are being replaced |

### Also noted while modelling

No document speaks against these, or none clearly, so they are no findings; the models
have them as the code does.

The batch path:

* Two first batches of a chat triaged at once: one leaves the conversation to manual
  review, the other takes it back to matching (`routers/bridge.py:190`) and replies.
* An operator message waits for the flush of its chat with all its retries; a later
  message of the tenant can be posted before it (`inboundBuffer.ts:58`).
* `mark_conversation_manual_review` (`pipeline.py:172`) sets the stage of a conversation
  that a reset closed during its prompt.
* `backend.ts` 36-43 throws inside its own `try` for a response that should not be
  retried, so it is retried like any other failure.

The sockets (what the observers of `SocketLifecycle` except):

* `connectSocket` makes its socket the current one without asking whether a later call
  has begun (`index.ts:745`): overlapping connects can leave two sockets alive.
* A handler that resumes after saving credentials does not ask again whether its socket
  is the newest (`index.ts:831`): it may arm the timer, or clear the demand for pairing,
  for a socket that was replaced.
* A handler that saves credentials late writes them over a session that was just cleared
  (`index.ts` 832, 545; not modelled, see 2.5).
* A connect that fails at the start or after an operator request is retried by nobody;
  one that fails after the timer is an unhandled rejection and ends the process.
* An operator request does not clear a timer that was armed after it began, or during
  a connect it crossed: the timer then connects with a session that needs pairing
  (`index.ts` 528-548, 629-637). A connect that ends during the shutdown opens the send
  server again.

Listings and replies:

* Any status but `unknown` and `unavailable` is answered, `rented` too
  (`pipeline.py` 319, 330).
* Relative media paths are resolved by the doctor against the repository, by the backend
  against its directory and by the bridge against its own, and only the doctor knows `~`.
  A relative path can pass the doctor and the backend and fail at the bridge, after the
  parts before it were sent.
* An enabled Playbook without blocks, or with nothing but blank notes, passes the doctor
  and leaves its listing silent; one with nothing but an empty gallery is reported as sent.
* `{}` and `{rent.x}` in a text pass the validation and fail when rendered.
* A save that waited while its Playbook was pruned and seeded again writes the columns
  that differed from the old row: the operator's switch with the starter's text, or the
  reverse. As ids are given again, a late save can land on another listing's row.
* An upload that is committed between the look-ups of a deletion and its write leaves its
  row behind, although the relation would have made the flush fail.
* Start-up seeding creates deleted demo listings and starter Playbooks again, and rows
  that lost their listing come back to life when its id is created again.

Backups:

* A backup succeeds without managed uploads whose path or name looks like runtime data
  (`backup.py` 28-56, 396-404); their rows are restored, and the replies that need them
  are blocked.

The simulator:

* A request that commits a conversation while a reset waits to delete its contact leaves
  the conversation without a contact, and a message that comes while the reset waits for
  the lock is left without its conversation.
* Of two resets that overlap the slower one deletes by ids it has read: a tenant whose
  batch came in between, and was given such an id, loses the conversation.
* A tenant's chat id typed into the simulator mixes its transcripts.
* A simulator run keeps its transaction while it waits for the model; batches that want
  to write then fail with a locked database and are retried.

## 5. Proofs

TLC checks the properties on the instances above; the theorems say the same for every
value of the constants: any chats, messages, batches, files, Playbooks, parts,
attempts, losses, closes, requests and crashes. All invariants of the passing runs are
theorems, and all their action properties but one. `PROJECT.json` lists each theorem
with the property it states.

| Module | Theorems | The inductive invariant |
|---|---|---|
| `BridgeBackendProofs` | `TypeCorrect`, `SenderIsWriter`, `OneOpenConversation`, `OneRowPerMessage` | `IInv` |
| `BridgeBackendWriterProofs` | `TransactionsAreIsolated`, `OneReplyPerConversation`, `RepliesPassTheGates`, `TakeoversStick`, `AcknowledgedIsStored` | `IInv` and `WriterInv` |
| `InboundBufferProofs` | `TypeCorrect`, `TimersAndBuffers`, `PostsKeepOrder`, `ShutdownPosts`, `OnePlaceEach` | `TypeOK`, `TimerInv`, `OrderInv`, `ShutdownInv`, `PlaceInv` |
| `BackupRestoreProofs` | `TypeCorrect`; `RollbackIsPossible`, `RestoresAllOrNothing`, `DatabaseStaysUsable`, `FilesKeepRows` | `TypeOK`, `RestoreInv`, `UsableInv`, `FilesInv` |
| `BridgeSendProofs` | `TypeCorrect`, `SendServerSocket`, `PartsKeepOrder`, `DuplicatesOnlyWhenUnheard`, `NeverStranded`, `ReauthIsNotLooped` | `SocketInv`, `SendInv`, `CountInv`, `DeliveredInv`, `HeardInv`, `ReconnectInv` |
| `SimulatorProofs` | `TypeCorrect`, `RowsStayTogether`, `WhatsAppIsKept` | `SimulatorInv` |
| `ListingRepliesProofs` | `TypeCorrect`, `PlaybookInOrder`, `RepliesAreBacked`, `SilenceForeseen`, `OrphansOnlyRaces`, `StarterReplacesNothing` | `ListingInv` |

`ProsperStoreProofs` has no theorem of a specification, only the lemmas about rows:
each row operation maps sound databases to sound ones, and what it leaves alone. The
most important, `HandleInboundSound`, puts them together for one message.

### Assumptions

The theorems rest on the `ASSUME`s of the modules, which the runs evaluate. They say
what the code's inputs are (a batch is a non-empty sequence of messages of one chat;
ids of automated sends differ from those of people; `ListingOf` and `FileOrder` are a
foreign key and a sort), that bounds are numbers, and that model values that stand for
different things differ (`NoOne`, the names of the callers of `connectSocket`). The
starter Playbook is taken to have blocks, none with an unknown placeholder: it is the
constant of `playbooks.py` 30-41.

Four theorems of `BackupRestoreProofs` have the hypothesis `OperatorWaits`: services
stay down while a restore or a cleanup works on the live data. The documentation asks
this of the operator and the code probes it once; without it the properties are false,
as `services_during_restore` shows. `restores` runs with it, so states of every kind
satisfy it.

### Arguments

*The batch path.* `IInv` has `Sound` of `db` and of `work` (one open conversation per
chat, one row per message), the types of the control variables, `AttemptsLeft`,
`PipelineConversationExists` (a handler sets the stage of a row that exists; it speaks
of `loop`, because it only holds up to the next await) and `SendingIsWriting`. The reset
is the interesting case: closing breaks `LatestOpen`, the creation after it restores it
(`ReopenSound`). `WriterInv` says what an open transaction is made of. `Isolation`: it
adds to what is committed, and to one chat, so its commit undoes nothing.
`SenderOwnsReply`: from the look for an earlier automated reply to the end of the sends
all automated rows of the conversation are its own. `HeldIsCurrent`: with the
transaction, the objects loaded before the prompt are what the database says, since
nobody else can write; this is what makes the gate before the send good for requests
that stored something, and its failure for the others is the finding `gates`.
`StoredSoFar`: the loop has stored what it passed. Each action is brought into one form
(`RowStep`: it leaves the rows, keeps them in its transaction, or commits them), and the
invariant is proved of that form once.

*The buffers.* The batch of a flush is its messages in time order, which `Sorted` takes
by choice from `SortingOrders`; that there is an order for every assignment of
timestamps, equal ones included, is `AllSortable`. `TimerInv` adds to
`TimersMatchBuffers` where open questions may be: about the buffer there is now only
when it has no timer. `OrderInv` says that what was posted came before what is still
buffered, and that the turn of an operator message comes when everything before it was
posted. `ShutdownInv` says that what is owed was posted or is in a chat still to be
flushed. `PlaceInv` adds to `OnePlace` that what was not received is nowhere and that
two posts share nothing.

*Backup and restore.* `RestoreInv` says that a command has the live data for itself,
and which parts of it each step of an activation or undo has put in place, in the order
of the code: the log goes first, which is why `DatabaseUsable` holds between any two of
the steps. `FilesInv` follows a row from archive to archive: every place that can come
back (live rows, what an undo would restore, archives finished and in the making) has
its files, or their deletion was begun.

*The sockets and sends.* `OneConnect` (without overlap only the newest connect is in
progress, and there is no current socket) and `SessionKept` (a connect that has read the
credentials has those of the disk, unless a request has just cleared them) carry
`SendServerHasTheSocket`. That generations and deliveries stay in their ranges is a
matter of counting: sockets made, the timer and handlers that may arm it are no more
than the closes and requests that caused them (`CountInv`); parts delivered and calls
that may still deliver are no more than the attempts begun (`DeliveredInv`). `HeardInv`
says that a part of which nothing was lost has no call but the one that is waited for.
`CalmInv` says that, as long as no handler was late and no request crossed a connect,
a timer is alone: no socket, no connect, no request and no demand for pairing beside it.

`ReauthNotLooped` was false as first stated, which no run with two closes showed, and
the proof of `CalmInv` did: a request is made while the timer's connect is in progress;
the new socket closes and sets the timer; the request connects, its socket closes with
a demand for pairing; and the surviving timer connects once more, since `connectSocket`
does not clear it. The observer `crossed` now counts a request that comes during a
connect, the run has three closes, and section 4 notes the behaviour.

*The simulator.* Ids are used again, so what a request holds may be the id of another
row. `WorkInv` says that requests only add rows to the transaction, and a reset only
takes away what it has read; `RequestInv` and `BelongInv` that, until a reset crosses
it, what a request holds are rows of its chat. `ResetInv` says that what a reset has
read are conversations of the simulator and their messages, and stay so until another
reset is committed: requests delete nothing, and only a deletion frees an id. That is
all `WhatsAppRowsStay` needs; the observer `crossed` plays no part in it.

*Replies.* `Delivered` relates the variables of `_send_action` to the sums of the
pieces of the Playbook: what was sent, and what is queued of the gallery, is the sum of
the parts before the next one. `ReplyInv` ties the transaction to the state of the
reply; while it is open nobody else commits, which is what `RowsStandBehindReply` rests
on. `PlaybookInv` says that blocks were accepted when their request began. That the
starter replaces nothing needs no invariant of ids: an insertion needs that there is no
row, an update writes what a save was sent, and a restart adds only where there is none.

Induction over numbers, where it is needed (orders of a batch, sums of pieces), is done
with sets: a set of numbers that has 0 and the successor of each of its members has
them all (`SetInduction`), since a set without a least element is empty (`LeastNat`).
`FlattenSeq` of the community modules, whose definition is a recursive function, is
reasoned about in this way too (`SumsFlatten`). For this, `Render` and `Gallery` are
written with `FlattenSeq`, and `Sorted` by choice, where `SelectSeq` and `SortSeq` would
do for TLC alone.

### Only model-checked

* Liveness: `WriterReleases`, `MessagesSettle`, `Progress`, and the part of
  `ImplementsTransactions` that is fairness. It is out of the prover's reach.
* The safety part of `ImplementsTransactions`, and `TransactionSteps`: the effects of a
  batch are a recursive function over its messages (`Effects` of `BatchTransactions`),
  and each step of the loop would have to be related to a value of it. `TransactionsAreIsolated`
  and `AcknowledgedIsStored` are what is proved of it so far.
* The four counterexamples of section 4, which are behaviours.

## 6. Plan

Done: the store and the batch path with its abstract specification, the buffers, the
sockets and the sends over them, media with backup and restore, listings, Playbooks
and replies, the simulator; every invariant of the passing runs as a theorem.

Theorems to come, in the order of their value: `TransactionSteps` and with it the
refinement of `BatchTransactions` without its fairness, first for attempts that store
and do not reply; what `OperatorWaits` can be weakened to (the services are down from
the probe on).

Models to come, if they pay: two backups of one name at once; `InboundBuffer` and
`BridgeBackend` as one system, which the batches and attempts they share already join.

## 7. Not modelled

The React dashboard (`frontend/src/main.tsx`): its polls, drafts and saves live in the
effects and callbacks of one component, whose order React decides; a model would retell
them, not translate them. Its answers out of order are listed as a hazard without a
property.

Message texts and prompts, normalisation of WhatsApp message types, checks of damaged
archives, names of archives (so two backups of one name are not modelled),
authentication, read-only routes and reports, scripts and evaluations. They keep no
state the properties speak of. The model's answers are free choices among the outcomes
the pipeline tells apart. Two backend processes on one database are not modelled: the
code starts one.

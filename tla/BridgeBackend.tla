---------------------------- MODULE BridgeBackend ----------------------------
(***************************************************************************)
(* The path of a batch of WhatsApp messages through the backend:           *)
(*   bridge retries -> POST /api/bridge/inbound-batch -> triage (LLM) ->   *)
(*   rows -> listing matching (LLM) -> automated reply -> commit,          *)
(* with several requests in progress, the operator at the dashboard, lost  *)
(* responses and crashes of the backend.                                   *)
(*                                                                         *)
(* Scheduling.  The handlers of the bridge are coroutines of one event     *)
(* loop: what they do between two awaits is not interleaved with another   *)
(* handler ("loop" is the handler that is between two awaits and has more  *)
(* steps to take).  The dashboard's handlers run in the thread pool and    *)
(* interleave with everything.                                             *)
(*                                                                         *)
(* Transactions.  The session flushes explicitly, and SQLite starts a      *)
(* transaction at the first row a request writes: from then on the request *)
(* is the only writer until its commit ("writer"; "work" is the database   *)
(* it sees), and before that it reads what is committed.  A coroutine that *)
(* has to write while another one is the writer waits on the event loop    *)
(* the writer needs to go on, so its busy timeout always expires           *)
(* (LockTimeout).  A dashboard write waits in its own thread.              *)
(***************************************************************************)
EXTENDS ProsperStore, FiniteSets

CONSTANTS
    Batches,        \* the batches the bridge's buffer hands to the poster
    ChatOf,         \* [Batches -> Chats]: a batch is of one chat
    MessagesOf,     \* [Batches -> Seq(Message)]
    MaxAttempts,    \* attempts of one post (6 in the bridge)
    Parts,          \* text and media parts of a rendered reply
    NoRequest,
    MaxLosses,      \* bound: responses lost between backend and bridge
    MaxOperations,  \* bound: operator actions
    MaxCrashes      \* bound: crashes of the backend

Message == [id : MessageIds, kind : MessageKind]

\* A request is an attempt to post a batch.
Requests == Batches \X (1..MaxAttempts)

ASSUME InputAssumption ==
    /\ ChatOf \in [Batches -> Chats]
    /\ MessagesOf \in [Batches -> Seq(Message)]
    /\ \A b \in Batches :
           /\ MessagesOf[b] # << >>
           \* a message typed on the phone is forwarded on its own
           /\ \A n \in DOMAIN MessagesOf[b] :
                  MessagesOf[b][n].kind = "human" => Len(MessagesOf[b]) = 1
ASSUME BoundAssumption ==
    /\ MaxAttempts \in Nat \ {0} /\ Parts \in Nat \ {0}
    /\ MaxLosses \in Nat /\ MaxOperations \in Nat /\ MaxCrashes \in Nat
ASSUME RequestAssumption ==
    /\ NoRequest \notin Requests
    /\ OutboundIds = Requests \X (1..Parts)
    /\ OutboundIds \cap MessageIds = {}

VARIABLES
    db,         \* the committed database
    writer,     \* the request that has an open write transaction
    work,       \* the database that request sees; db when there is none
    loop,       \* the handler in the middle of a run between two awaits
    req,        \* the handler of each request
    post,       \* the bridge's side of each batch
    sent,       \* parts that reached WhatsApp: <<chat, conversation, request, part>>
    budget      \* losses, operator actions and crashes so far

vars == <<db, writer, work, loop, req, post, sent, budget>>

-----------------------------------------------------------------------------
Handler == [pc     : {"idle", "received", "triage", "store", "match", "send", "ok", "error"},
            next   : Nat \ {0},                      \* message of the batch to store next
            triage : {"none", "enquiry", "manual_review"},
            skip   : BOOLEAN,                        \* skip_pipeline_reason is set
            conv   : Nat,                            \* pipeline_conversation_id, 0: None
            \* the status of the conversation and contact objects the handler keeps
            heldConv    : {"active", "closed"},
            heldContact : ContactStatus,
            part   : 1..Parts]                       \* part of the reply to send next

IdleHandler == [pc |-> "idle", next |-> 1, triage |-> "none", skip |-> FALSE,
                conv |-> 0, heldConv |-> "active", heldContact |-> "active", part |-> 1]

Post == [status : {"new", "waiting", "backoff", "done", "failed"},
         attempts : 0..MaxAttempts]

Budget == [losses : 0..MaxLosses, operations : 0..MaxOperations, crashes : 0..MaxCrashes]

Init ==
    /\ db = EmptyDatabase
    /\ writer = NoRequest
    /\ work = EmptyDatabase
    /\ loop = NoRequest
    /\ req = [r \in Requests |-> IdleHandler]
    /\ post = [b \in Batches |-> [status |-> "new", attempts |-> 0]]
    /\ sent = {}
    /\ budget = [losses |-> 0, operations |-> 0, crashes |-> 0]

Chat(r)  == ChatOf[r[1]]
Batch(r) == MessagesOf[r[1]]

\* What a query of request r returns.
View(r) == IF writer = r THEN work ELSE db

MayWrite(r) == writer \in {NoRequest, r}

(***************************************************************************)
(* How a step of a handler ends.                                           *)
(***************************************************************************)

\* The request goes on with database d; a changed row opens its transaction.
Continue(r, d, handler) ==
    /\ d # View(r) => MayWrite(r)
    /\ IF d # View(r) THEN writer' = r /\ work' = d ELSE UNCHANGED <<writer, work>>
    /\ req' = [req EXCEPT ![r] = handler]
    /\ UNCHANGED db

\* Mutant: the rows are committed before the reply is sent.
HoldCommitted(r, d, handler) ==
    /\ MayWrite(r)
    /\ db' = d /\ work' = d /\ writer' = NoRequest
    /\ req' = [req EXCEPT ![r] = handler]

\* The request has written (a stage run at least) and keeps its transaction.
Hold(r, d, handler) ==
    /\ MayWrite(r)
    /\ writer' = r /\ work' = d
    /\ req' = [req EXCEPT ![r] = handler]
    /\ UNCHANGED db

\* Mutant: the response without session.commit().
AnswerUncommitted(r, d) ==
    /\ db' = db
    /\ work' = db
    /\ writer' = NoRequest
    /\ req' = [req EXCEPT ![r] = [IdleHandler EXCEPT !.pc = "ok"]]

\* session.commit() with the rows of d, and the response 200.
Commit(r, d) ==
    /\ db' = d
    /\ work' = d
    /\ writer' = NoRequest
    /\ req' = [req EXCEPT ![r] = [IdleHandler EXCEPT !.pc = "ok"]]

\* A commit with nothing to write leaves another writer alone.
Finish(r, d) ==
    IF d = db /\ writer # r
    THEN /\ req' = [req EXCEPT ![r] = [IdleHandler EXCEPT !.pc = "ok"]]
         /\ UNCHANGED <<db, work, writer>>
    ELSE MayWrite(r) /\ Commit(r, d)

\* An exception leaves a handler that has no transaction: the response 500.
Fail(r) ==
    /\ req' = [req EXCEPT ![r] = [IdleHandler EXCEPT !.pc = "error"]]
    /\ loop' = IF loop = r THEN NoRequest ELSE loop
    /\ UNCHANGED <<db, writer, work, post, sent, budget>>

-----------------------------------------------------------------------------
(***************************************************************************)
(* bridge_inbound_batch: triage before storing                             *)
(***************************************************************************)

\* No handler is between two awaits with more to do.
LoopFree == loop = NoRequest

\* The handler starts; a first message from the phone never asks for triage.
Start(r) ==
    /\ req[r].pc = "received" /\ LoopFree
    /\ IF (\A n \in DOMAIN Batch(r) : Batch(r)[n].kind # "human") /\ ShouldPretriage(db, Chat(r))
       THEN req' = [req EXCEPT ![r].pc = "triage"] /\ loop' = loop
       ELSE req' = [req EXCEPT ![r].pc = "store"] /\ loop' = r
    /\ UNCHANGED <<db, writer, work, post, sent, budget>>

\* The model says this is no rental enquiry: the contact is kept, nothing else.
TriageRejects(r) ==
    /\ req[r].pc = "triage" /\ LoopFree
    /\ Finish(r, GetOrCreateContact(db, Chat(r)))
    /\ UNCHANGED <<loop, post, sent, budget>>

\* An enquiry; or an error, an invalid or an unsure answer, for manual review.
TriageReturns(r) ==
    /\ req[r].pc = "triage" /\ LoopFree
    /\ \E answer \in {"enquiry", "manual_review"} :
           req' = [req EXCEPT ![r].pc = "store", ![r].triage = answer]
    /\ loop' = r
    /\ UNCHANGED <<db, writer, work, post, sent, budget>>

(***************************************************************************)
(* bridge_inbound_batch: the loop over the messages                        *)
(***************************************************************************)
Storing(r) == req[r].pc = "store" /\ loop = r /\ req[r].next <= Len(Batch(r))

StoreMessage(r) ==
    /\ Storing(r)
    /\ LET h == HandleInbound(View(r), Chat(r), Batch(r)[req[r].next])
       IN  Continue(r, h.db,
               [req[r] EXCEPT !.next = @ + 1,
                              !.skip = @ \/ h.reason \in SkipReasons,
                              !.conv = IF h.conv # 0 THEN h.conv ELSE @])
    /\ UNCHANGED <<loop, post, sent, budget>>

(***************************************************************************)
(* bridge_inbound_batch: the pipeline, once per batch                      *)
(***************************************************************************)
Routing(r) == req[r].pc = "store" /\ loop = r /\ req[r].next > Len(Batch(r))

PipelineAllowed(r) ==
    /\ ~req[r].skip /\ req[r].conv # 0
    /\ ~View(r).pauseAi
    /\ View(r).contact[Chat(r)] = "active"

PipelineConversation(r) == View(r).convs[Chat(r)][req[r].conv]

\* The handler goes to the listing-matching prompt and keeps the two objects
\* it has loaded, whose attributes are not read again.
Matching(r) ==
    [req[r] EXCEPT !.pc = "match",
                   !.heldConv = PipelineConversation(r).status,
                   !.heldContact = View(r).contact[Chat(r)]]

RouteNothing(r) ==
    /\ Routing(r) /\ ~PipelineAllowed(r)
    /\ Finish(r, View(r))
    /\ loop' = NoRequest
    /\ UNCHANGED <<post, sent, budget>>

RouteEnquiry(r) ==
    /\ Routing(r) /\ PipelineAllowed(r) /\ req[r].triage = "enquiry"
    /\ Hold(r, SetStage(View(r), Chat(r), req[r].conv, "rental_listing_matching"), Matching(r))
    /\ loop' = NoRequest
    /\ UNCHANGED <<post, sent, budget>>

RouteManualReview(r) ==
    /\ Routing(r) /\ PipelineAllowed(r) /\ req[r].triage = "manual_review"
    /\ MayWrite(r)
    /\ Commit(r, SetStage(View(r), Chat(r), req[r].conv, "manual_review"))
    /\ loop' = NoRequest
    /\ UNCHANGED <<post, sent, budget>>

\* A message of a conversation that was open before goes by the stage.
RouteStored(r) ==
    /\ Routing(r) /\ PipelineAllowed(r) /\ req[r].triage = "none"
    /\ PipelineConversation(r).stage = "rental_listing_matching"
    /\ Continue(r, View(r), Matching(r))
    /\ loop' = NoRequest
    /\ UNCHANGED <<post, sent, budget>>

\* No action, but the outbound decision is written as a stage run.
RouteNoAction(r) ==
    /\ Routing(r) /\ PipelineAllowed(r) /\ req[r].triage = "none"
    /\ PipelineConversation(r).stage # "rental_listing_matching"
    /\ MayWrite(r)
    /\ Commit(r, View(r))
    /\ loop' = NoRequest
    /\ UNCHANGED <<post, sent, budget>>

(***************************************************************************)
(* run_rental_listing_matching and execute_outbound_action_plan            *)
(***************************************************************************)
Matched(r) == req[r].pc = "match" /\ LoopFree /\ MayWrite(r)

\* The conversation at the stage the answer of the model leads to.
Staged(r, stage) == SetStage(View(r), Chat(r), req[r].conv, stage)

\* Error, no match, unknown or unavailable listing.
MatchManualReview(r) ==
    /\ Matched(r)
    /\ Commit(r, Staged(r, "manual_review"))
    /\ UNCHANGED <<loop, post, sent, budget>>

\* Mutant: the send lock is not looked at.
SendBlockedByPause(r) ==
    \/ View(r).pauseAi
    \/ req[r].heldConv # "active"
    \/ req[r].heldContact # "active"

\* _send_block_reason: the configuration is read again, the conversation and
\* the contact are the objects the handler already had.
SendBlocked(r) ==
    \/ View(r).sendLock
    \/ View(r).pauseAi
    \/ req[r].heldConv # "active"
    \/ req[r].heldContact # "active"

\* An available listing, and: no Playbook, a missing media file, a reply
\* sequence sent before, or a closed gate.  Whether the Playbook renders is
\* data of the listing, so this may happen whatever the rows say.
MatchWithoutReply(r) ==
    /\ Matched(r)
    /\ Commit(r, Staged(r, "end"))
    /\ UNCHANGED <<loop, post, sent, budget>>

MatchReply(r) ==
    /\ Matched(r)
    /\ ~AutoReplySent(View(r), Chat(r), req[r].conv)
    /\ ~SendBlocked(r)
    /\ Hold(r, Staged(r, "end"), [req[r] EXCEPT !.pc = "send", !.part = 1])
    /\ UNCHANGED <<loop, post, sent, budget>>

(***************************************************************************)
(* _send_action: one part at a time, each a call to the bridge             *)
(***************************************************************************)
Delivery(r) == <<Chat(r), req[r].conv, r, req[r].part>>

SendPart(r) ==
    /\ req[r].pc = "send" /\ LoopFree
    /\ sent' = sent \cup {Delivery(r)}
    /\ LET d == AppendMessage(View(r), Chat(r), req[r].conv, <<r, req[r].part>>, "outbound")
       IN  IF req[r].part = Parts
           THEN Commit(r, d)
           ELSE Hold(r, d, [req[r] EXCEPT !.part = @ + 1])
    /\ UNCHANGED <<loop, post, budget>>

\* Mutant: the error leaves the transaction open.
SendFailsInTransaction(r) ==
    /\ req[r].pc = "send" /\ LoopFree
    /\ req' = [req EXCEPT ![r] = [IdleHandler EXCEPT !.pc = "error"]]
    /\ UNCHANGED <<db, writer, work, loop, post, sent, budget>>

\* The call fails after its retries, with the part delivered or not: the
\* sequence ends and what was recorded before is committed.
SendFails(r) ==
    /\ req[r].pc = "send" /\ LoopFree
    /\ \/ sent' = sent
       \/ sent' = sent \cup {Delivery(r)}
    /\ Commit(r, View(r))
    /\ UNCHANGED <<loop, post, budget>>

(***************************************************************************)
(* "database is locked": the next row this handler writes cannot be        *)
(* written while another handler is the writer.                            *)
(***************************************************************************)
WantsToWrite(r) ==
    \/ req[r].pc = "triage" /\ LoopFree /\ GetOrCreateContact(db, Chat(r)) # db
    \/ /\ Storing(r)
       /\ HandleInbound(View(r), Chat(r), Batch(r)[req[r].next]).db # View(r)
    \/ /\ Routing(r) /\ PipelineAllowed(r)
       /\ \/ req[r].triage # "none"
          \/ PipelineConversation(r).stage # "rental_listing_matching"
    \/ req[r].pc = "match" /\ LoopFree

LockTimeout(r) ==
    /\ ~MayWrite(r)
    /\ WantsToWrite(r)
    /\ Fail(r)

-----------------------------------------------------------------------------
(***************************************************************************)
(* The bridge's side of a batch: postJsonWithRetry                         *)
(***************************************************************************)
Attempt(b) == <<b, post[b].attempts>>

\* Mutant: one attempt too many.
NextAttemptBeyond(b) ==
    IF post[b].attempts > MaxAttempts THEN [post[b] EXCEPT !.status = "failed"]
                                      ELSE [post[b] EXCEPT !.status = "backoff"]

\* Mutant: a failed attempt is forgotten.
NoNextAttempt(b) == post[b]

\* Every outcome but a 2xx response ends in another attempt, up to the last.
NextAttempt(b) ==
    IF post[b].attempts = MaxAttempts THEN [post[b] EXCEPT !.status = "failed"]
                                      ELSE [post[b] EXCEPT !.status = "backoff"]

Submit(b) ==
    /\ post[b].status \in {"new", "backoff"}
    /\ LET k == post[b].attempts + 1
       IN  /\ post' = [post EXCEPT ![b] = [status |-> "waiting", attempts |-> k]]
           /\ req' = [req EXCEPT ![<<b, k>>] = [IdleHandler EXCEPT !.pc = "received"]]
    /\ UNCHANGED <<db, writer, work, loop, sent, budget>>

GetResponse(b) ==
    /\ post[b].status = "waiting"
    /\ \/ /\ req[Attempt(b)].pc = "ok"
          /\ post' = [post EXCEPT ![b].status = "done"]
       \/ /\ req[Attempt(b)].pc = "error"
          /\ post' = [post EXCEPT ![b] = NextAttempt(b)]
    /\ UNCHANGED <<db, writer, work, loop, req, sent, budget>>

\* The connection breaks or times out: the handler, if the request has reached
\* it, goes on without its client.
LoseResponse(b) ==
    /\ post[b].status = "waiting"
    /\ budget.losses < MaxLosses
    /\ budget' = [budget EXCEPT !.losses = @ + 1]
    /\ post' = [post EXCEPT ![b] = NextAttempt(b)]
    /\ \/ req' = req
       \/ /\ req[Attempt(b)].pc = "received"
          /\ req' = [req EXCEPT ![Attempt(b)] = [IdleHandler EXCEPT !.pc = "error"]]
    /\ UNCHANGED <<db, writer, work, loop, sent>>

(***************************************************************************)
(* The dashboard, in the thread pool: waits while a handler is the writer. *)
(***************************************************************************)
\* Mutant: the write does not wait for the open transaction.
OperateAtOnce(d) ==
    /\ budget.operations < MaxOperations
    /\ budget' = [budget EXCEPT !.operations = @ + 1]
    /\ db' = d
    /\ work' = IF writer = NoRequest THEN d ELSE work
    /\ UNCHANGED <<writer, loop, req, post, sent>>

Operate(d) ==
    /\ writer = NoRequest
    /\ budget.operations < MaxOperations
    /\ budget' = [budget EXCEPT !.operations = @ + 1]
    /\ db' = d
    /\ work' = d
    /\ UNCHANGED <<writer, loop, req, post, sent>>

UpdateContactStatus(c) ==
    /\ db.contact[c] # "none"
    /\ \E status \in {"active", "paused", "ignored"} \ {db.contact[c]} :
           Operate(SetContactStatus(db, c, status))

UpdateConfig ==
    \/ Operate([db EXCEPT !.pauseAi = ~@])
    \/ Operate([db EXCEPT !.sendLock = ~@])

(***************************************************************************)
(* The backend process dies and starts again: requests, the open           *)
(* transaction and the connections of the bridge are gone.                 *)
(***************************************************************************)
Crash ==
    /\ budget.crashes < MaxCrashes
    /\ budget' = [budget EXCEPT !.crashes = @ + 1]
    /\ req' = [r \in Requests |->
                  IF req[r].pc \in {"idle", "ok", "error"} THEN req[r]
                  ELSE [IdleHandler EXCEPT !.pc = "error"]]
    /\ writer' = NoRequest
    /\ work' = db
    /\ loop' = NoRequest
    /\ UNCHANGED <<db, post, sent>>

-----------------------------------------------------------------------------
Handle(r) ==
    \/ Start(r) \/ TriageRejects(r) \/ TriageReturns(r)
    \/ StoreMessage(r)
    \/ RouteNothing(r) \/ RouteEnquiry(r) \/ RouteManualReview(r)
    \/ RouteStored(r) \/ RouteNoAction(r)
    \/ MatchManualReview(r) \/ MatchWithoutReply(r) \/ MatchReply(r)
    \/ SendPart(r) \/ SendFails(r)
    \/ LockTimeout(r)

\* Every batch is delivered or given up, and no handler is left.
Settled ==
    /\ \A b \in Batches : post[b].status \in {"done", "failed"}
    /\ \A r \in Requests : req[r].pc \in {"idle", "ok", "error"}

Rest == Settled /\ UNCHANGED vars

Next ==
    \/ \E r \in Requests : Handle(r)
    \/ \E b \in Batches : Submit(b) \/ GetResponse(b) \/ LoseResponse(b)
    \/ \E c \in Chats : UpdateContactStatus(c)
    \/ UpdateConfig
    \/ Crash
    \/ Rest

Spec == Init /\ [][Next]_vars

\* The event loop runs every handler that can go on, the calls to the model
\* and to the bridge have timeouts, and the bridge's retry timers fire.
Fairness ==
    /\ \A r \in Requests : WF_vars(Handle(r))
    /\ \A b \in Batches : WF_vars(Submit(b)) /\ WF_vars(GetResponse(b))

FairSpec == Spec /\ Fairness

=============================================================================

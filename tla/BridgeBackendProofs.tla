------------------------ MODULE BridgeBackendProofs ------------------------
(***************************************************************************)
(* Theorems about the batch path of the backend, for every set of chats,   *)
(* batches and messages, every number of attempts and parts, and any       *)
(* number of lost responses, operator actions and crashes.                 *)
(***************************************************************************)
EXTENDS BridgeBackendProps, ProsperStoreProofs

(***************************************************************************)
(* The inductive invariant.  TypeOK is not inductive: an attempt counter   *)
(* stays in range because a post that may try again has attempts left, and *)
(* the handler only loads rows that exist because the conversation it      *)
(* keeps for the pipeline is one of its chat.                              *)
(***************************************************************************)
ControlOK ==
    /\ writer \in Requests \cup {NoRequest}
    /\ loop \in Requests \cup {NoRequest}
    /\ req \in [Requests -> Handler]
    /\ post \in [Batches -> Post]
    /\ sent \subseteq Chats \X Nat \X Requests \X (1..Parts)
    /\ budget \in Budget

AttemptsLeft ==
    \A b \in Batches : post[b].status \in {"new", "backoff"} => post[b].attempts < MaxAttempts

PipelineConversationExists ==
    \A r \in Requests :
        /\ req[r].pc \in {"received", "triage"} => req[r].conv = 0
        /\ loop = r /\ req[r].conv # 0 => req[r].conv \in DOMAIN View(r).convs[Chat(r)]

IInv ==
    /\ Sound(db) /\ Sound(work)
    /\ ControlOK
    /\ AttemptsLeft
    /\ PipelineConversationExists
    /\ SendingIsWriting

-----------------------------------------------------------------------------
\* A request is an attempt to post a batch of one chat of the model.
LEMMA BatchMessage ==
    ASSUME NEW r \in Requests
    PROVE  /\ Chat(r) \in Chats
           /\ Batch(r) \in Seq(Message)
           /\ r # NoRequest
  BY InputAssumption, RequestAssumption DEF Requests, Chat, Batch

\* A handler that received its request, or answered it, has a type and no
\* conversation for the pipeline yet.
LEMMA HandlerWithPc ==
    ASSUME NEW pc \in {"idle", "received", "triage", "store", "match", "send", "ok", "error"}
    PROVE  /\ [IdleHandler EXCEPT !.pc = pc] \in Handler
           /\ [IdleHandler EXCEPT !.pc = pc].pc = pc
           /\ [IdleHandler EXCEPT !.pc = pc].conv = 0
<1>1. IdleHandler \in Handler /\ IdleHandler.conv = 0
  BY BoundAssumption DEF IdleHandler, Handler, ContactStatus
<1>2. QED
  BY <1>1 DEF Handler

\* The invariant holds before the first request, in the empty database.
LEMMA InitInv == Init => IInv
<1> SUFFICES ASSUME Init PROVE IInv
  OBVIOUS
<1>1. Sound(db) /\ Sound(work)
  BY EmptyDatabaseSound DEF Init
<1>2. IdleHandler \in Handler
  BY BoundAssumption DEF IdleHandler, Handler, ContactStatus
<1>3. ControlOK
  <2>1. req \in [Requests -> Handler]
    BY <1>2 DEF Init
  <2>2. post \in [Batches -> Post]
    BY BoundAssumption DEF Init, Post
  <2>3. budget \in Budget
    BY BoundAssumption DEF Init, Budget
  <2>4. QED
    BY <2>1, <2>2, <2>3 DEF Init, ControlOK
<1>4. AttemptsLeft
  BY BoundAssumption DEF Init, AttemptsLeft
<1>5. PipelineConversationExists /\ SendingIsWriting
  BY DEF Init, PipelineConversationExists, SendingIsWriting, IdleHandler
<1>6. QED
  BY <1>1, <1>3, <1>4, <1>5 DEF IInv

-----------------------------------------------------------------------------
(***************************************************************************)
(* What every step of a handler has in common.  The hypotheses say what a  *)
(* step must respect: it runs when no other handler is between two awaits, *)
(* it opens, closes or hands on no transaction but its own, it sends only  *)
(* as the writer, and the conversation it keeps exists.                    *)
(***************************************************************************)
LEMMA HandlerStep ==
    ASSUME IInv, NEW r \in Requests, NEW h \in Handler,
           req' = [req EXCEPT ![r] = h],
           post' = post, budget' = budget,
           sent' \subseteq Chats \X Nat \X Requests \X (1..Parts),
           loop \in {r, NoRequest}, loop' \in {r, NoRequest},
           Sound(db'), Sound(work'),
           writer' \in {writer, r, NoRequest},
           writer' # writer => writer \in {r, NoRequest},
           h.pc = "send" => writer' = r,
           h.pc \in {"received", "triage"} => h.conv = 0,
           loop' = r /\ h.conv # 0 => h.conv \in DOMAIN View(r)'.convs[Chat(r)]
    PROVE  IInv'
<1>1. ControlOK'
  BY DEF IInv, ControlOK
<1>2. req \in [Requests -> Handler]
  BY DEF IInv, ControlOK
<1>3. AttemptsLeft'
  BY DEF IInv, AttemptsLeft
<1>4. PipelineConversationExists'
  <2> SUFFICES ASSUME NEW s \in Requests
               PROVE  /\ req'[s].pc \in {"received", "triage"} => req'[s].conv = 0
                      /\ loop' = s /\ req'[s].conv # 0 =>
                             req'[s].conv \in DOMAIN View(s)'.convs[Chat(s)]
    BY DEF PipelineConversationExists, View, Chat
  <2>1. CASE s = r
    <3>1. req'[s] = h
      BY <1>2, <2>1
    <3>2. QED
      BY <2>1, <3>1
  <2>2. CASE s # r
    <3>1. req'[s] = req[s]
      BY <1>2, <2>2
    <3>2. loop' # s
      BY <2>2, BatchMessage
    <3>3. QED
      BY <3>1, <3>2 DEF IInv, PipelineConversationExists
  <2>3. QED
    BY <2>1, <2>2
<1>5. SendingIsWriting'
  <2> SUFFICES ASSUME NEW s \in Requests, req'[s].pc = "send"
               PROVE  writer' = s
    BY DEF SendingIsWriting
  <2>1. CASE s = r
    BY <1>2, <2>1
  <2>2. CASE s # r
    <3>1. writer = s
      BY <1>2, <2>2 DEF IInv, SendingIsWriting
    <3>2. s # NoRequest
      BY BatchMessage
    <3>3. QED
      BY <2>2, <3>1, <3>2
  <2>3. QED
    BY <2>1, <2>2
<1>6. QED
  BY <1>1, <1>3, <1>4, <1>5 DEF IInv

\* What a request reads is sound, and so is what it reads after a step.
LEMMA ViewSound ==
    ASSUME IInv, NEW r \in Requests
    PROVE  /\ Sound(View(r)) /\ View(r) \in Database
           /\ Sound(db) /\ db \in Database
           /\ req[r] \in Handler
           /\ Chat(r) \in Chats
           /\ sent \subseteq Chats \X Nat \X Requests \X (1..Parts)
  BY BatchMessage DEF IInv, ControlOK, View, Sound

(***************************************************************************)
(* How a step ends: Continue and Hold go on with handler h, Commit and     *)
(* Finish answer the request.                                              *)
(***************************************************************************)
LEMMA ContinueStep ==
    ASSUME IInv, NEW r \in Requests, NEW d, Sound(d), NEW h \in Handler,
           Continue(r, d, h),
           loop \in {r, NoRequest}, loop' \in {r, NoRequest},
           UNCHANGED <<post, sent, budget>>,
           h.pc \notin {"send", "received", "triage"},
           loop' = r /\ h.conv # 0 => h.conv \in DOMAIN d.convs[Chat(r)]
    PROVE  IInv'
<1>1. r # NoRequest
  BY BatchMessage
<1>2. /\ Sound(db') /\ Sound(work')
      /\ writer' \in {writer, r}
      /\ writer' # writer => writer \in {r, NoRequest}
  BY DEF IInv, Continue, MayWrite
<1>3. View(r)' = d
  BY DEF Continue, View
<1>4. QED
  BY <1>2, <1>3, HandlerStep, ViewSound DEF Continue

\* A handler that keeps its transaction leaves sound rows behind if the rows
\* it writes are sound (record_stage_run and what follows it).
LEMMA HoldStep ==
    ASSUME IInv, NEW r \in Requests, NEW d, Sound(d), NEW h \in Handler,
           Hold(r, d, h),
           loop \in {r, NoRequest}, loop' = NoRequest,
           UNCHANGED <<post, budget>>,
           sent' \subseteq Chats \X Nat \X Requests \X (1..Parts),
           h.pc \notin {"received", "triage"}
    PROVE  IInv'
<1>1. r # NoRequest
  BY BatchMessage
<1>2. Sound(db') /\ Sound(work')
  BY DEF IInv, Hold
<1>3. QED
  BY <1>1, <1>2, HandlerStep DEF Hold, MayWrite

\* session.commit() of sound rows keeps the invariant: the handler that
\* commits is the writer, so no other handler is sending.
LEMMA CommitStep ==
    ASSUME IInv, NEW r \in Requests, NEW d, Sound(d),
           MayWrite(r), Commit(r, d),
           loop \in {r, NoRequest}, loop' = NoRequest,
           UNCHANGED <<post, budget>>,
           sent' \subseteq Chats \X Nat \X Requests \X (1..Parts)
    PROVE  IInv'
<1> DEFINE h == [IdleHandler EXCEPT !.pc = "ok"]
<1>1. r # NoRequest
  BY BatchMessage
<1>2. h \in Handler /\ h.pc = "ok"
  BY HandlerWithPc
<1>3. req' = [req EXCEPT ![r] = h] /\ db' = d /\ work' = d /\ writer' = NoRequest
  BY DEF Commit
<1> HIDE DEF h
<1>4. QED
  BY <1>1, <1>2, <1>3, HandlerStep DEF MayWrite

\* A commit that may have nothing to write keeps the invariant.
LEMMA FinishStep ==
    ASSUME IInv, NEW r \in Requests, NEW d, Sound(d),
           Finish(r, d),
           loop \in {r, NoRequest}, loop' = NoRequest,
           UNCHANGED <<post, sent, budget>>
    PROVE  IInv'
<1>0. sent' \subseteq Chats \X Nat \X Requests \X (1..Parts)
  BY ViewSound
<1>1. CASE d = db /\ writer # r
  <2> DEFINE h == [IdleHandler EXCEPT !.pc = "ok"]
  <2>1. r # NoRequest
    BY BatchMessage
  <2>2. h \in Handler /\ h.pc = "ok"
    BY HandlerWithPc
  <2>3. req' = [req EXCEPT ![r] = h] /\ UNCHANGED <<db, work, writer>>
    BY <1>1 DEF Finish
  <2>4. Sound(db') /\ Sound(work')
    BY <2>3 DEF IInv
  <2> HIDE DEF h
  <2>5. QED
    BY <1>0, <2>1, <2>2, <2>3, <2>4, HandlerStep
<1>2. CASE ~(d = db /\ writer # r)
  BY <1>0, <1>2, CommitStep DEF Finish
<1>3. QED
  BY <1>1, <1>2

\* A handler without a transaction may fail at any time.
LEMMA FailStep ==
    ASSUME IInv, NEW r \in Requests, Fail(r), loop \in {r, NoRequest}
    PROVE  IInv'
<1> DEFINE h == [IdleHandler EXCEPT !.pc = "error"]
<1>1. h \in Handler /\ h.pc = "error"
  BY HandlerWithPc
<1>2. /\ req' = [req EXCEPT ![r] = h]
      /\ loop' = NoRequest
      /\ UNCHANGED <<db, writer, work, post, sent, budget>>
  BY DEF Fail
<1>3. /\ Sound(db') /\ Sound(work')
      /\ sent' \subseteq Chats \X Nat \X Requests \X (1..Parts)
  BY <1>2 DEF IInv, ControlOK
<1> HIDE DEF h
<1>4. QED
  BY <1>1, <1>2, <1>3, HandlerStep, BatchMessage

(***************************************************************************)
(* The handler, action by action                                           *)
(***************************************************************************)
LEMMA StartInv ==
    ASSUME IInv, NEW r \in Requests, Start(r)
    PROVE  IInv'
<1> DEFINE h(pc) == [req[r] EXCEPT !.pc = pc]
<1>1. req[r].pc = "received" /\ req[r].conv = 0 /\ req[r] \in Handler
  BY ViewSound DEF Start, IInv, PipelineConversationExists
<1>2. /\ h("triage") \in Handler /\ h("triage").pc = "triage" /\ h("triage").conv = 0
      /\ h("store") \in Handler /\ h("store").pc = "store" /\ h("store").conv = 0
  BY <1>1 DEF Handler
<1>3. /\ Sound(db') /\ Sound(work')
      /\ sent' \subseteq Chats \X Nat \X Requests \X (1..Parts)
      /\ UNCHANGED <<writer, post, budget>>
      /\ loop = NoRequest
  BY ViewSound DEF Start, LoopFree, IInv
<1>4. CASE req' = [req EXCEPT ![r].pc = "triage"] /\ loop' = loop
  <2>1. req' = [req EXCEPT ![r] = h("triage")]
    BY <1>4
  <2> HIDE DEF h
  <2>2. QED
    BY <1>2, <1>3, <1>4, <2>1, HandlerStep
<1>5. CASE req' = [req EXCEPT ![r].pc = "store"] /\ loop' = r
  <2>1. req' = [req EXCEPT ![r] = h("store")]
    BY <1>5
  <2> HIDE DEF h
  <2>2. QED
    BY <1>2, <1>3, <1>5, <2>1, HandlerStep
<1>6. QED
  BY <1>4, <1>5 DEF Start

\* Keeping the contact of a rejected enquiry keeps the invariant.
LEMMA TriageRejectsInv ==
    ASSUME IInv, NEW r \in Requests, TriageRejects(r)
    PROVE  IInv'
<1>1. Sound(GetOrCreateContact(db, Chat(r)))
  BY ViewSound, GetOrCreateContactSound
<1>2. QED
  BY <1>1, FinishStep DEF TriageRejects, LoopFree

\* The answer of the triage prompt keeps the invariant.
LEMMA TriageReturnsInv ==
    ASSUME IInv, NEW r \in Requests, TriageReturns(r)
    PROVE  IInv'
<1>1. PICK answer \in {"enquiry", "manual_review"} :
          req' = [req EXCEPT ![r].pc = "store", ![r].triage = answer]
  BY DEF TriageReturns
<1> DEFINE h == [req[r] EXCEPT !.pc = "store", !.triage = answer]
<1>2. req[r].conv = 0 /\ req[r] \in Handler
  BY ViewSound DEF TriageReturns, IInv, PipelineConversationExists
<1>3. h \in Handler /\ h.pc = "store" /\ h.conv = 0
  BY <1>2 DEF Handler
<1>4. req' = [req EXCEPT ![r] = h]
  BY <1>1, ViewSound DEF IInv, ControlOK
<1>5. /\ Sound(db') /\ Sound(work')
      /\ sent' \subseteq Chats \X Nat \X Requests \X (1..Parts)
      /\ UNCHANGED <<writer, post, budget>>
      /\ loop = NoRequest /\ loop' = r
  BY ViewSound DEF TriageReturns, LoopFree, IInv
<1> HIDE DEF h
<1>6. QED
  BY <1>3, <1>4, <1>5, HandlerStep

\* One turn of the loop over the messages keeps the invariant: the rows stay
\* sound and the conversation for the pipeline is one that exists.
LEMMA StoreMessageInv ==
    ASSUME IInv, NEW r \in Requests, StoreMessage(r)
    PROVE  IInv'
<1> DEFINE m == Batch(r)[req[r].next]
           i == HandleInbound(View(r), Chat(r), m)
           skip == req[r].skip \/ i.reason \in SkipReasons
           conv == IF i.conv # 0 THEN i.conv ELSE req[r].conv
           n == req[r].next + 1
           h == [req[r] EXCEPT !.next = n, !.skip = skip, !.conv = conv]
<1>1. /\ loop = r /\ loop' = r /\ req[r].pc = "store"
      /\ Continue(r, i.db, h)
      /\ UNCHANGED <<post, sent, budget>>
  BY DEF StoreMessage, Storing
<1>2. m \in [id : MessageIds, kind : MessageKind]
  <2>1. req[r].next \in 1..Len(Batch(r))
    BY ViewSound DEF StoreMessage, Storing, Handler
  <2>2. m \in Message
    <3> DEFINE q == Batch(r)
               k == req[r].next
    <3>1. q \in Seq(Message)
      BY BatchMessage
    <3> HIDE DEF q, k
    <3>2. q[k] \in Message
      BY <2>1, <3>1 DEF q, k
    <3>3. QED
      BY <3>2 DEF q, k
  <2>3. QED
    BY <2>2 DEF Message
<1>3. /\ Sound(i.db)
      /\ DOMAIN View(r).convs[Chat(r)] \subseteq DOMAIN i.db.convs[Chat(r)]
      /\ i.conv \in Nat
      /\ i.conv # 0 => i.conv \in DOMAIN i.db.convs[Chat(r)]
  BY <1>2, ViewSound, HandleInboundSound
<1>4. req[r] \in Handler
  BY ViewSound
<1>5. req[r].conv # 0 => req[r].conv \in DOMAIN View(r).convs[Chat(r)]
  BY <1>1 DEF IInv, PipelineConversationExists
<1> HIDE DEF i
<1>6. skip \in {TRUE, FALSE}
  OBVIOUS
<1>7. /\ conv \in Nat
      /\ conv # 0 => conv \in DOMAIN i.db.convs[Chat(r)]
  BY <1>3, <1>4, <1>5 DEF Handler
<1>8. n \in Nat \ {0}
  BY <1>4 DEF Handler
<1> HIDE DEF n, skip, conv
<1>9. h \in Handler /\ h.pc = "store" /\ h.conv = conv
  <2>1. conv \in Nat
    BY <1>7
  <2>2. \A s \in {TRUE, FALSE} :
            LET k == [req[r] EXCEPT !.next = n, !.skip = s, !.conv = conv]
            IN  k \in Handler /\ k.pc = req[r].pc /\ k.conv = conv
    BY <1>4, <1>8, <2>1 DEF Handler
  <2>3. h \in Handler /\ h.pc = req[r].pc /\ h.conv = conv
    BY <1>6, <2>2, Zenon
  <2>4. QED
    BY <1>1, <2>3
<1> HIDE DEF h
<1>10. QED
  BY <1>1, <1>3, <1>7, <1>9, ContinueStep

\* The objects the handler takes to the prompt are a conversation and a
\* contact of its chat.
LEMMA MatchingHandler ==
    ASSUME IInv, NEW r \in Requests, Routing(r), PipelineAllowed(r)
    PROVE  Matching(r) \in Handler /\ Matching(r).pc = "match"
<1>1. req[r].conv \in DOMAIN View(r).convs[Chat(r)]
  BY DEF IInv, PipelineConversationExists, Routing, PipelineAllowed
<1>2. PipelineConversation(r) \in Conversation
  BY <1>1, ViewSound DEF Database, PipelineConversation
<1>3. View(r).contact[Chat(r)] \in ContactStatus
  BY ViewSound DEF Database
<1>4. QED
  BY <1>2, <1>3, ViewSound DEF Matching, Handler, Conversation

\* Each of the five routes of the batch handler keeps the invariant.
LEMMA RouteInv ==
    ASSUME IInv, NEW r \in Requests,
           \/ RouteNothing(r) \/ RouteEnquiry(r) \/ RouteManualReview(r)
           \/ RouteStored(r) \/ RouteNoAction(r)
    PROVE  IInv'
<1> DEFINE d == View(r)
<1>1. Sound(d) /\ Chat(r) \in Chats
  BY ViewSound
<1>2. \A stage \in Stage : Sound(SetStage(d, Chat(r), req[r].conv, stage))
  BY <1>1, SetStageSound
<1>3. {"rental_listing_matching", "manual_review"} \subseteq Stage
  BY DEF Stage
<1>4. UNCHANGED sent => sent' \subseteq Chats \X Nat \X Requests \X (1..Parts)
  BY ViewSound
<1>5. CASE RouteNothing(r)
  BY <1>1, <1>5, FinishStep DEF RouteNothing, Routing
<1>6. CASE RouteEnquiry(r)
  <2>1. Matching(r) \in Handler /\ Matching(r).pc = "match"
    BY <1>6, MatchingHandler DEF RouteEnquiry
  <2>2. QED
    BY <1>2, <1>3, <1>4, <1>6, <2>1, HoldStep DEF RouteEnquiry, Routing
<1>7. CASE RouteManualReview(r)
  BY <1>2, <1>3, <1>4, <1>7, CommitStep DEF RouteManualReview, Routing
<1>8. CASE RouteStored(r)
  <2>1. Matching(r) \in Handler /\ Matching(r).pc = "match"
    BY <1>8, MatchingHandler DEF RouteStored
  <2>2. r # NoRequest
    BY BatchMessage
  <2>3. QED
    BY <1>1, <1>8, <2>1, <2>2, ContinueStep DEF RouteStored, Routing
<1>9. CASE RouteNoAction(r)
  BY <1>1, <1>4, <1>9, CommitStep DEF RouteNoAction, Routing
<1>10. QED
  BY <1>5, <1>6, <1>7, <1>8, <1>9

\* The answer of the listing-matching prompt keeps the invariant.
LEMMA MatchInv ==
    ASSUME IInv, NEW r \in Requests,
           MatchManualReview(r) \/ MatchWithoutReply(r) \/ MatchReply(r)
    PROVE  IInv'
<1>1. \A stage \in {"manual_review", "end"} : Sound(Staged(r, stage))
  BY ViewSound, SetStageSound DEF Staged, Stage
<1>2. UNCHANGED sent => sent' \subseteq Chats \X Nat \X Requests \X (1..Parts)
  BY ViewSound
<1>3. CASE MatchManualReview(r)
  BY <1>1, <1>2, <1>3, CommitStep DEF MatchManualReview, Matched, LoopFree
<1>4. CASE MatchWithoutReply(r)
  BY <1>1, <1>2, <1>4, CommitStep DEF MatchWithoutReply, Matched, LoopFree
<1>5. CASE MatchReply(r)
  <2> DEFINE h == [req[r] EXCEPT !.pc = "send", !.part = 1]
  <2>0. 1 \in 1..Parts
    BY BoundAssumption
  <2>1. h \in Handler /\ h.pc = "send"
    BY <2>0, ViewSound DEF Handler
  <2>2. /\ Hold(r, Staged(r, "end"), h)
        /\ loop = NoRequest /\ loop' = NoRequest
        /\ UNCHANGED <<post, sent, budget>>
    BY <1>5 DEF MatchReply, Matched, LoopFree
  <2> HIDE DEF h
  <2>3. QED
    BY <1>1, <1>2, <2>1, <2>2, HoldStep
<1>6. QED
  BY <1>3, <1>4, <1>5

\* A part that is sent, or a send that fails, keeps the invariant.
LEMMA SendInv ==
    ASSUME IInv, NEW r \in Requests, SendPart(r) \/ SendFails(r)
    PROVE  IInv'
<1> DEFINE n == req[r].part
           d == AppendMessage(View(r), Chat(r), req[r].conv, <<r, n>>, "outbound")
           h == [req[r] EXCEPT !.part = @ + 1]
<1>1. req[r].pc = "send" /\ loop = NoRequest /\ loop' = NoRequest /\ UNCHANGED <<post, budget>>
  BY DEF SendPart, SendFails, LoopFree
<1>2. MayWrite(r)
  BY <1>1 DEF IInv, SendingIsWriting, MayWrite
<1>3. req[r] \in Handler /\ n \in 1..Parts /\ req[r].conv \in Nat
  BY ViewSound DEF Handler
<1>4. sent' \subseteq Chats \X Nat \X Requests \X (1..Parts)
  <2>1. Delivery(r) \in Chats \X Nat \X Requests \X (1..Parts)
    BY <1>3, ViewSound DEF Delivery
  <2>2. QED
    BY <2>1, ViewSound DEF SendPart, SendFails
<1>5. Sound(d)
  <2>1. <<r, n>> \in OutboundIds
    BY <1>3, RequestAssumption
  <2>2. QED
    BY <1>3, <2>1, ViewSound, AppendMessageSound
<1> HIDE DEF d
<1>6. CASE SendPart(r) /\ n = Parts
  BY <1>1, <1>2, <1>4, <1>5, <1>6, CommitStep DEF SendPart, d
<1>7. CASE SendPart(r) /\ n # Parts
  <2>1. h \in Handler /\ h.pc = "send"
    BY <1>1, <1>3, <1>7, BoundAssumption DEF Handler
  <2>2. Hold(r, d, h)
    BY <1>7 DEF SendPart, d
  <2> HIDE DEF h
  <2>3. QED
    BY <1>1, <1>4, <1>5, <2>1, <2>2, HoldStep
<1>8. CASE SendFails(r)
  BY <1>1, <1>2, <1>4, <1>8, ViewSound, CommitStep DEF SendFails
<1>9. QED
  BY <1>6, <1>7, <1>8

\* A handler that cannot get the write lock keeps the invariant.
LEMMA LockTimeoutInv ==
    ASSUME IInv, NEW r \in Requests, LockTimeout(r)
    PROVE  IInv'
  BY FailStep DEF LockTimeout, WantsToWrite, Storing, Routing, LoopFree

\* Every step of a handler keeps the invariant.
LEMMA HandleInv ==
    ASSUME IInv, NEW r \in Requests, Handle(r)
    PROVE  IInv'
  BY StartInv, TriageRejectsInv, TriageReturnsInv, StoreMessageInv, RouteInv,
     MatchInv, SendInv, LockTimeoutInv DEF Handle

-----------------------------------------------------------------------------
(***************************************************************************)
(* The bridge, the operator and crashes                                    *)
(***************************************************************************)

\* Another attempt is only made while there is one left.
LEMMA NextAttemptType ==
    ASSUME IInv, NEW b \in Batches
    PROVE  /\ NextAttempt(b) \in Post
           /\ NextAttempt(b).status \in {"new", "backoff"} =>
                  NextAttempt(b).attempts < MaxAttempts
<1>1. post[b] \in Post
  BY DEF IInv, ControlOK
<1>2. QED
  BY <1>1, BoundAssumption DEF NextAttempt, Post

\* A step of the bridge changes the post of a batch, and at most the handler
\* of a request that is not in the middle of a run and does not send.
LEMMA BridgeStep ==
    ASSUME IInv, NEW b \in Batches, NEW p \in Post,
           p.status \in {"new", "backoff"} => p.attempts < MaxAttempts,
           post' = [post EXCEPT ![b] = p],
           budget' \in Budget,
           UNCHANGED <<db, writer, work, loop, sent>>,
           \/ req' = req
           \/ \E x \in Requests, pc \in {"received", "error"} :
                  req' = [req EXCEPT ![x] = [IdleHandler EXCEPT !.pc = pc]]
    PROVE  IInv'
<1>1. \A pc \in {"received", "error"} :
          /\ [IdleHandler EXCEPT !.pc = pc] \in Handler
          /\ [IdleHandler EXCEPT !.pc = pc].pc = pc
          /\ [IdleHandler EXCEPT !.pc = pc].conv = 0
  BY HandlerWithPc
<1>2. req \in [Requests -> Handler] /\ post \in [Batches -> Post]
  BY DEF IInv, ControlOK
<1>3. \A r \in Requests :
          \/ req'[r] = req[r]
          \/ req'[r].pc \in {"received", "error"} /\ req'[r].conv = 0
  BY <1>1, <1>2
<1>4. req' \in [Requests -> Handler]
  BY <1>1, <1>2
<1>5. ControlOK'
  BY <1>2, <1>4 DEF IInv, ControlOK
<1>6. AttemptsLeft'
  BY <1>2 DEF IInv, AttemptsLeft
<1>7. PipelineConversationExists'
  <2>1. \A r \in Requests : View(r)' = View(r)
    BY DEF View
  <2>2. QED
    BY <1>3, <2>1 DEF IInv, PipelineConversationExists, Chat
<1>8. SendingIsWriting'
  BY <1>3 DEF IInv, SendingIsWriting
<1>9. QED
  BY <1>5, <1>6, <1>7, <1>8 DEF IInv

\* Every step of postJsonWithRetry keeps the invariant.
LEMMA BridgeInv ==
    ASSUME IInv, NEW b \in Batches, Submit(b) \/ GetResponse(b) \/ LoseResponse(b)
    PROVE  IInv'
<1>1. post[b] \in Post /\ budget \in Budget
  BY DEF IInv, ControlOK
<1>2. /\ NextAttempt(b) \in Post
      /\ NextAttempt(b).status \in {"new", "backoff"} => NextAttempt(b).attempts < MaxAttempts
  BY NextAttemptType
<1>3. CASE Submit(b)
  <2> DEFINE k == post[b].attempts + 1
             p == [status |-> "waiting", attempts |-> k]
  <2>1. post[b].attempts < MaxAttempts
    BY <1>3 DEF Submit, IInv, AttemptsLeft
  <2>2. k \in 1..MaxAttempts
    BY <1>1, <2>1, BoundAssumption DEF Post
  <2>3. p \in Post /\ p.status = "waiting"
    BY <2>2, BoundAssumption DEF Post
  <2>4. <<b, k>> \in Requests
    BY <2>2 DEF Requests
  <2>5. /\ post' = [post EXCEPT ![b] = p]
        /\ req' = [req EXCEPT ![<<b, k>>] = [IdleHandler EXCEPT !.pc = "received"]]
        /\ UNCHANGED <<db, writer, work, loop, sent, budget>>
    BY <1>3 DEF Submit
  <2> HIDE DEF p, k
  <2>6. QED
    BY <1>1, <2>3, <2>4, <2>5, BridgeStep
<1>4. CASE GetResponse(b)
  <2>1. CASE post' = [post EXCEPT ![b].status = "done"]
    <3> DEFINE p == [post[b] EXCEPT !.status = "done"]
    <3>1. p \in Post /\ p.status = "done"
      BY <1>1 DEF Post
    <3>2. post' = [post EXCEPT ![b] = p]
      BY <2>1
    <3> HIDE DEF p
    <3>3. QED
      BY <1>1, <1>4, <3>1, <3>2, BridgeStep DEF GetResponse
  <2>2. CASE post' = [post EXCEPT ![b] = NextAttempt(b)]
    BY <1>1, <1>2, <1>4, <2>2, BridgeStep DEF GetResponse
  <2>3. QED
    BY <1>4, <2>1, <2>2 DEF GetResponse
<1>5. CASE LoseResponse(b)
  <2>1. budget' \in Budget
    BY <1>1, <1>5, BoundAssumption DEF LoseResponse, Budget
  <2>2. req' = req \/ \E x \in Requests : req' = [req EXCEPT ![x] = [IdleHandler EXCEPT !.pc = "error"]]
    <3>1. CASE Attempt(b) \in Requests
      BY <1>5, <3>1 DEF LoseResponse
    <3>2. CASE Attempt(b) \notin Requests
      <4>1. [req EXCEPT ![Attempt(b)] = [IdleHandler EXCEPT !.pc = "error"]] = req
        BY <3>2 DEF IInv, ControlOK
      <4>2. QED
        BY <1>5, <4>1 DEF LoseResponse
    <3>3. QED
      BY <3>1, <3>2
  <2>3. QED
    BY <1>2, <1>5, <2>1, <2>2, BridgeStep DEF LoseResponse
<1>6. QED
  BY <1>3, <1>4, <1>5

\* An operator's write replaces both databases when nobody is the writer.
LEMMA OperateInv ==
    ASSUME IInv, NEW d, Sound(d), d.convs = db.convs, Operate(d)
    PROVE  IInv'
<1>1. budget' \in Budget
  BY BoundAssumption DEF Operate, IInv, ControlOK, Budget
<1>2. ControlOK'
  BY <1>1 DEF Operate, IInv, ControlOK
<1>3. AttemptsLeft'
  BY DEF Operate, IInv, AttemptsLeft
<1>4. PipelineConversationExists'
  <2>1. \A r \in Requests : View(r)'.convs = View(r).convs
    BY BatchMessage DEF Operate, View
  <2>2. QED
    BY <2>1 DEF Operate, IInv, PipelineConversationExists, Chat
<1>5. SendingIsWriting'
  BY DEF Operate, IInv, SendingIsWriting
<1>6. QED
  BY <1>2, <1>3, <1>4, <1>5 DEF Operate, IInv

\* Every action of the dashboard keeps the invariant.
LEMMA OperatorInv ==
    ASSUME IInv, (\E c \in Chats : UpdateContactStatus(c)) \/ UpdateConfig
    PROVE  IInv'
<1>1. Sound(db) /\ db \in Database
  BY DEF IInv, Sound
<1>2. CASE \E c \in Chats : UpdateContactStatus(c)
  <2>1. PICK c \in Chats, status \in {"active", "paused", "ignored"} :
            Operate(SetContactStatus(db, c, status))
    BY <1>2 DEF UpdateContactStatus
  <2>2. /\ Sound(SetContactStatus(db, c, status))
        /\ SetContactStatus(db, c, status).convs = db.convs
    BY <1>1, SetContactStatusSound DEF ContactStatus
  <2>3. QED
    BY <2>1, <2>2, OperateInv
<1>3. CASE UpdateConfig
  <2> DEFINE Changed(d) == d \in Database /\ d.convs = db.convs /\ d.messages = db.messages
  <2>1. Changed([db EXCEPT !.pauseAi = ~@]) /\ Changed([db EXCEPT !.sendLock = ~@])
    BY <1>1 DEF Database
  <2>2. PICK d : Changed(d) /\ Operate(d)
    BY <1>3, <2>1 DEF UpdateConfig
  <2>3. Sound(d) /\ d.convs = db.convs
    BY <1>1, <2>2, SameRowsSound
  <2>4. QED
    BY <2>2, <2>3, OperateInv
<1>4. QED
  BY <1>2, <1>3

\* A crash of the backend keeps the invariant: the open transaction is gone.
LEMMA CrashInv ==
    ASSUME IInv, Crash
    PROVE  IInv'
<1>1. [IdleHandler EXCEPT !.pc = "error"] \in Handler
      /\ [IdleHandler EXCEPT !.pc = "error"].pc = "error"
  BY HandlerWithPc
<1>2. \A r \in Requests : req'[r] \in Handler /\ req'[r].pc \in {"idle", "ok", "error"}
  BY <1>1 DEF Crash, IInv, ControlOK
<1>3. req' \in [Requests -> Handler]
  BY <1>2 DEF Crash
<1>4. budget' \in Budget
  BY BoundAssumption DEF Crash, IInv, ControlOK, Budget
<1>5. ControlOK'
  BY <1>3, <1>4 DEF Crash, IInv, ControlOK
<1>6. PipelineConversationExists'
  BY <1>2, BatchMessage DEF Crash, PipelineConversationExists
<1>7. SendingIsWriting'
  BY <1>2 DEF SendingIsWriting
<1>8. QED
  BY <1>5, <1>6, <1>7 DEF Crash, IInv, AttemptsLeft

\* The invariant is inductive.
LEMMA NextInv == IInv /\ [Next]_vars => IInv'
<1> SUFFICES ASSUME IInv, [Next]_vars PROVE IInv'
  OBVIOUS
<1>1. CASE UNCHANGED vars
  BY <1>1 DEF vars, IInv, ControlOK, AttemptsLeft, PipelineConversationExists,
              SendingIsWriting, View, Chat
<1>2. CASE Next
  BY <1>1, <1>2, HandleInv, BridgeInv, OperatorInv, CrashInv DEF Next, Rest
<1>3. QED
  BY <1>1, <1>2

-----------------------------------------------------------------------------
\* The inductive invariant holds in every reachable state.
THEOREM Invariance == Spec => []IInv
  BY InitInv, NextInv, PTL DEF Spec

\* Every variable keeps its type; in particular no post makes more attempts
\* than it may, and the handler never loads a conversation that is not there.
THEOREM TypeCorrect == Spec => []TypeOK
<1>1. IInv => TypeOK
  BY DEF IInv, Sound, ControlOK, TypeOK
<1>2. QED
  BY <1>1, Invariance, PTL

\* A part of a reply is only sent by the request that has the database's write
\* transaction: at most one reply is being sent at any time.
THEOREM SenderIsWriter == Spec => []SendingIsWriting
<1>1. IInv => SendingIsWriting
  BY DEF IInv
<1>2. QED
  BY <1>1, Invariance, PTL

\* A contact with conversations has exactly one open, the last, whatever
\* resets, replays, concurrent requests, crashes and operator actions do.
THEOREM OneOpenConversation == Spec => []LatestConversationOpen
<1>1. IInv => LatestConversationOpen
  BY DEF IInv, Sound, LatestConversationOpen
<1>2. QED
  BY <1>1, Invariance, PTL

\* A message of a chat has at most one row, however often it is delivered.
THEOREM OneRowPerMessage == Spec => []MessageStoredOnce
<1>1. IInv => MessageStoredOnce
  BY DEF IInv, Sound, MessageStoredOnce
<1>2. QED
  BY <1>1, Invariance, PTL

=============================================================================

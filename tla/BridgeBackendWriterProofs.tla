---------------------- MODULE BridgeBackendWriterProofs ----------------------
(***************************************************************************)
(* What the open write transaction of a request may hold, and what follows *)
(* for replies, takeovers and acknowledged messages: theorems for every    *)
(* set of chats, batches and messages, and any number of attempts, parts,  *)
(* lost responses, operator actions and crashes.                           *)
(***************************************************************************)
EXTENDS BridgeBackendProofs

(***************************************************************************)
(* The inductive invariant, beside IInv of BridgeBackendProofs.            *)
(***************************************************************************)
Working == {"store", "match", "send"}
Running == {"received", "triage"} \cup Working

\* A batch in which the tenant typed the reset command.
HasReset(r) == \E n \in DOMAIN Batch(r) : Batch(r)[n].kind = "reset"

\* An attempt that was not made yet has no handler, and only a handler that is
\* past its triage has a transaction.
WriterWorks ==
    /\ \A r \in Requests : r[2] > post[r[1]].attempts => req[r].pc = "idle"
    /\ \A r \in Requests : writer = r => req[r].pc \in Working

\* Without a transaction there is nothing but what is committed; the writer
\* has changed its own chat only.
Isolation ==
    /\ writer = NoRequest => work = db
    /\ \A r \in Requests : writer = r => ChangesOnly(db, work, Chat(r))

\* A transaction does not give a contact back that was taken over, unless the
\* tenant typed the reset command.
TakeoverKept ==
    \A r \in Requests :
        writer = r /\ ~HasReset(r) /\ TakenOver(db, Chat(r)) => TakenOver(work, Chat(r))

\* All recorded automated parts of a conversation come from one request; while
\* a request sends, those of its conversation are its own.
OneReplyIn(d) ==
    \A x, y \in d.messages :
        /\ x.direction = "outbound" /\ y.direction = "outbound"
        /\ x.chat = y.chat /\ x.conv = y.conv
        => x.id[1] = y.id[1]

OwnReply(d, r, i) ==
    \A x \in d.messages :
        x.direction = "outbound" /\ x.chat = Chat(r) /\ x.conv = i => x.id[1] = r

SenderOwnsReply ==
    \A r \in Requests : req[r].pc = "send" => OwnReply(work, r, req[r].conv)

\* A handler that has the transaction while it waits for the matching prompt
\* found the contact active, and the conversation is as it loaded it.
Held(d, r, h) ==
    /\ d.contact[Chat(r)] = "active"
    /\ h.conv \in DOMAIN d.convs[Chat(r)]
    /\ d.convs[Chat(r)][h.conv].status = h.heldConv

HeldIsCurrent ==
    \A r \in Requests : req[r].pc = "match" /\ writer = r => Held(work, r, req[r])

\* SendsPassTheGates of one request: d is what it sees, c what is committed.
Gates(c, d, r, h) ==
    /\ ~c.pauseAi /\ ~c.sendLock
    /\ ~AutoReplySent(c, Chat(r), h.conv)
    /\ (\E row \in d.messages \ c.messages : row.direction # "outbound") =>
           /\ d.contact[Chat(r)] = "active"
           /\ d.convs[Chat(r)][h.conv].status = "active"

SenderPassed == \A r \in Requests : req[r].pc = "send" => Gates(db, work, r, req[r])

\* Unless a message keeps the pipeline from the batch, every message the loop
\* has passed is stored in what the handler sees.
StoredTo(d, r, h) ==
    \A n \in DOMAIN Batch(r) : n < h.next => StoredMessage(d, Chat(r), Batch(r)[n].id)

StoredSoFar ==
    \A r \in Requests :
        /\ req[r].pc \in {"received", "triage"} => req[r].next = 1
        /\ req[r].pc \in Working /\ ~req[r].skip => StoredTo(View(r), r, req[r])

WriterInv ==
    /\ WriterWorks
    /\ Isolation
    /\ TakeoverKept
    /\ OneReplyIn(work) /\ SenderOwnsReply
    /\ HeldIsCurrent /\ SenderPassed
    /\ StoredSoFar

-----------------------------------------------------------------------------
(***************************************************************************)
(* How a step of a handler leaves the rows                                 *)
(***************************************************************************)

\* The request leaves them alone, keeps d in its transaction, or commits d.
Leaves(r, d) ==
    \/ d = View(r) /\ UNCHANGED <<db, work, writer>>
    \/ MayWrite(r) /\ db' = db /\ work' = d /\ writer' = r
    \/ MayWrite(r) /\ db' = d /\ work' = d /\ writer' = NoRequest /\ req'[r].pc = "ok"

\* What the rest of the system sees of it: rows are committed only with the
\* answer 200, they are of the chat, and without the reset command they leave a
\* takeover alone; a batch that is answered 200 with no message that keeps the
\* pipeline from it is stored.
Effect(r) ==
    /\ req[r].pc # "ok" /\ \A s \in Requests \ {r} : req'[s] = req[s]
    /\ db' # db =>
           /\ req'[r].pc = "ok"
           /\ ChangesOnly(db, db', Chat(r))
           /\ ~HasReset(r) /\ TakenOver(db, Chat(r)) => TakenOver(db', Chat(r))
    /\ req'[r].pc = "ok" /\ ~req[r].skip /\ req[r].next > Len(Batch(r)) =>
           \A n \in DOMAIN Batch(r) : StoredMessage(db', Chat(r), Batch(r)[n].id)

\* What WriterInv asks of the request whose handler becomes h: it sees d, w is
\* the writer and c is committed.
HandlerFits(c, d, w, r, h) ==
    /\ w = r => h.pc \in Working
    /\ h.pc = "send" => w = r /\ OwnReply(d, r, h.conv) /\ Gates(c, d, r, h)
    /\ h.pc = "match" /\ w = r => Held(d, r, h)
    /\ h.pc \in {"received", "triage"} => h.next = 1
    /\ h.pc \in Working /\ ~h.skip => StoredTo(d, r, h)

\* Each way a step ends is one of these three.
LEMMA Endings ==
    ASSUME IInv, NEW r \in Requests, NEW d, NEW h
    PROVE  /\ Continue(r, d, h) => Leaves(r, d)
           /\ Hold(r, d, h) => Leaves(r, d)
           /\ MayWrite(r) /\ Commit(r, d) => Leaves(r, d)
           /\ Finish(r, d) => Leaves(r, d)
<1>1. req \in [Requests -> Handler]
  BY DEF IInv, ControlOK
<1>2. [IdleHandler EXCEPT !.pc = "ok"].pc = "ok"
  BY DEF IdleHandler
<1>3. QED
  BY <1>1, <1>2 DEF Continue, Hold, Commit, Finish, Leaves, View, MayWrite

\* What a request that may write sees is the working database; what any other
\* sees is what is committed, and the working database extends it.
LEMMA Views ==
    ASSUME IInv, WriterInv, NEW r \in Requests
    PROVE  /\ MayWrite(r) => View(r) = work
           /\ View(r) \in {db, work}
           /\ db.messages \subseteq work.messages
           /\ OneReplyIn(View(r)) /\ OneReplyIn(db)
<1>1. db.messages \subseteq work.messages
  BY DEF WriterInv, Isolation, ChangesOnly, IInv, ControlOK
<1>2. QED
  BY <1>1 DEF WriterInv, Isolation, View, MayWrite, OneReplyIn

\* A message that is stored stays stored.
LEMMA StaysStored ==
    ASSUME NEW d, NEW e, d.messages \subseteq e.messages
    PROVE  /\ \A c, id : StoredMessage(d, c, id) => StoredMessage(e, c, id)
           /\ \A r \in Requests : \A h : StoredTo(d, r, h) => StoredTo(e, r, h)
  BY DEF StoredMessage, StoredTo

(***************************************************************************)
(* What every step of a handler has in common.                             *)
(***************************************************************************)
LEMMA RowStep ==
    ASSUME IInv, WriterInv, NEW r \in Requests, NEW h, NEW d \in Database,
           req[r].pc \in Running, post' = post,
           req' = [req EXCEPT ![r] = h],
           Leaves(r, d),
           ChangesOnly(View(r), d, Chat(r)),
           ~HasReset(r) /\ TakenOver(View(r), Chat(r)) => TakenOver(d, Chat(r)),
           OneReplyIn(d),
           HandlerFits(db', d, writer', r, h)
    PROVE  WriterInv' /\ Effect(r)
<1>1. /\ req \in [Requests -> Handler]
      /\ writer \in Requests \cup {NoRequest} /\ NoRequest \notin Requests
      /\ db \in Database /\ work \in Database /\ Chat(r) \in Chats
  BY BatchMessage, RequestAssumption DEF IInv, ControlOK, Sound
<1>2. req'[r] = h /\ \A s \in Requests \ {r} : req'[s] = req[s]
  BY <1>1
<1>3. View(r)' = d
  BY <1>1 DEF Leaves, View
<1>4. ASSUME NEW s \in Requests \ {r}
      PROVE  /\ writer' = s => writer = s /\ UNCHANGED <<db, work>>
             /\ writer = s => writer' = s /\ UNCHANGED <<db, work>>
             /\ View(s).messages \subseteq View(s)'.messages
  <2>1. /\ writer' = s => writer = s /\ UNCHANGED <<db, work>>
        /\ writer = s => writer' = s /\ UNCHANGED <<db, work>>
    BY <1>1 DEF Leaves, MayWrite
  <2>2. CASE writer = s
    BY <2>1, <2>2 DEF View
  <2>3. CASE writer # s
    <3>1. db.messages \subseteq db'.messages
      <4>1. CASE db' = db
        BY <4>1
      <4>2. CASE db' # db
        <5>1. MayWrite(r) /\ db' = d
          BY <4>2 DEF Leaves
        <5>2. View(r).messages \subseteq d.messages /\ View(r) = work
          BY <5>1, Views DEF ChangesOnly
        <5>3. QED
          BY <5>1, <5>2, Views
      <4>3. QED
        BY <4>1, <4>2
    <3>2. QED
      BY <2>1, <2>3, <3>1 DEF View
  <2>4. QED
    BY <2>1, <2>2, <2>3
<1>5. WriterWorks'
  <2>1. \A s \in Requests : s[2] > post'[s[1]].attempts => req'[s].pc = "idle"
    BY <1>2 DEF WriterInv, WriterWorks, Running, Working
  <2>2. \A s \in Requests : writer' = s => req'[s].pc \in Working
    BY <1>2, <1>4 DEF WriterInv, WriterWorks, HandlerFits
  <2>3. QED
    BY <2>1, <2>2 DEF WriterWorks
<1>6. Isolation'
  <2>1. writer' = NoRequest => work' = db'
    BY <1>1 DEF Leaves, WriterInv, Isolation
  <2>2. ASSUME writer' = r PROVE ChangesOnly(db', work', Chat(r))
    <3>1. CASE writer = r /\ UNCHANGED <<db, work>>
      BY <3>1 DEF WriterInv, Isolation
    <3>2. CASE MayWrite(r) /\ db' = db /\ work' = d
      <4>1. ChangesOnly(db, View(r), Chat(r))
        BY <1>1, <3>2, Views, ChangesNothing DEF MayWrite, WriterInv, Isolation
      <4>2. View(r) \in Database
        BY <1>1 DEF View
      <4>3. QED
        BY <1>1, <3>2, <4>1, <4>2, ChangesTransitive
    <3>3. QED
      BY <1>1, <2>2, <3>1, <3>2 DEF Leaves
  <2>3. \A s \in Requests : writer' = s => ChangesOnly(db', work', Chat(s))
    BY <1>4, <2>2 DEF WriterInv, Isolation
  <2>4. QED
    BY <2>1, <2>3 DEF Isolation, Chat
<1>7. TakeoverKept'
  <2>1. ASSUME writer' = r, ~HasReset(r), TakenOver(db', Chat(r))
        PROVE  TakenOver(work', Chat(r))
    <3>1. CASE writer = r /\ UNCHANGED <<db, work>>
      BY <2>1, <3>1 DEF WriterInv, TakeoverKept
    <3>2. CASE MayWrite(r) /\ db' = db /\ work' = d
      <4>1. TakenOver(work, Chat(r))
        BY <2>1, <3>2 DEF MayWrite, WriterInv, TakeoverKept, Isolation
      <4>2. QED
        BY <2>1, <3>2, <4>1, Views
    <3>3. QED
      BY <1>1, <2>1, <3>1, <3>2 DEF Leaves
  <2>2. QED
    BY <1>4, <2>1 DEF WriterInv, TakeoverKept, HasReset, Chat, Batch
<1>8. OneReplyIn(work')
  BY DEF Leaves, WriterInv
<1>9. ASSUME NEW s \in Requests
      PROVE  /\ req'[s].pc = "send" =>
                    OwnReply(work', s, req'[s].conv) /\ Gates(db', work', s, req'[s])
             /\ req'[s].pc = "match" /\ writer' = s => Held(work', s, req'[s])
             /\ req'[s].pc \in {"received", "triage"} => req'[s].next = 1
             /\ req'[s].pc \in Working /\ ~req'[s].skip => StoredTo(View(s)', s, req'[s])
  <2>1. CASE s = r
    <3>1. writer' = r => work' = d
      BY <1>1, <1>3 DEF View
    <3>2. QED
      BY <1>2, <1>3, <2>1, <3>1 DEF HandlerFits
  <2>2. CASE s # r
    <3>1. req'[s] = req[s]
      BY <1>2, <2>2
    <3>2. req[s].pc = "send" => writer = s /\ UNCHANGED <<db, work>>
      BY <1>4, <2>2 DEF IInv, SendingIsWriting
    <3>3. writer' = s => writer = s /\ UNCHANGED <<db, work>>
      BY <1>4, <2>2
    <3>4. req[s].pc \in Working /\ ~req[s].skip => StoredTo(View(s)', s, req[s])
      <4>1. View(s).messages \subseteq View(s)'.messages
        BY <1>4, <2>2
      <4>2. QED
        BY <4>1, StaysStored DEF WriterInv, StoredSoFar
    <3>5. QED
      BY <3>1, <3>2, <3>3, <3>4
         DEF WriterInv, SenderOwnsReply, SenderPassed, HeldIsCurrent, StoredSoFar
  <2>3. QED
    BY <2>1, <2>2
<1>10. SenderOwnsReply' /\ HeldIsCurrent' /\ SenderPassed' /\ StoredSoFar'
  <2>1. SenderOwnsReply' /\ HeldIsCurrent' /\ SenderPassed'
    BY <1>9 DEF SenderOwnsReply, HeldIsCurrent, SenderPassed, OwnReply, Held, Gates, Chat,
                AutoReplySent
  <2>2. StoredSoFar'
    BY <1>9 DEF StoredSoFar, StoredTo, StoredMessage, Chat, Batch, View
  <2>3. QED
    BY <2>1, <2>2
<1>11. Effect(r)
  <2>1. req[r].pc # "ok" /\ \A s \in Requests \ {r} : req'[s] = req[s]
    BY <1>2 DEF Running, Working
  <2>2. ASSUME db' # db
        PROVE  /\ req'[r].pc = "ok"
               /\ ChangesOnly(db, db', Chat(r))
               /\ ~HasReset(r) /\ TakenOver(db, Chat(r)) => TakenOver(db', Chat(r))
    <3>1. MayWrite(r) /\ db' = d /\ req'[r].pc = "ok" /\ View(r) = work
      BY <2>2, Views DEF Leaves
    <3>2. ChangesOnly(db, work, Chat(r))
      BY <1>1, <3>1, ChangesNothing DEF MayWrite, WriterInv, Isolation
    <3>3. ~HasReset(r) /\ TakenOver(db, Chat(r)) => TakenOver(work, Chat(r))
      BY <3>1 DEF MayWrite, WriterInv, Isolation, TakeoverKept
    <3>4. QED
      BY <1>1, <3>1, <3>2, <3>3, ChangesTransitive
  <2>3. ASSUME req'[r].pc = "ok", ~req[r].skip, req[r].next > Len(Batch(r)),
               NEW n \in DOMAIN Batch(r)
        PROVE  StoredMessage(db', Chat(r), Batch(r)[n].id)
    <3>1. /\ DOMAIN Batch(r) = 1..Len(Batch(r)) /\ Len(Batch(r)) \in Nat /\ n \in Nat
          /\ n <= Len(Batch(r)) /\ req[r].next \in Nat
      BY BatchMessage, ViewSound DEF Handler
    <3>2. req[r].pc \in Working
      BY <2>3, <3>1 DEF WriterInv, StoredSoFar, Running
    <3>3. StoredMessage(View(r), Chat(r), Batch(r)[n].id)
      BY <2>3, <3>1, <3>2 DEF WriterInv, StoredSoFar, StoredTo
    <3>4. StoredMessage(d, Chat(r), Batch(r)[n].id)
      BY <3>3, StaysStored DEF ChangesOnly
    <3>5. d = db'
      BY <1>2, <1>3, <2>3 DEF HandlerFits, Working, View
    <3>6. QED
      BY <3>4, <3>5
  <2>4. QED
    BY <2>1, <2>2, <2>3 DEF Effect
<1>12. QED
  BY <1>5, <1>6, <1>7, <1>8, <1>10, <1>11 DEF WriterInv, OneReplyIn

(***************************************************************************)
(* The handler, action by action                                           *)
(***************************************************************************)

\* What every proof about a step of a handler needs of the state before it.
LEMMA Before ==
    ASSUME IInv, WriterInv, NEW r \in Requests
    PROVE  /\ View(r) \in Database /\ Sound(View(r)) /\ db \in Database /\ Sound(db)
           /\ Chat(r) \in Chats /\ Batch(r) \in Seq(Message)
           /\ req[r] \in Handler /\ req \in [Requests -> Handler] /\ r # NoRequest
           /\ ChangesOnly(View(r), View(r), Chat(r)) /\ OneReplyIn(View(r))
           /\ writer = r => req[r].pc \in Working
           /\ req[r].pc \in Working /\ ~req[r].skip => StoredTo(View(r), r, req[r])
  BY ViewSound, BatchMessage, Views, ChangesNothing
     DEF WriterInv, WriterWorks, StoredSoFar, IInv, ControlOK

\* A handler that answers fits whatever it leaves, if it gives its transaction
\* up.
LEMMA AnswerFits ==
    ASSUME NEW c, NEW d, NEW w, NEW r, NEW pc \in {"ok", "error"}, w # r
    PROVE  HandlerFits(c, d, w, r, [IdleHandler EXCEPT !.pc = pc])
<1>1. [IdleHandler EXCEPT !.pc = pc].pc = pc
  BY DEF IdleHandler
<1>2. QED
  BY <1>1 DEF HandlerFits, Working

\* Rows that no automated part is added to have one reply per conversation if
\* they had.
LEMMA NoReplyNoChange ==
    ASSUME NEW d, NEW e, NoReplyAdded(d, e), OneReplyIn(d)
    PROVE  /\ OneReplyIn(e)
           /\ \A r, i : OwnReply(d, r, i) => OwnReply(e, r, i)
  BY DEF NoReplyAdded, OneReplyIn, OwnReply

\* A handler that commits rows of its chat keeps the invariant.
LEMMA CommitRows ==
    ASSUME IInv, WriterInv, NEW r \in Requests, NEW d \in Database,
           req[r].pc \in Running, post' = post,
           (MayWrite(r) /\ Commit(r, d)) \/ Finish(r, d),
           ChangesOnly(View(r), d, Chat(r)),
           ~HasReset(r) /\ TakenOver(View(r), Chat(r)) => TakenOver(d, Chat(r)),
           OneReplyIn(d)
    PROVE  WriterInv' /\ Effect(r)
<1> DEFINE h == [IdleHandler EXCEPT !.pc = "ok"]
<1>1. req' = [req EXCEPT ![r] = h] /\ writer' # r
  BY BatchMessage DEF Commit, Finish
<1>2. Leaves(r, d)
  BY Endings
<1>3. HandlerFits(db', d, writer', r, h)
  BY <1>1, AnswerFits
<1> HIDE DEF h
<1>4. QED
  BY <1>1, <1>2, <1>3, RowStep

\* The handler starts.
LEMMA StartRows ==
    ASSUME IInv, WriterInv, NEW r \in Requests, Start(r)
    PROVE  WriterInv' /\ Effect(r)
<1> DEFINE h(pc) == [req[r] EXCEPT !.pc = pc]
<1>1. /\ req[r].pc = "received" /\ req[r].next = 1 /\ writer # r
      /\ UNCHANGED <<db, writer, work, post>>
  BY Before DEF Start, WriterInv, StoredSoFar, Working
<1>2. PICK pc \in {"triage", "store"} : req' = [req EXCEPT ![r] = h(pc)]
  BY DEF Start
<1>3. h(pc).pc = pc /\ h(pc).next = 1
  BY <1>1, Before DEF Handler
<1>4. StoredTo(View(r), r, h(pc))
  <2>1. DOMAIN Batch(r) = 1..Len(Batch(r))
    BY Before
  <2>2. QED
    BY <1>3, <2>1 DEF StoredTo
<1>5. HandlerFits(db', View(r), writer', r, h(pc))
  BY <1>1, <1>3, <1>4 DEF HandlerFits
<1>6. Leaves(r, View(r))
  BY <1>1 DEF Leaves
<1> HIDE DEF h
<1>7. QED
  BY <1>1, <1>2, <1>5, <1>6, Before, RowStep DEF Running, Working

\* The triage prompt rejects or lets the batch go on.
LEMMA TriageRows ==
    ASSUME IInv, WriterInv, NEW r \in Requests, TriageRejects(r) \/ TriageReturns(r)
    PROVE  WriterInv' /\ Effect(r)
<1>1. /\ req[r].pc = "triage" /\ req[r].next = 1 /\ writer # r /\ post' = post
      /\ View(r) = db
  BY Before DEF TriageRejects, TriageReturns, WriterInv, StoredSoFar, Working, View
<1>2. CASE TriageRejects(r)
  <2> DEFINE d == GetOrCreateContact(db, Chat(r))
  <2>1. Finish(r, d)
    BY <1>2 DEF TriageRejects
  <2>2. /\ d \in Database /\ ChangesOnly(View(r), d, Chat(r)) /\ NoReplyAdded(View(r), d)
        /\ TakenOver(View(r), Chat(r)) => TakenOver(d, Chat(r))
    BY <1>1, Before, GetOrCreateContactType, GetOrCreateContactChanges
  <2> HIDE DEF d
  <2>3. QED
    BY <1>1, <2>1, <2>2, Before, NoReplyNoChange, CommitRows DEF Running, Working
<1>3. CASE TriageReturns(r)
  <2>1. PICK answer \in {"enquiry", "manual_review"} :
            req' = [req EXCEPT ![r].pc = "store", ![r].triage = answer]
    BY <1>3 DEF TriageReturns
  <2> DEFINE h == [req[r] EXCEPT !.pc = "store", !.triage = answer]
  <2>2. req' = [req EXCEPT ![r] = h]
    BY <2>1, Before
  <2>3. h.pc = "store" /\ h.next = 1
    BY <1>1, Before DEF Handler
  <2>4. UNCHANGED <<db, writer, work>>
    BY <1>3 DEF TriageReturns
  <2> HIDE DEF h
  <2>5. StoredTo(View(r), r, h)
    <3>1. DOMAIN Batch(r) = 1..Len(Batch(r))
      BY Before
    <3>2. QED
      BY <2>3, <3>1 DEF StoredTo
  <2>6. HandlerFits(db', View(r), writer', r, h)
    BY <1>1, <2>3, <2>4, <2>5 DEF HandlerFits, Working
  <2>7. Leaves(r, View(r))
    BY <2>4 DEF Leaves
  <2>8. QED
    BY <1>1, <2>2, <2>6, <2>7, Before, RowStep DEF Running, Working
<1>4. QED
  BY <1>2, <1>3

\* One turn of the loop over the messages.
LEMMA StoreMessageRows ==
    ASSUME IInv, WriterInv, NEW r \in Requests, StoreMessage(r)
    PROVE  WriterInv' /\ Effect(r)
<1> DEFINE n == req[r].next
           m == Batch(r)[n]
           i == HandleInbound(View(r), Chat(r), m)
           skip == req[r].skip \/ i.reason \in SkipReasons
           conv == IF i.conv # 0 THEN i.conv ELSE req[r].conv
           h == [req[r] EXCEPT !.next = n + 1, !.skip = skip, !.conv = conv]
<1>1. /\ req[r].pc = "store" /\ n \in DOMAIN Batch(r) /\ n \in Nat
      /\ Continue(r, i.db, h) /\ post' = post
  <2>1. n \in Nat \ {0} /\ n <= Len(Batch(r))
    BY Before DEF StoreMessage, Storing, Handler
  <2>2. n \in DOMAIN Batch(r)
    <3>1. DOMAIN Batch(r) = 1..Len(Batch(r)) /\ Len(Batch(r)) \in Nat
      BY Before
    <3>2. QED
      BY <2>1, <3>1
  <2>3. QED
    BY <2>1, <2>2 DEF StoreMessage, Storing
<1>2. m \in [id : MessageIds, kind : MessageKind]
  <2> DEFINE q == Batch(r)
  <2>1. q \in Seq(Message) /\ n \in DOMAIN q
    BY <1>1, Before
  <2> HIDE DEF q, n
  <2>2. q[n] \in Message
    BY <2>1
  <2>3. QED
    BY <2>2 DEF q, Message
<1>3. /\ i.db \in Database
      /\ ChangesOnly(View(r), i.db, Chat(r)) /\ NoReplyAdded(View(r), i.db)
      /\ m.kind # "reset" /\ TakenOver(View(r), Chat(r)) => TakenOver(i.db, Chat(r))
      /\ i.reason \notin SkipReasons => StoredMessage(i.db, Chat(r), m.id)
  BY <1>2, Before, HandleInboundSound, HandleInboundChanges DEF Sound
<1>4. m.kind = "reset" => HasReset(r)
  BY <1>1 DEF HasReset
<1> HIDE DEF i
<1>5. h.pc = "store" /\ h.next = n + 1 /\ h.skip = skip
  BY <1>1, Before DEF Handler
<1>6. req' = [req EXCEPT ![r] = h]
  BY <1>1 DEF Continue
<1>7. ~skip => StoredTo(i.db, r, h)
  <2> SUFFICES ASSUME ~skip, NEW k \in DOMAIN Batch(r), k < h.next
               PROVE  StoredMessage(i.db, Chat(r), Batch(r)[k].id)
    BY DEF StoredTo
  <2>1. k \in Nat
    <3>1. DOMAIN Batch(r) = 1..Len(Batch(r))
      BY Before
    <3>2. QED
      BY <3>1
  <2>2. k < n \/ k = n
    BY <1>1, <1>5, <2>1
  <2>3. CASE k < n
    <3>1. StoredMessage(View(r), Chat(r), Batch(r)[k].id)
      BY <1>1, <2>3, Before DEF StoredTo, Working
    <3>2. QED
      BY <1>3, <3>1, StaysStored DEF ChangesOnly
  <2>4. CASE k = n
    BY <1>3, <2>4
  <2>5. QED
    BY <2>2, <2>3, <2>4
<1> HIDE DEF h, n, m, skip, conv
<1>8. HandlerFits(db', i.db, writer', r, h)
  BY <1>5, <1>7 DEF HandlerFits, Working
<1>9. Leaves(r, i.db)
  BY <1>1, Endings
<1>10. OneReplyIn(i.db)
  BY <1>3, Before, NoReplyNoChange
<1>11. QED
  BY <1>1, <1>3, <1>4, <1>6, <1>8, <1>9, <1>10, RowStep DEF Running, Working

\* The rows a handler may go on to the matching prompt with, and the handler.
LEMMA MatchingFits ==
    ASSUME IInv, WriterInv, NEW r \in Requests, Routing(r), PipelineAllowed(r),
           NEW d, NEW c, NEW w,
           d.messages = View(r).messages, d.contact = View(r).contact,
           DOMAIN d.convs[Chat(r)] = DOMAIN View(r).convs[Chat(r)],
           d.convs[Chat(r)][req[r].conv].status = PipelineConversation(r).status
    PROVE  HandlerFits(c, d, w, r, Matching(r))
<1> DEFINE h == Matching(r)
<1>1. /\ req[r].pc = "store" /\ ~req[r].skip
      /\ req[r].conv \in DOMAIN View(r).convs[Chat(r)]
      /\ View(r).contact[Chat(r)] = "active"
  BY DEF Routing, PipelineAllowed, IInv, PipelineConversationExists
<1>2. /\ h.pc = "match" /\ h.conv = req[r].conv /\ h.next = req[r].next
      /\ h.heldConv = PipelineConversation(r).status
  BY Before DEF Matching, Handler
<1> HIDE DEF h
<1>3. Held(d, r, h)
  BY <1>1, <1>2 DEF Held
<1>4. StoredTo(d, r, h)
  BY <1>1, <1>2, Before DEF StoredTo, StoredMessage, Working
<1>5. HandlerFits(c, d, w, r, h)
  BY <1>2, <1>3, <1>4 DEF HandlerFits, Working
<1>6. QED
  BY <1>5 DEF h

\* A stage of a conversation of the request.
LEMMA StageRows ==
    ASSUME IInv, WriterInv, NEW r \in Requests, NEW stage \in Stage
    PROVE  LET d == SetStage(View(r), Chat(r), req[r].conv, stage)
           IN  /\ d \in Database
               /\ ChangesOnly(View(r), d, Chat(r))
               /\ TakenOver(View(r), Chat(r)) => TakenOver(d, Chat(r))
               /\ OneReplyIn(d)
  BY Before, SetStageType, SetStageChanges, NoReplyNoChange DEF TakenOver

\* Each of the five routes of the batch handler.
LEMMA RouteRows ==
    ASSUME IInv, WriterInv, NEW r \in Requests,
           \/ RouteNothing(r) \/ RouteEnquiry(r) \/ RouteManualReview(r)
           \/ RouteStored(r) \/ RouteNoAction(r)
    PROVE  WriterInv' /\ Effect(r)
<1> DEFINE d(stage) == SetStage(View(r), Chat(r), req[r].conv, stage)
<1>1. req[r].pc \in Running /\ post' = post
  BY DEF RouteNothing, RouteEnquiry, RouteManualReview, RouteStored, RouteNoAction, Routing,
         Running, Working
<1>2. {"rental_listing_matching", "manual_review"} \subseteq Stage
  BY DEF Stage
<1>3. CASE RouteNothing(r)
  BY <1>1, <1>3, Before, CommitRows DEF RouteNothing
<1>4. CASE RouteEnquiry(r)
  <2> DEFINE e == d("rental_listing_matching")
             h == Matching(r)
  <2>1. Hold(r, e, h) /\ Routing(r) /\ PipelineAllowed(r)
    BY <1>4 DEF RouteEnquiry
  <2>2. req' = [req EXCEPT ![r] = h] /\ Leaves(r, e)
    BY <2>1, Endings DEF Hold
  <2>3. /\ e.messages = View(r).messages /\ e.contact = View(r).contact
        /\ DOMAIN e.convs[Chat(r)] = DOMAIN View(r).convs[Chat(r)]
        /\ e.convs[Chat(r)][req[r].conv].status = PipelineConversation(r).status
    <3>1. req[r].conv \in DOMAIN View(r).convs[Chat(r)]
      BY <2>1 DEF Routing, PipelineAllowed, IInv, PipelineConversationExists
    <3>2. QED
      BY <1>2, <3>1, Before, SetStageChanges DEF PipelineConversation
  <2>4. HandlerFits(db', e, writer', r, h)
    BY <2>1, <2>3, MatchingFits
  <2> HIDE DEF h
  <2>5. QED
    BY <1>1, <1>2, <2>2, <2>4, StageRows, RowStep
<1>5. CASE RouteManualReview(r)
  BY <1>1, <1>2, <1>5, StageRows, CommitRows DEF RouteManualReview
<1>6. CASE RouteStored(r)
  <2> DEFINE h == Matching(r)
  <2>1. Continue(r, View(r), h) /\ Routing(r) /\ PipelineAllowed(r)
    BY <1>6 DEF RouteStored
  <2>2. req' = [req EXCEPT ![r] = h] /\ Leaves(r, View(r))
    BY <2>1, Endings DEF Continue
  <2>3. HandlerFits(db', View(r), writer', r, h)
    BY <2>1, MatchingFits DEF PipelineConversation
  <2> HIDE DEF h
  <2>4. QED
    BY <1>1, <2>2, <2>3, Before, RowStep
<1>7. CASE RouteNoAction(r)
  BY <1>1, <1>7, Before, CommitRows DEF RouteNoAction
<1>8. QED
  BY <1>3, <1>4, <1>5, <1>6, <1>7

\* The answer of the matching prompt: the gates hold for what is committed
\* because the transaction turned no switch and removed no message, and for
\* what the transaction holds because nobody else could change it since.
LEMMA MatchRows ==
    ASSUME IInv, WriterInv, NEW r \in Requests,
           MatchManualReview(r) \/ MatchWithoutReply(r) \/ MatchReply(r)
    PROVE  WriterInv' /\ Effect(r)
<1> DEFINE d(stage) == Staged(r, stage)
<1>1. req[r].pc = "match" /\ MayWrite(r) /\ post' = post
  BY DEF MatchManualReview, MatchWithoutReply, MatchReply, Matched
<1>2. \A stage \in {"manual_review", "end"} :
          /\ d(stage) \in Database
          /\ ChangesOnly(View(r), d(stage), Chat(r))
          /\ TakenOver(View(r), Chat(r)) => TakenOver(d(stage), Chat(r))
          /\ OneReplyIn(d(stage))
  BY StageRows DEF Staged, Stage
<1>3. CASE MatchManualReview(r)
  BY <1>1, <1>2, <1>3, CommitRows DEF MatchManualReview, Running, Working
<1>4. CASE MatchWithoutReply(r)
  BY <1>1, <1>2, <1>4, CommitRows DEF MatchWithoutReply, Running, Working
<1>5. CASE MatchReply(r)
  <2> DEFINE e == d("end")
             h == [req[r] EXCEPT !.pc = "send", !.part = 1]
             c == Chat(r)
             i == req[r].conv
  <2>1. /\ Hold(r, e, h)
        /\ ~AutoReplySent(View(r), c, i) /\ ~SendBlocked(r)
    BY <1>5 DEF MatchReply
  <2>2. req' = [req EXCEPT ![r] = h] /\ Leaves(r, e) /\ writer' = r /\ db' = db
    BY <2>1, Endings DEF Hold
  <2>3. h.pc = "send" /\ h.conv = i /\ h.next = req[r].next /\ h.skip = req[r].skip
    BY Before DEF Handler
  <2>4. View(r) = work /\ db.messages \subseteq work.messages
    BY <1>1, Views
  <2>5. /\ e.messages = work.messages /\ e.contact = work.contact
        /\ i \in DOMAIN work.convs[c] => e.convs[c][i].status = work.convs[c][i].status
    BY <2>4, Before, SetStageChanges DEF Staged, Stage
  <2> HIDE DEF h, e
  <2>6. OwnReply(e, r, h.conv)
    BY <2>1, <2>3, <2>4, <2>5 DEF OwnReply, AutoReplySent
  <2>7. Gates(db, e, r, h)
    <3>1. ~db.pauseAi /\ ~db.sendLock
      BY <1>1, <2>1, <2>4 DEF SendBlocked, MayWrite, WriterInv, Isolation, ChangesOnly
    <3>2. ~AutoReplySent(db, c, i)
      BY <2>1, <2>4 DEF AutoReplySent
    <3>3. ASSUME NEW row \in e.messages \ db.messages
          PROVE  e.contact[c] = "active" /\ e.convs[c][i].status = "active"
      <4>1. writer = r
        BY <1>1, <2>5 DEF MayWrite, WriterInv, Isolation
      <4>2. Held(work, r, req[r])
        BY <1>1, <4>1 DEF WriterInv, HeldIsCurrent
      <4>3. req[r].heldConv = "active"
        BY <2>1 DEF SendBlocked
      <4>4. QED
        BY <2>5, <4>2, <4>3 DEF Held
    <3>4. QED
      BY <2>3, <3>1, <3>2, <3>3 DEF Gates
  <2>8. ~h.skip => StoredTo(e, r, h)
    BY <1>1, <2>3, <2>4, <2>5, Before DEF StoredTo, StoredMessage, Working
  <2>9. HandlerFits(db', e, writer', r, h)
    BY <2>2, <2>3, <2>6, <2>7, <2>8 DEF HandlerFits, Working
  <2>10. QED
    BY <1>1, <1>2, <2>2, <2>9, RowStep DEF e, Running, Working
<1>6. QED
  BY <1>3, <1>4, <1>5

\* A part that is sent and recorded belongs to the reply of its request.
LEMMA SendRows ==
    ASSUME IInv, WriterInv, NEW r \in Requests, SendPart(r) \/ SendFails(r)
    PROVE  WriterInv' /\ Effect(r)
<1> DEFINE c == Chat(r)
           i == req[r].conv
           n == req[r].part
           d == AppendMessage(View(r), c, i, <<r, n>>, "outbound")
           h == [req[r] EXCEPT !.part = @ + 1]
<1>1. /\ req[r].pc = "send" /\ post' = post
      /\ writer = r /\ MayWrite(r) /\ View(r) = work
  BY DEF SendPart, SendFails, IInv, SendingIsWriting, MayWrite, View
<1>2. n \in 1..Parts /\ i \in Nat /\ <<r, n>> \in OutboundIds
  BY Before, RequestAssumption DEF Handler
<1>3. OwnReply(work, r, i) /\ Gates(db, work, r, req[r])
  BY <1>1 DEF WriterInv, SenderOwnsReply, SenderPassed
<1>4. /\ d \in Database /\ ChangesOnly(View(r), d, c)
      /\ d.contact = work.contact /\ d.convs = work.convs
  BY <1>1, <1>2, Before, AppendMessageType, AppendMessageChanges
<1>5. /\ d.messages \subseteq work.messages \cup
             {[chat |-> c, id |-> <<r, n>>, conv |-> i, direction |-> "outbound"]}
      /\ work.messages \subseteq d.messages
  BY <1>1, <1>2, Before, AppendMessageChanges DEF ChangesOnly
<1>6. TakenOver(View(r), c) => TakenOver(d, c)
  BY <1>1, <1>4 DEF TakenOver
<1> HIDE DEF d
<1>7. OneReplyIn(d) /\ OwnReply(d, r, i)
  <2> DEFINE new == [chat |-> c, id |-> <<r, n>>, conv |-> i, direction |-> "outbound"]
  <2>1. new.id[1] = r /\ new.chat = c /\ new.conv = i
    OBVIOUS
  <2>2. \A x \in d.messages : x \in work.messages \/ x = new
    BY <1>5
  <2> HIDE DEF new
  <2>3. OwnReply(d, r, i)
    BY <1>3, <2>1, <2>2 DEF OwnReply
  <2>4. OneReplyIn(d)
    BY <1>3, <2>1, <2>2, <2>3 DEF OneReplyIn, OwnReply, WriterInv
  <2>5. QED
    BY <2>3, <2>4
<1>8. CASE SendFails(r)
  BY <1>1, <1>8, Before, CommitRows DEF SendFails, Running, Working
<1>9. CASE SendPart(r) /\ n = Parts
  BY <1>1, <1>4, <1>6, <1>7, <1>9, CommitRows DEF SendPart, d, Running, Working
<1>10. CASE SendPart(r) /\ n # Parts
  <2>1. Hold(r, d, h)
    BY <1>10 DEF SendPart, d
  <2>2. h.pc = "send" /\ h.conv = i /\ h.next = req[r].next /\ h.skip = req[r].skip
    BY <1>1, Before DEF Handler
  <2>3. req' = [req EXCEPT ![r] = h] /\ Leaves(r, d) /\ writer' = r /\ db' = db
    BY <2>1, Endings DEF Hold
  <2> HIDE DEF h
  <2>4. Gates(db, d, r, h)
    BY <1>3, <1>4, <1>5, <2>2 DEF Gates
  <2>5. ~h.skip => StoredTo(d, r, h)
    BY <1>1, <1>5, <2>2, Before DEF StoredTo, StoredMessage, Working
  <2>6. HandlerFits(db', d, writer', r, h)
    BY <1>7, <2>2, <2>3, <2>4, <2>5 DEF HandlerFits, Working
  <2>7. QED
    BY <1>1, <1>4, <1>6, <1>7, <2>3, <2>6, RowStep DEF Running, Working
<1>11. QED
  BY <1>8, <1>9, <1>10

\* A handler that cannot write while another one is the writer gives up.
LEMMA LockTimeoutRows ==
    ASSUME IInv, WriterInv, NEW r \in Requests, LockTimeout(r)
    PROVE  WriterInv' /\ Effect(r)
<1> DEFINE h == [IdleHandler EXCEPT !.pc = "error"]
<1>1. /\ req' = [req EXCEPT ![r] = h] /\ post' = post /\ req[r].pc \in Running
      /\ UNCHANGED <<db, work, writer>> /\ writer # r
  BY DEF LockTimeout, Fail, MayWrite, WantsToWrite, Storing, Routing, Running, Working
<1>2. HandlerFits(db', View(r), writer', r, h)
  BY <1>1, AnswerFits
<1>3. Leaves(r, View(r))
  BY <1>1 DEF Leaves
<1> HIDE DEF h
<1>4. QED
  BY <1>1, <1>2, <1>3, Before, RowStep

\* Every step of a handler keeps the invariant.
LEMMA HandleRows ==
    ASSUME IInv, WriterInv, NEW r \in Requests, Handle(r)
    PROVE  WriterInv' /\ Effect(r)
  BY StartRows, TriageRows, StoreMessageRows, RouteRows, MatchRows, SendRows,
     LockTimeoutRows DEF Handle

-----------------------------------------------------------------------------
(***************************************************************************)
(* The bridge, the operator and crashes                                    *)
(***************************************************************************)

\* A step of the bridge touches no rows and no handler that has any.
LEMMA BridgeRowStep ==
    ASSUME IInv, WriterInv, UNCHANGED <<db, work, writer>>,
           \A s \in Requests : s[2] > post'[s[1]].attempts => req'[s].pc = "idle",
           \A s \in Requests :
               \/ req'[s] = req[s]
               \/ /\ req[s].pc \in {"idle", "received"}
                  /\ req'[s].pc \in {"received", "error"} /\ req'[s].next = 1
    PROVE  WriterInv'
<1>1. WriterWorks'
  <2>1. ASSUME NEW s \in Requests, writer' = s
        PROVE  req'[s].pc \in Working
    BY <2>1 DEF WriterInv, WriterWorks, Working
  <2>2. QED
    BY <2>1 DEF WriterWorks
<1>2. Isolation' /\ TakeoverKept' /\ OneReplyIn(work')
  BY DEF WriterInv, Isolation, TakeoverKept, HasReset, Chat, Batch
<1>3. SenderOwnsReply' /\ HeldIsCurrent' /\ SenderPassed'
  BY DEF WriterInv, SenderOwnsReply, HeldIsCurrent, SenderPassed, OwnReply, Held, Gates,
         Chat, AutoReplySent
<1>4. StoredSoFar'
  <2>1. \A s \in Requests : View(s)' = View(s)
    BY DEF View
  <2>2. QED
    BY <2>1 DEF WriterInv, StoredSoFar, StoredTo, StoredMessage, Chat, Batch, Working
<1>5. QED
  BY <1>1, <1>2, <1>3, <1>4 DEF WriterInv, OneReplyIn

\* Every step of postJsonWithRetry: a new attempt gets a handler of its own.
LEMMA BridgeRows ==
    ASSUME IInv, WriterInv, NEW b \in Batches,
           Submit(b) \/ GetResponse(b) \/ LoseResponse(b)
    PROVE  WriterInv'
<1>1. /\ req \in [Requests -> Handler] /\ post \in [Batches -> Post]
      /\ post[b].attempts \in Nat
  BY BoundAssumption DEF IInv, ControlOK, Post
<1>2. \A s \in Requests : s = <<s[1], s[2]>> /\ s[1] \in Batches /\ s[2] \in Nat
  BY BoundAssumption DEF Requests
<1>3. \A s \in Requests : s[2] > post[s[1]].attempts => req[s].pc = "idle"
  BY DEF WriterInv, WriterWorks
<1>4. \A pc \in {"received", "error"} :
          [IdleHandler EXCEPT !.pc = pc].pc = pc /\ [IdleHandler EXCEPT !.pc = pc].next = 1
  BY DEF IdleHandler
<1>5. CASE Submit(b)
  <2> DEFINE k == post[b].attempts + 1
             h == [IdleHandler EXCEPT !.pc = "received"]
             p == [status |-> "waiting", attempts |-> k]
  <2>1. /\ req' = [req EXCEPT ![<<b, k>>] = h] /\ post' = [post EXCEPT ![b] = p]
        /\ UNCHANGED <<db, work, writer>>
    BY <1>5 DEF Submit
  <2>2. p.attempts = k
    OBVIOUS
  <2>3. h.pc = "received" /\ h.next = 1
    BY <1>4
  <2> HIDE DEF h, p
  <2>4. ASSUME NEW s \in Requests
        PROVE  /\ s[2] > post'[s[1]].attempts => req'[s].pc = "idle"
               /\ \/ req'[s] = req[s]
                  \/ /\ req[s].pc \in {"idle", "received"}
                     /\ req'[s].pc \in {"received", "error"} /\ req'[s].next = 1
    <3>1. CASE s = <<b, k>>
      <4>1. s[1] = b /\ s[2] = k
        BY <3>1
      <4>2. req[s].pc = "idle"
        BY <1>1, <1>3, <4>1
      <4>3. req'[s] = h
        BY <1>1, <2>1, <3>1
      <4>4. post'[b].attempts = k
        BY <1>1, <2>1, <2>2
      <4>5. QED
        BY <1>1, <2>3, <4>1, <4>2, <4>3, <4>4
    <3>2. CASE s # <<b, k>>
      <4>1. req'[s] = req[s]
        BY <1>1, <2>1, <3>2
      <4>2. CASE s[1] = b
        <5>1. post'[b].attempts = k
          BY <1>1, <2>1, <2>2
        <5>2. QED
          BY <1>1, <1>2, <1>3, <4>1, <4>2, <5>1
      <4>3. CASE s[1] # b
        <5>1. post'[s[1]] = post[s[1]]
          BY <1>1, <1>2, <2>1, <4>3
        <5>2. QED
          BY <1>3, <4>1, <5>1
      <4>4. QED
        BY <4>2, <4>3
    <3>3. QED
      BY <3>1, <3>2
  <2>5. QED
    BY <2>1, <2>4, BridgeRowStep
<1>6. CASE GetResponse(b) \/ LoseResponse(b)
  <2>1. NextAttempt(b).attempts = post[b].attempts
    BY <1>1 DEF NextAttempt, Post
  <2>2. \A x \in Batches : post'[x].attempts = post[x].attempts
    BY <1>1, <1>6, <2>1 DEF GetResponse, LoseResponse, Post
  <2>3. /\ UNCHANGED <<db, work, writer>>
        /\ \/ req' = req
           \/ /\ req[Attempt(b)].pc = "received"
              /\ req' = [req EXCEPT ![Attempt(b)] = [IdleHandler EXCEPT !.pc = "error"]]
    BY <1>6 DEF GetResponse, LoseResponse
  <2>4. \A s \in Requests :
            \/ req'[s] = req[s]
            \/ /\ req[s].pc = "received" /\ s = Attempt(b)
               /\ req'[s].pc = "error" /\ req'[s].next = 1
    BY <1>1, <1>4, <2>3
  <2>5. \A s \in Requests : s[2] > post'[s[1]].attempts => req'[s].pc = "idle"
    <3> SUFFICES ASSUME NEW s \in Requests, s[2] > post'[s[1]].attempts
                 PROVE  req'[s].pc = "idle"
      OBVIOUS
    <3>1. req[s].pc = "idle"
      BY <1>2, <1>3, <2>2
    <3>2. QED
      BY <2>4, <3>1
  <2>6. QED
    BY <2>3, <2>4, <2>5, BridgeRowStep
<1>7. QED
  BY <1>5, <1>6

\* The operator writes when nobody is the writer, and adds no messages.
LEMMA OperateRows ==
    ASSUME IInv, WriterInv, NEW d \in Database, d.messages = db.messages, Operate(d)
    PROVE  WriterInv'
<1>1. writer = NoRequest /\ work = db /\ db' = d /\ work' = d /\ UNCHANGED <<writer, req, post>>
  BY DEF Operate, WriterInv, Isolation
<1>2. \A r \in Requests : writer # r /\ req[r].pc # "send" /\ View(r) = db /\ View(r)' = d
  BY <1>1, BatchMessage DEF IInv, SendingIsWriting, View
<1>3. WriterWorks' /\ Isolation' /\ TakeoverKept'
  BY <1>1, <1>2 DEF WriterInv, WriterWorks, Isolation, TakeoverKept
<1>4. OneReplyIn(work')
  BY <1>1 DEF WriterInv, OneReplyIn
<1>5. SenderOwnsReply' /\ HeldIsCurrent' /\ SenderPassed'
  BY <1>1, <1>2 DEF SenderOwnsReply, HeldIsCurrent, SenderPassed
<1>6. StoredSoFar'
  BY <1>1, <1>2 DEF WriterInv, StoredSoFar, StoredTo, StoredMessage, Chat, Batch
<1>7. QED
  BY <1>3, <1>4, <1>5, <1>6 DEF WriterInv, OneReplyIn

\* Every action of the dashboard keeps the invariant.
LEMMA OperatorRows ==
    ASSUME IInv, WriterInv, (\E c \in Chats : UpdateContactStatus(c)) \/ UpdateConfig
    PROVE  WriterInv'
<1>1. db \in Database
  BY DEF IInv, Sound
<1> DEFINE Changed(d) == d \in Database /\ d.messages = db.messages
<1>2. \A c \in Chats, status \in ContactStatus : Changed(SetContactStatus(db, c, status))
  BY <1>1, SetContactStatusType DEF SetContactStatus, Database
<1>3. Changed([db EXCEPT !.pauseAi = ~@]) /\ Changed([db EXCEPT !.sendLock = ~@])
  BY <1>1 DEF Database
<1>4. PICK d : Changed(d) /\ Operate(d)
  <2>1. CASE \E c \in Chats : UpdateContactStatus(c)
    BY <1>2, <2>1 DEF UpdateContactStatus, ContactStatus
  <2>2. CASE UpdateConfig
    BY <1>3, <2>2 DEF UpdateConfig
  <2>3. QED
    BY <2>1, <2>2
<1>5. QED
  BY <1>4, OperateRows

\* A crash leaves what was committed, and no handler.
LEMMA CrashRows ==
    ASSUME IInv, WriterInv, Crash
    PROVE  WriterInv'
<1>1. /\ writer' = NoRequest /\ work' = db /\ UNCHANGED <<db, post>>
  BY DEF Crash
<1>2. [IdleHandler EXCEPT !.pc = "error"].pc = "error"
  BY DEF IdleHandler
<1>3. \A r \in Requests :
          /\ req'[r].pc \in {"idle", "ok", "error"}
          /\ req[r].pc = "idle" => req'[r].pc = "idle"
          /\ r # NoRequest
  BY <1>2, BatchMessage DEF Crash
<1>4. WriterWorks' /\ Isolation' /\ TakeoverKept'
  BY <1>1, <1>3 DEF WriterInv, WriterWorks, Isolation, TakeoverKept
<1>5. OneReplyIn(work')
  <2>1. db.messages \subseteq work.messages
    BY DEF WriterInv, Isolation, ChangesOnly, IInv, ControlOK
  <2>2. QED
    BY <1>1, <2>1 DEF WriterInv, OneReplyIn
<1>6. SenderOwnsReply' /\ HeldIsCurrent' /\ SenderPassed' /\ StoredSoFar'
  BY <1>3 DEF SenderOwnsReply, HeldIsCurrent, SenderPassed, StoredSoFar, Working
<1>7. QED
  BY <1>4, <1>5, <1>6 DEF WriterInv, OneReplyIn

\* The invariant holds before the first request.
LEMMA InitRows == Init => WriterInv
<1> SUFFICES ASSUME Init PROVE WriterInv
  OBVIOUS
<1>1. \A r \in Requests : req[r].pc = "idle" /\ writer # r
  BY BatchMessage DEF Init, IdleHandler
<1>2. OneReplyIn(work)
  BY DEF Init, EmptyDatabase, OneReplyIn
<1>3. WriterWorks /\ Isolation /\ TakeoverKept
  BY <1>1 DEF Init, WriterWorks, Isolation, TakeoverKept
<1>4. QED
  BY <1>1, <1>2, <1>3 DEF WriterInv, SenderOwnsReply, HeldIsCurrent, SenderPassed, StoredSoFar,
                          Working

\* Together with IInv the invariant is inductive.
LEMMA NextRows == IInv /\ WriterInv /\ [Next]_vars => WriterInv'
<1> SUFFICES ASSUME IInv, WriterInv, [Next]_vars PROVE WriterInv'
  OBVIOUS
<1>1. CASE UNCHANGED vars
  <2>1. \A s \in Requests : s[2] > post'[s[1]].attempts => req'[s].pc = "idle"
    BY <1>1 DEF vars, WriterInv, WriterWorks
  <2>2. QED
    BY <1>1, <2>1, BridgeRowStep DEF vars
<1>2. CASE Next
  BY <1>1, <1>2, HandleRows, BridgeRows, OperatorRows, CrashRows DEF Next, Rest
<1>3. QED
  BY <1>1, <1>2

-----------------------------------------------------------------------------
\* Both invariants hold in every reachable state.
THEOREM WriterInvariance == Spec => [](IInv /\ WriterInv)
<1>1. Init => IInv /\ WriterInv
  BY InitInv, InitRows
<1>2. IInv /\ WriterInv /\ [Next]_vars => (IInv /\ WriterInv)'
  BY NextInv, NextRows
<1>3. QED
  BY <1>1, <1>2, PTL DEF Spec

\* The open transaction of a request touches its own chat only, on top of what
\* is committed: its commit undoes nothing that was committed since it began.
THEOREM TransactionsAreIsolated == Spec => []WriterIsolation
<1>1. IInv /\ WriterInv => WriterIsolation
  BY DEF WriterInv, Isolation, ChangesOnly, WriterIsolation
<1>2. QED
  BY <1>1, WriterInvariance, PTL

\* All recorded automated parts of a conversation come from one request, however
\* many batches, retries and overlapping requests it gets.
THEOREM OneReplyPerConversation == Spec => []OneRecordedReply
<1>1. IInv /\ WriterInv => OneRecordedReply
  BY DEF WriterInv, OneReplyIn, OneRecordedReply
<1>2. QED
  BY <1>1, WriterInvariance, PTL

\* While a part is sent the switches are off, no reply is committed for its
\* conversation, and what the handler stored is for an active contact.
THEOREM RepliesPassTheGates == Spec => []SendsPassTheGates
<1>1. IInv /\ WriterInv => SendsPassTheGates
  BY DEF WriterInv, SenderPassed, Gates, StoresNewMessage, SendsPassTheGates
<1>2. QED
  BY <1>1, WriterInvariance, PTL

(***************************************************************************)
(* Steps                                                                   *)
(***************************************************************************)

\* Rows are committed by a handler that answers 200 or by the operator, and
\* only a handler answers 200.
LEMMA WhoCommits ==
    ASSUME IInv, WriterInv, [Next]_vars
    PROVE  \/ \E r \in Requests : Handle(r) /\ Effect(r)
           \/ /\ \A r \in Requests : req'[r].pc = "ok" => req[r].pc = "ok"
              /\ db' = db \/ budget'.operations # budget.operations
<1>1. req \in [Requests -> Handler] /\ budget \in Budget /\ budget.operations \in Nat
  BY BoundAssumption DEF IInv, ControlOK, Budget
<1>2. \A pc : [IdleHandler EXCEPT !.pc = pc].pc = pc
  BY DEF IdleHandler
<1>3. CASE \E r \in Requests : Handle(r)
  BY <1>3, HandleRows
<1>4. CASE \E b \in Batches : Submit(b) \/ GetResponse(b) \/ LoseResponse(b)
  <2>1. PICK b \in Batches : Submit(b) \/ GetResponse(b) \/ LoseResponse(b)
    BY <1>4
  <2>2. /\ db' = db
        /\ \/ req' = req
           \/ \E x, pc : pc # "ok" /\ req' = [req EXCEPT ![x] = [IdleHandler EXCEPT !.pc = pc]]
    BY <2>1 DEF Submit, GetResponse, LoseResponse
  <2>3. QED
    BY <1>1, <1>2, <2>2
<1>5. CASE (\E c \in Chats : UpdateContactStatus(c)) \/ UpdateConfig
  <2>1. PICK d : Operate(d)
    BY <1>5 DEF UpdateContactStatus, UpdateConfig
  <2>2. budget'.operations = budget.operations + 1 /\ req' = req
    BY <1>1, <2>1 DEF Operate, Budget
  <2>3. QED
    BY <1>1, <2>2
<1>6. CASE Crash
  BY <1>2, <1>6 DEF Crash
<1>7. CASE UNCHANGED vars
  BY <1>7 DEF vars
<1>8. QED
  BY <1>3, <1>4, <1>5, <1>6, <1>7 DEF Next, Rest

\* A contact that was taken over becomes active again only by the operator or
\* by a batch of its chat with the reset command in it.
THEOREM TakeoversStick == Spec => TakeoverSticks
<1>1. ASSUME IInv, WriterInv, [Next]_vars,
             NEW c \in Chats, db.contact[c] \in {"paused", "ignored"}, db'.contact[c] = "active"
      PROVE  \/ budget'.operations # budget.operations
             \/ \E r \in Requests :
                    /\ Commits(r) /\ Chat(r) = c
                    /\ \E n \in DOMAIN Batch(r) : Batch(r)[n].kind = "reset"
  <2>1. db' # db
    BY <1>1
  <2>2. CASE \E r \in Requests : Handle(r) /\ Effect(r)
    <3>1. PICK r \in Requests : Effect(r)
      BY <2>2
    <3>2. Commits(r) /\ ChangesOnly(db, db', Chat(r))
      BY <2>1, <3>1 DEF Effect, Commits
    <3>3. Chat(r) = c
      BY <1>1, <3>2 DEF ChangesOnly
    <3>4. HasReset(r)
      BY <1>1, <2>1, <3>1, <3>3 DEF Effect, TakenOver
    <3>5. QED
      BY <3>2, <3>3, <3>4 DEF HasReset
  <2>3. QED
    BY <1>1, <2>1, <2>2, WhoCommits
<1>2. IInv /\ WriterInv /\ [Next]_vars =>
          [ \A c \in Chats :
              db.contact[c] \in {"paused", "ignored"} /\ db'.contact[c] = "active"
              => \/ budget'.operations # budget.operations
                 \/ \E r \in Requests :
                        /\ Commits(r) /\ Chat(r) = c
                        /\ \E n \in DOMAIN Batch(r) : Batch(r)[n].kind = "reset" ]_vars
  BY <1>1
<1>3. QED
  BY <1>2, WriterInvariance, PTL DEF Spec, TakeoverSticks

\* A batch that reached the pipeline is answered 200 only with every message of
\* it committed.
THEOREM AcknowledgedIsStored == Spec => AckedMessagesAreStored
<1>1. ASSUME IInv, WriterInv, [Next]_vars,
             NEW r \in Requests,
             Commits(r) /\ req[r].conv # 0 /\ ~req[r].skip /\ req[r].next > Len(Batch(r)),
             NEW n \in DOMAIN Batch(r)
      PROVE  StoredMessage(db', Chat(r), Batch(r)[n].id)
  <2>1. PICK s \in Requests : Effect(s)
    BY <1>1, WhoCommits DEF Commits
  <2>2. s = r
    BY <1>1, <2>1 DEF Effect, Commits
  <2>3. QED
    BY <1>1, <2>1, <2>2 DEF Effect, Commits
<1>2. IInv /\ WriterInv /\ [Next]_vars =>
          [ \A r \in Requests :
              Commits(r) /\ req[r].conv # 0 /\ ~req[r].skip /\ req[r].next > Len(Batch(r)) =>
                  \A n \in DOMAIN Batch(r) : StoredMessage(db', Chat(r), Batch(r)[n].id) ]_vars
  BY <1>1
<1>3. QED
  BY <1>2, WriterInvariance, PTL DEF Spec, AckedMessagesAreStored

=============================================================================

---------------------------- MODULE InboundBuffer ----------------------------
(***************************************************************************)
(* The burst buffers of the bridge (bridge/src/inboundBuffer.ts): messages *)
(* of a chat are kept until the chat has been quiet for a time the backend *)
(* is asked for, then posted as one batch; a message the operator typed on *)
(* the phone first flushes the chat and is posted on its own.              *)
(*                                                                         *)
(* Receiving is asynchronous: every message runs in a promise of its own,  *)
(* so a buffer can be flushed, and another one made for the chat, while    *)
(* the question about its wait is still open.  The number "made" tells the *)
(* buffer objects of a chat apart, as the identity test of the code does.  *)
(***************************************************************************)
EXTENDS Naturals, Sequences, FiniteSets

CONSTANTS
    Chats,
    Messages,
    ChatOf,         \* [Messages -> Chats]
    FromMe,         \* the messages typed by the operator
    Timestamp,      \* [Messages -> Nat]
    MaxTries,       \* attempts of one post
    CanStop         \* the process may get SIGINT or SIGTERM

ASSUME BufferAssumption ==
    /\ ChatOf \in [Messages -> Chats]
    /\ Timestamp \in [Messages -> Nat]
    /\ FromMe \subseteq Messages
    /\ MaxTries \in Nat \ {0}
    /\ CanStop \in BOOLEAN

VARIABLES
    received,   \* messages received so far, in order
    buffers,    \* per chat: the pending buffer, without messages when there is none
    armed,      \* timers that will fire: <<chat, buffer, timer>>
    fetches,    \* open questions about the wait: <<chat, buffer>>
    waiting,    \* operator messages whose promise awaits the flush of the chat
    posts,      \* posts in progress
    posted,     \* per chat: batches handed to the poster so far, in order
    forwarded,  \* batches the backend has accepted
    failed,     \* batches given up after the last attempt
    process,    \* "up", "stopping" or "down"
    flushing    \* what flushAll has left to do

vars == <<received, buffers, armed, fetches, waiting, posts, posted,
          forwarded, failed, process, flushing>>

RangeOf(s) == {s[i] : i \in DOMAIN s}

NoBatch == << >>

Init ==
    /\ received = << >>
    /\ buffers = [c \in Chats |-> [made |-> 0, messages |-> << >>, timer |-> 0]]
    /\ armed = {}
    /\ fetches = {}
    /\ waiting = {}
    /\ posts = {}
    /\ posted = [c \in Chats |-> << >>]
    /\ forwarded = {}
    /\ failed = {}
    /\ process = "up"
    /\ flushing = [chats |-> {}, batch |-> NoBatch, owed |-> {}]


\* The chat has an entry in the map of buffers.
Pending(c) == buffers[c].messages # << >>

\* The message at i goes before the one at j: it is older, or as old and came
\* first (the sort of the code is stable).
Precedes(batch, i, j) ==
    \/ Timestamp[batch[i]] < Timestamp[batch[j]]
    \/ Timestamp[batch[i]] = Timestamp[batch[j]] /\ i < j

\* The orders of the indices of a batch in which none is out of place.
SortingOrders(batch) ==
    {p \in [DOMAIN batch -> DOMAIN batch] :
        \A i, j \in DOMAIN batch : i < j => Precedes(batch, p[i], p[j])}

Sorted(batch) ==
    LET order == CHOOSE p \in SortingOrders(batch) : TRUE
    IN  [i \in DOMAIN batch |-> batch[order[i]]]

\* The batch flush(c) posts.
BatchOf(c) == Sorted(buffers[c].messages)

InProgress(batch) == \E p \in posts : p.batch = batch

StartPost(c, batch) ==
    /\ posts' = posts \cup {[chat |-> c, batch |-> batch, tries |-> 1]}
    /\ posted' = [posted EXCEPT ![c] = Append(@, batch)]

\* Mutant: the timer of the buffer is not cleared.
FlushKeepingTimer(c) ==
    IF Pending(c)
    THEN /\ buffers' = [buffers EXCEPT ![c].messages = << >>, ![c].timer = 0]
         /\ armed' = armed
         /\ StartPost(c, BatchOf(c))
    ELSE UNCHANGED <<buffers, armed, posts, posted>>

\* Mutant: the entry stays in the map.
FlushKeepingEntry(c) ==
    IF Pending(c)
    THEN /\ UNCHANGED buffers
         /\ armed' = armed \ {<<c, buffers[c].made, buffers[c].timer>>}
         /\ StartPost(c, BatchOf(c))
    ELSE UNCHANGED <<buffers, armed, posts, posted>>

\* flush(c): the entry goes first, then its timer, then the batch is posted.
Flush(c) ==
    IF Pending(c)
    THEN /\ buffers' = [buffers EXCEPT ![c].messages = << >>, ![c].timer = 0]
         /\ armed' = armed \ {<<c, buffers[c].made, buffers[c].timer>>}
         /\ StartPost(c, BatchOf(c))
    ELSE UNCHANGED <<buffers, armed, posts, posted>>

\* The promise of an operator message can go on: it does so in the current
\* turn of the event loop, before timers, answers and signals.
Resumable(w) == ~InProgress(w.batch)

NextTurn == process # "down" /\ \A w \in waiting : ~Resumable(w)

(***************************************************************************)
(* receive                                                                 *)
(***************************************************************************)
Arrives(m) ==
    /\ process # "down"
    /\ m \notin RangeOf(received)
    /\ received' = Append(received, m)

\* Mutant: an operator message does not flush the chat.
ReceiveFromMeAtOnce(m) ==
    /\ m \in FromMe
    /\ Arrives(m)
    /\ waiting' = waiting \cup {[message |-> m, batch |-> NoBatch]}
    /\ UNCHANGED <<buffers, armed, posts, posted,
                   fetches, forwarded, failed, process, flushing>>

ReceiveFromMe(m) ==
    /\ m \in FromMe
    /\ Arrives(m)
    /\ LET c == ChatOf[m]
       IN  /\ Flush(c)
           /\ waiting' = waiting \cup
                  {[message |-> m, batch |-> IF Pending(c) THEN BatchOf(c) ELSE NoBatch]}
    /\ UNCHANGED <<fetches, forwarded, failed, process, flushing>>

\* Mutant: the timer is cleared and not set again.
ReceiveMoreDisarming(m) ==
    /\ m \notin FromMe
    /\ Arrives(m)
    /\ LET c == ChatOf[m]
           t == buffers[c].timer
       IN  /\ Pending(c)
           /\ buffers' = [buffers EXCEPT ![c].messages = Append(@, m),
                                         ![c].timer = IF t = 0 THEN 0 ELSE t + 1]
           /\ armed' = armed \ {<<c, buffers[c].made, t>>}
    /\ UNCHANGED <<fetches, waiting, posts, posted, forwarded, failed, process, flushing>>

\* Mutant: a message that comes before the wait is known is posted at once.
ReceiveMoreAtOnce(m) ==
    /\ m \notin FromMe
    /\ Arrives(m)
    /\ Pending(ChatOf[m])
    /\ StartPost(ChatOf[m], <<m>>)
    /\ UNCHANGED <<buffers, armed, fetches, waiting, forwarded, failed, process, flushing>>

\* Later messages of a burst start the wait again, if it has begun.
ReceiveMore(m) ==
    /\ m \notin FromMe
    /\ Arrives(m)
    /\ LET c == ChatOf[m]
           t == buffers[c].timer
       IN  /\ Pending(c)
           /\ buffers' = [buffers EXCEPT ![c].messages = Append(@, m),
                                         ![c].timer = IF t = 0 THEN 0 ELSE t + 1]
           /\ armed' = IF t = 0 THEN armed
                       ELSE (armed \ {<<c, buffers[c].made, t>>})
                            \cup {<<c, buffers[c].made, t + 1>>}
    /\ UNCHANGED <<fetches, waiting, posts, posted, forwarded, failed, process, flushing>>

ReceiveFirst(m) ==
    /\ m \notin FromMe
    /\ Arrives(m)
    /\ LET c == ChatOf[m]
           n == buffers[c].made + 1
       IN  /\ ~Pending(c)
           /\ buffers' = [buffers EXCEPT ![c] = [made |-> n, messages |-> <<m>>, timer |-> 0]]
           /\ fetches' = fetches \cup {<<c, n>>}
    /\ UNCHANGED <<armed, waiting, posts, posted, forwarded, failed, process, flushing>>

\* The answer about the wait, or the default after an error.  It is dropped
\* when the buffer that asked is not the chat's buffer any more.
FetchReturns(f) ==
    /\ NextTurn
    /\ f \in fetches
    /\ fetches' = fetches \ {f}
    /\ LET c == f[1]
       IN  IF Pending(c) /\ buffers[c].made = f[2]
           THEN \/ Flush(c)                             \* waitMs <= 0
                \/ /\ buffers' = [buffers EXCEPT ![c].timer = 1]
                   /\ armed' = armed \cup {<<c, f[2], 1>>}
                   /\ UNCHANGED <<posts, posted>>
           ELSE UNCHANGED <<buffers, armed, posts, posted>>
    /\ UNCHANGED <<received, waiting, forwarded, failed, process, flushing>>

\* The callback of a timer flushes whatever buffer the chat has.
TimerFires(t) ==
    /\ NextTurn
    /\ t \in armed
    /\ IF Pending(t[1])
       THEN /\ buffers' = [buffers EXCEPT ![t[1]].messages = << >>, ![t[1]].timer = 0]
            /\ armed' = armed \ {t, <<t[1], buffers[t[1]].made, buffers[t[1]].timer>>}
            /\ StartPost(t[1], BatchOf(t[1]))
       ELSE /\ armed' = armed \ {t}
            /\ UNCHANGED <<buffers, posts, posted>>
    /\ UNCHANGED <<received, fetches, waiting, forwarded, failed, process, flushing>>

\* The flush an operator message waited for is over: it is posted.
ForwardImmediate(w) ==
    /\ process # "down"
    /\ w \in waiting
    /\ Resumable(w)
    /\ waiting' = waiting \ {w}
    /\ StartPost(ChatOf[w.message], <<w.message>>)
    /\ UNCHANGED <<received, buffers, armed, fetches, forwarded, failed, process, flushing>>

(***************************************************************************)
(* postJsonWithRetry, as the buffers see it                                *)
(***************************************************************************)
PostSucceeds(p) ==
    /\ NextTurn
    /\ p \in posts
    /\ posts' = posts \ {p}
    /\ forwarded' = forwarded \cup {p.batch}
    /\ UNCHANGED <<received, buffers, armed, fetches, waiting, posted, failed, process, flushing>>

\* Mutant: one attempt too many.
AttemptFailsBeyond(p) ==
    /\ NextTurn
    /\ p \in posts
    /\ IF p.tries <= MaxTries
       THEN posts' = (posts \ {p}) \cup {[p EXCEPT !.tries = @ + 1]} /\ failed' = failed
       ELSE posts' = posts \ {p} /\ failed' = failed \cup {p.batch}
    /\ UNCHANGED <<received, buffers, armed, fetches, waiting, posted, forwarded, process, flushing>>

\* Mutant: the last failure is not reported.
AttemptFailsSilently(p) ==
    /\ NextTurn
    /\ p \in posts
    /\ posts' = (posts \ {p}) \cup {[p EXCEPT !.tries = @ + 1] : x \in 1..(MaxTries - p.tries)}
    /\ UNCHANGED <<received, buffers, armed, fetches, waiting, posted, forwarded,
                   failed, process, flushing>>

\* Another attempt after a delay, or onForwardError after the last one.
AttemptFails(p) ==
    /\ NextTurn
    /\ p \in posts
    /\ IF p.tries < MaxTries
       THEN posts' = (posts \ {p}) \cup {[p EXCEPT !.tries = @ + 1]} /\ failed' = failed
       ELSE posts' = posts \ {p} /\ failed' = failed \cup {p.batch}
    /\ UNCHANGED <<received, buffers, armed, fetches, waiting, posted, forwarded, process, flushing>>

(***************************************************************************)
(* gracefulShutdown: flushAll takes the chats that have a buffer at the    *)
(* signal one after the other and awaits the posts it starts itself.  The  *)
(* socket is still there: messages arrive and timers fire in the meantime. *)
(***************************************************************************)
Stop ==
    /\ CanStop
    /\ process = "up"
    /\ NextTurn
    /\ process' = "stopping"
    /\ flushing' = [chats |-> {c \in Chats : Pending(c)},
                    batch |-> NoBatch,
                    owed  |-> UNION {RangeOf(buffers[c].messages) : c \in Chats}]
    /\ UNCHANGED <<received, buffers, armed, fetches, waiting, posts, posted, forwarded, failed>>

FlushNext ==
    /\ process = "stopping"
    /\ NextTurn
    /\ ~InProgress(flushing.batch)
    /\ \E c \in flushing.chats :
           /\ Flush(c)
           /\ flushing' = [flushing EXCEPT !.chats = @ \ {c},
                                           !.batch = IF Pending(c) THEN BatchOf(c) ELSE NoBatch]
    /\ UNCHANGED <<received, fetches, waiting, forwarded, failed, process>>

\* Mutant: the process exits without waiting for flushAll.
ExitAtOnce ==
    /\ process = "stopping"
    /\ NextTurn
    /\ process' = "down"
    /\ UNCHANGED <<received, buffers, armed, fetches, waiting, posts, posted,
                   forwarded, failed, flushing>>

Exit ==
    /\ process = "stopping"
    /\ NextTurn
    /\ flushing.chats = {}
    /\ ~InProgress(flushing.batch)
    /\ process' = "down"
    /\ UNCHANGED <<received, buffers, armed, fetches, waiting, posts, posted,
                   forwarded, failed, flushing>>

Quiet ==
    \/ process = "down"
    \/ /\ process = "up"
       /\ RangeOf(received) = Messages
       /\ \A c \in Chats : ~Pending(c)
       /\ armed = {} /\ fetches = {} /\ waiting = {} /\ posts = {}

Rest == Quiet /\ UNCHANGED vars

Next ==
    \/ \E m \in Messages : ReceiveFromMe(m) \/ ReceiveMore(m) \/ ReceiveFirst(m)
    \/ \E f \in fetches : FetchReturns(f)
    \/ \E t \in armed : TimerFires(t)
    \/ \E w \in waiting : ForwardImmediate(w)
    \/ \E p \in posts : PostSucceeds(p) \/ AttemptFails(p)
    \/ Stop \/ FlushNext \/ Exit
    \/ Rest

Spec == Init /\ [][Next]_vars

\* The event loop settles open promises and runs due timers.
Fairness ==
    /\ WF_vars(\E f \in fetches : FetchReturns(f))
    /\ WF_vars(\E t \in armed : TimerFires(t))
    /\ WF_vars(\E w \in waiting : ForwardImmediate(w))
    /\ WF_vars(\E p \in posts : PostSucceeds(p) \/ AttemptFails(p))
    /\ WF_vars(FlushNext) /\ WF_vars(Exit)

FairSpec == Spec /\ Fairness

-----------------------------------------------------------------------------
\* Every variable has its type.
TypeOK ==
    /\ received \in Seq(Messages)
    /\ buffers \in [Chats -> [made : Nat, messages : Seq(Messages), timer : Nat]]
    /\ armed \subseteq Chats \X Nat \X Nat
    /\ fetches \subseteq Chats \X Nat
    /\ waiting \subseteq [message : FromMe, batch : Seq(Messages)]
    /\ posts \subseteq [chat : Chats, batch : Seq(Messages), tries : 1..MaxTries]
    /\ posted \in [Chats -> Seq(Seq(Messages))]
    /\ forwarded \subseteq Seq(Messages)
    /\ failed \subseteq Seq(Messages)
    /\ process \in {"up", "stopping", "down"}
    /\ flushing \in [chats : SUBSET Chats, batch : Seq(Messages), owed : SUBSET Messages]

\* Every buffered message has something that will flush it: a running timer
\* of its buffer, or the open question of this very buffer about its wait.
NoOrphanBuffer ==
    \A c \in Chats : Pending(c) =>
        \/ <<c, buffers[c].made, buffers[c].timer>> \in armed
        \/ <<c, buffers[c].made>> \in fetches

\* No timer outlives its buffer, and a buffer has one timer at most: a flush
\* never cuts short the wait of a later burst.
NoStaleTimer ==
    \A t \in armed : Pending(t[1]) /\ buffers[t[1]].made = t[2] /\ buffers[t[1]].timer = t[3]

\* Timers and buffers fit together: no buffer waits for nothing, no timer is
\* left over to flush what it was not started for.
TimersMatchBuffers == NoOrphanBuffer /\ NoStaleTimer

\* Where a received message can be.
Places(m) ==
      {<<"buffer", c>> : c \in {x \in Chats : m \in RangeOf(buffers[x].messages)}}
 \cup {<<"waiting", w>> : w \in {x \in waiting : x.message = m}}
 \cup {<<"post", p.batch>> : p \in {x \in posts : m \in RangeOf(x.batch)}}
 \cup {<<"forwarded", b>> : b \in {x \in forwarded : m \in RangeOf(x)}}
 \cup {<<"failed", b>> : b \in {x \in failed : m \in RangeOf(x)}}

\* A received message is in one place: it is not lost and not posted twice,
\* whatever timers, answers and operator messages do at the same time.
OnePlace == \A m \in RangeOf(received) : Cardinality(Places(m)) = 1

ReceivedBefore(a, b) ==
    \E i, j \in DOMAIN received : i < j /\ received[i] = a /\ received[j] = b

PostedMessages(c) == UNION {RangeOf(posted[c][i]) : i \in DOMAIN posted[c]}

\* When an operator message is posted, everything the tenant wrote before it
\* has been posted already, so it is not taken for a new message later.
TenantBeforeOperator ==
    \A c \in Chats : \A i \in DOMAIN posted[c] : \A h \in RangeOf(posted[c][i]) \cap FromMe :
        \A m \in RangeOf(received) \ FromMe :
            ChatOf[m] = c /\ ReceivedBefore(m, h) =>
                \E k \in 1..(i - 1) : m \in RangeOf(posted[c][k])

\* Batches of a tenant are posted in the order the messages came (inside a
\* batch they are in the order of their timestamps, see Flush).
BatchesInOrder ==
    \A c \in Chats : \A i, j \in DOMAIN posted[c] : i < j =>
        \A a \in RangeOf(posted[c][i]) \ FromMe, b \in RangeOf(posted[c][j]) \ FromMe :
            ReceivedBefore(a, b)

\* The messages of a chat are handed to the poster in an order in which each of
\* the tenant's comes before what was received after it in a later batch, of
\* the tenant or the operator (receive, flush, forwardImmediate).  This is the
\* order of the hand-overs: a post is then tried several times while later
\* ones go on, so the backend may get and answer batches in another order.
PostedInOrder == TenantBeforeOperator /\ BatchesInOrder

\* Every message in a buffer at the signal is posted before the process exits.
ShutdownPostsBuffers ==
    process = "down" => flushing.owed \subseteq UNION {PostedMessages(c) : c \in Chats}

\* A received message is delivered or given up, unless the process stops.
MessagesSettle ==
    \A m \in Messages :
        m \in RangeOf(received) ~>
            (process # "up" \/ \E b \in forwarded \cup failed : m \in RangeOf(b))

=============================================================================

-------------------------- MODULE BatchTransactions --------------------------
(***************************************************************************)
(* What the batch endpoint promises to the rest of the system: a post of a *)
(* batch changes the database in one step, from one committed state to the *)
(* next, at most once per attempt, and the bridge takes a batch for        *)
(* delivered only after such a step.  There are no handlers, prompts,      *)
(* locks or crashes here; BridgeBackend is shown to implement this         *)
(* (BridgeBackendRefinement).                                              *)
(***************************************************************************)
EXTENDS ProsperStore

CONSTANTS Batches, ChatOf, MessagesOf, MaxAttempts, Parts

VARIABLES
    db,     \* the committed database
    times,  \* per batch: how often a post of it took effect
    status  \* per batch: what the bridge makes of it

abstractVars == <<db, times, status>>

AbstractInit ==
    /\ db = EmptyDatabase
    /\ times = [b \in Batches |-> 0]
    /\ status = [b \in Batches |-> "open"]

(***************************************************************************)
(* Effects of a post                                                       *)
(***************************************************************************)

\* The messages numbered in those are handled, in the order of the batch; the
\* others changed nothing when their turn came (a duplicate, a message to an
\* ignored contact), which can only be in a chat whose contact is known.
PassingOver(d, b) ==
    {those \in SUBSET DOMAIN MessagesOf[b] :
        d.contact[ChatOf[b]] = "none" => those = DOMAIN MessagesOf[b]}

HandledInOrder(d, b, those) ==
    LET after[n \in 0..Len(MessagesOf[b])] ==
            IF n = 0 THEN d
            ELSE IF n \in those THEN HandleInbound(after[n - 1], ChatOf[b], MessagesOf[b][n]).db
            ELSE after[n - 1]
    IN  after[Len(MessagesOf[b])]

\* A conversation of the chat is left to the operator or ended.
Routed(d, c) ==
    {SetStage(d, c, i, stage) : i \in DOMAIN d.convs[c], stage \in {"manual_review", "end"}}

\* Or ended with the first parts of an automated reply, all from one attempt,
\* in a conversation that has none, with the AI and the sends switched on.
Replied(d, b) ==
    LET c == ChatOf[b]
        row(i, attempt, part) == [chat |-> c, id |-> <<<<b, attempt>>, part>>, conv |-> i,
                                  direction |-> "outbound"]
    IN  IF d.pauseAi \/ d.sendLock THEN {}
        ELSE {[SetStage(d, c, i, "end") EXCEPT
                  !.messages = @ \cup {row(i, attempt, part) : part \in 1..last}] :
                  i \in {j \in DOMAIN d.convs[c] : ~AutoReplySent(d, c, j)},
                  attempt \in 1..MaxAttempts, last \in 0..Parts}

Effects(d, b) ==
    {GetOrCreateContact(d, ChatOf[b])} \cup
    UNION {LET stored == HandledInOrder(d, b, those)
           IN  {stored} \cup Routed(stored, ChatOf[b]) \cup Replied(stored, b) :
              those \in PassingOver(d, b)}

TakeEffect(b) ==
    /\ times[b] < MaxAttempts
    /\ times' = [times EXCEPT ![b] = @ + 1]
    /\ db' \in Effects(db, b)
    /\ UNCHANGED status

\* The bridge hears that the batch took effect.
Acknowledge(b) ==
    /\ status[b] = "open" /\ times[b] > 0
    /\ status' = [status EXCEPT ![b] = "acknowledged"]
    /\ UNCHANGED <<db, times>>

GiveUp(b) ==
    /\ status[b] = "open"
    /\ status' = [status EXCEPT ![b] = "given_up"]
    /\ UNCHANGED <<db, times>>

\* The operator at the dashboard.
Administer ==
    /\ \/ \E c \in Chats, s \in {"active", "paused", "ignored"} :
              db.contact[c] # "none" /\ db' = SetContactStatus(db, c, s)
       \/ \E on \in BOOLEAN : db' = [db EXCEPT !.pauseAi = on]
       \/ \E on \in BOOLEAN : db' = [db EXCEPT !.sendLock = on]
    /\ UNCHANGED <<times, status>>

AbstractNext ==
    \/ \E b \in Batches : TakeEffect(b) \/ Acknowledge(b) \/ GiveUp(b)
    \/ Administer

\* No batch stays open: the bridge gives up in the end.
AbstractSpec ==
    /\ AbstractInit
    /\ [][AbstractNext]_abstractVars
    /\ \A b \in Batches : WF_abstractVars(Acknowledge(b) \/ GiveUp(b))

=============================================================================

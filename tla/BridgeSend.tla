----------------------------- MODULE BridgeSend -----------------------------
(***************************************************************************)
(* One automated reply on its way out: the backend sends its parts one by  *)
(* one, each with a few attempts (post_bridge_send_with_retry in           *)
(* services.py), and the bridge hands each to the socket that is current   *)
(* when the call arrives (sendServer.ts), while SocketLifecycle replaces   *)
(* sockets under it.  A call the backend no longer waits for goes on.      *)
(***************************************************************************)
EXTENDS SocketLifecycle

CONSTANTS
    Parts,          \* text and media parts of the reply
    SendAttempts,   \* len(BRIDGE_SEND_RETRY_DELAYS_SECONDS) + 1, 3 in the code
    MaxLosses       \* bound: calls that time out or lose their answer

ASSUME SendAssumption ==
    Parts \in Nat \ {0} /\ SendAttempts \in Nat \ {0} /\ MaxLosses \in Nat

VARIABLES
    send,       \* the backend's side: the part, the attempt, what it is doing
    calls,      \* calls the bridge works on, or has answered without being heard
    delivered,  \* per part: how often it went out to WhatsApp
    unheard,    \* per part: a call of it was lost, or threw after it went out
    losses

sendVars == <<send, calls, delivered, unheard, losses>>
vars == <<socketVars, sendVars>>

Answer == {"ok", "retryable", "rejected"}

SendTypeOK ==
    /\ send \in [part : 1..Parts, attempt : 1..SendAttempts,
                 step : {"idle", "call", "wait", "sent", "failed"}]
    /\ calls \subseteq [part : 1..Parts, attempt : 1..SendAttempts, sock : Generations \cup {NoSocket},
                        answer : Answer \cup {"none"}]
    /\ delivered \in [1..Parts -> 0..SendAttempts]
    /\ unheard \in [1..Parts -> BOOLEAN]
    /\ losses \in 0..MaxLosses

SendInit ==
    /\ send = [part |-> 1, attempt |-> 1, step |-> "idle"]
    /\ calls = {}
    /\ delivered = [p \in 1..Parts |-> 0]
    /\ unheard = [p \in 1..Parts |-> FALSE]
    /\ losses = 0

Init == SocketInit /\ SendInit

(***************************************************************************)
(* The backend                                                             *)
(***************************************************************************)

\* Mutant: the part is left out after its last attempt.
NextAttemptOrPart ==
    IF send.attempt < SendAttempts THEN [send EXCEPT !.attempt = @ + 1, !.step = "call"]
    ELSE IF send.part = Parts THEN [send EXCEPT !.step = "failed"]
    ELSE [send EXCEPT !.part = @ + 1, !.attempt = 1, !.step = "call"]

\* Mutant: attempts without end.
SameAttempt == [send EXCEPT !.step = "call"]

\* Mutant: one attempt too many.
NextAttemptBeyond ==
    IF send.attempt <= SendAttempts THEN [send EXCEPT !.attempt = @ + 1, !.step = "call"]
    ELSE [send EXCEPT !.step = "failed"]

\* A retryable error, and then the next attempt or the end of the reply.
NextAttempt ==
    IF send.attempt < SendAttempts THEN [send EXCEPT !.attempt = @ + 1, !.step = "call"]
    ELSE [send EXCEPT !.step = "failed"]

\* Mutant: an answer without a message id counts as a failure.
NextPartUnlessNoId ==
    IF send.attempt < SendAttempts THEN [send EXCEPT !.attempt = @ + 1, !.step = "call"]
    ELSE [send EXCEPT !.step = "sent"]

\* The part is recorded and the next one follows.
NextPart ==
    IF send.part < Parts THEN [part |-> send.part + 1, attempt |-> 1, step |-> "call"]
    ELSE [send EXCEPT !.step = "sent"]

ReplyBegins ==
    /\ send.step = "idle"
    /\ send' = [send EXCEPT !.step = "call"]
    /\ UNCHANGED <<socketVars, calls, delivered, unheard, losses>>

IsCurrent(call) ==
    send.step = "wait" /\ call.part = send.part /\ call.attempt = send.attempt

\* The server takes new connections.
Accepting == sendServer /\ process \in {"up", "flushing", "saving"}

ConnectionRefused ==
    /\ send.step = "call" /\ ~Accepting
    /\ send' = NextAttempt
    /\ UNCHANGED <<socketVars, calls, delivered, unheard, losses>>

HearAnswer(call) ==
    /\ call.answer # "none" /\ IsCurrent(call)
    /\ send' = CASE call.answer = "ok"        -> NextPart
                 [] call.answer = "retryable" -> NextAttempt
                 [] call.answer = "rejected"  -> [send EXCEPT !.step = "failed"]
    /\ calls' = calls \ {call}
    /\ UNCHANGED <<socketVars, delivered, unheard, losses>>

\* The timeout of 30 or 60 seconds, or a broken connection.
LoseCall(call) ==
    /\ IsCurrent(call) /\ losses < MaxLosses
    /\ losses' = losses + 1
    /\ unheard' = [unheard EXCEPT ![call.part] = TRUE]
    /\ send' = NextAttempt
    /\ calls' = IF call.answer = "none" THEN calls ELSE calls \ {call}
    /\ UNCHANGED <<socketVars, delivered>>

\* The bridge is gone with the call.
LoseBridge ==
    /\ send.step = "wait" /\ ~Running
    /\ send' = NextAttempt
    /\ unheard' = [unheard EXCEPT ![send.part] = TRUE]
    /\ UNCHANGED <<socketVars, calls, delivered, losses>>

(***************************************************************************)
(* The send server                                                         *)
(***************************************************************************)

\* The request: no socket is the answer 503 not_connected, a payload or a token
\* the bridge does not accept 400 or 401; else the typing presence is awaited.
SendArrives ==
    /\ send.step = "call" /\ Accepting
    /\ send' = [send EXCEPT !.step = "wait"]
    /\ \E answer \in {"rejected", IF currentSock = NoSocket THEN "retryable" ELSE "none"} :
           calls' = calls \cup {[part |-> send.part, attempt |-> send.attempt,
                                 sock |-> currentSock, answer |-> answer]}
    /\ UNCHANGED <<socketVars, delivered, unheard, losses>>

\* Without a client that waits there is nobody to hear the answer.
Answered(call, answer) ==
    IF IsCurrent(call) THEN (calls \ {call}) \cup {[call EXCEPT !.answer = answer]}
    ELSE calls \ {call}

\* sendMessage on the socket the call was given, which may be replaced by now.
\* It may throw after the message went out.
Deliver(call) ==
    /\ Running /\ call.answer = "none"
    /\ sockets[call.sock] = "open"
    /\ delivered' = [delivered EXCEPT ![call.part] = @ + 1]
    /\ \/ calls' = Answered(call, "ok") /\ UNCHANGED unheard
       \/ /\ calls' = Answered(call, "retryable")
          /\ unheard' = [unheard EXCEPT ![call.part] = TRUE]
    /\ UNCHANGED <<socketVars, send, losses>>

SendThrows(call) ==
    /\ Running /\ call.answer = "none"
    /\ calls' = Answered(call, "retryable")
    /\ UNCHANGED <<socketVars, send, delivered, unheard, losses>>

(***************************************************************************)
(* The sockets, with the calls: the server closes when the calls somebody  *)
(* waits for are answered, and calls die with the process.                 *)
(***************************************************************************)
ClientWaits == \E call \in calls : IsCurrent(call) /\ call.answer = "none"

CallsAllow == process = "closing" /\ process' = "saving" => ~ClientWaits

Beside(action) ==
    /\ action
    /\ CallsAllow
    /\ calls' = IF process' \in {"exited", "died"} THEN {} ELSE calls
    /\ UNCHANGED <<send, delivered, unheard, losses>>

-----------------------------------------------------------------------------
SendRuns ==
    \/ ConnectionRefused \/ SendArrives \/ LoseBridge
    \/ \E call \in calls : HearAnswer(call) \/ Deliver(call) \/ SendThrows(call)

Next ==
    \/ Beside(BridgeRuns)
    \/ Beside(Outside)
    \/ SendRuns
    \/ ReplyBegins
    \/ \E call \in calls : LoseCall(call)

Spec == Init /\ [][Next]_vars

\* Node.js runs what can go on and every call to the file system ends; httpx
\* ends every call.  Nothing is assumed of WhatsApp, the operator and signals.
\* Every kind of step is bounded, so weak fairness of each process is enough.
Fairness == WF_vars(Beside(BridgeRuns)) /\ WF_vars(SendRuns)

-----------------------------------------------------------------------------
(***************************************************************************)
(* Properties                                                              *)
(***************************************************************************)
TypeOK == SocketTypeOK /\ SendTypeOK

\* A part goes out only after every part before it was confirmed, whatever
\* calls the backend has given up are still on their way.
PartsInOrder ==
    \A p \in 1..Parts : delivered[p] > 0 => send.part >= p /\ \A q \in 1..(p - 1) : delivered[q] > 0

\* The tenant gets a part twice only when the backend could not know that it
\* went out: a call was lost, or the bridge reported an error after delivery.
DuplicatesOnlyUnheard == \A p \in 1..Parts : delivered[p] > 1 => unheard[p]

\* Every reply is sent or given up, whatever happens to the bridge.
ReplySettles == (send.step = "call") ~> (send.step \in {"sent", "failed"})

\* Every signal ends the process.
ShutdownEnds == (process = "flushing") ~> (process \in {"exited", "died"})

\* Backend and bridge do not wait for each other for ever: replies and
\* shutdowns end, each with the other in progress.
Progress == ReplySettles /\ ShutdownEnds

=============================================================================

--------------------------- MODULE SocketLifecycle ---------------------------
(***************************************************************************)
(* The WhatsApp sockets of the bridge (bridge/src/index.ts): connectSocket,*)
(* the events of a socket, the one reconnect timer, the operator's         *)
(* reconnect and the shutdown.                                             *)
(*                                                                         *)
(* All of it runs on one event loop; an action is what runs between two    *)
(* awaits.  A socket is named by its generation.  Its event handler checks *)
(* the generation once and may then await the saving of credentials, so    *)
(* an update can be processed late ("suspended").                          *)
(*                                                                         *)
(* What WhatsApp and the file system do (sockets open and close, reading,  *)
(* saving and removing credentials succeeds or fails) is a free choice.    *)
(* The display of pairing codes, statistics and delays are left out.  So   *)
(* is what a save writes: session counts how often the credentials were    *)
(* cleared, and a handler of an old socket that saves its credentials back *)
(* after a clearing is not told apart from one that does not.              *)
(***************************************************************************)
EXTENDS Naturals, FiniteSets

CONSTANTS
    MaxCloses,      \* bound: connections that close by themselves
    Reconnects      \* the reconnects the operator asks for

ASSUME SocketAssumption ==
    /\ MaxCloses \in Nat
    /\ IsFiniteSet(Reconnects)
    /\ {"start", "timer"} \cap Reconnects = {}

\* The first connect, and at most one for each close and each operator request.
Generations == 1..(1 + MaxCloses + Cardinality(Reconnects))
NoSocket    == 0

CloseClass == {"retry", "bad_session", "requires_reauth"}
Update     == {"open"} \cup CloseClass

VARIABLES
    socketGeneration,
    connects,       \* per generation: how far its connectSocket is, who called it
    sockets,        \* per generation: the socket
    session,        \* the credentials on disk: how often they were cleared
    currentSock,
    reconnectTimer, \* the timer is set
    badSessionRetryCountSinceOpen,
    requiresReauth, \* lastDisconnectRequiresReauth
    suspended,      \* updates whose handler awaits the saving of credentials
    reconnects,     \* the operator's requests
    sendServer,     \* the HTTP server is there
    process,        \* "flushing", "closing", "saving": steps of gracefulShutdown
    closes,         \* closes so far
    seen            \* observers, see below

socketVars == <<socketGeneration, connects, sockets, session, currentSock,
                reconnectTimer, badSessionRetryCountSinceOpen, requiresReauth,
                suspended, reconnects, sendServer, process, closes, seen>>

decisions == <<badSessionRetryCountSinceOpen, requiresReauth>>

MaxBadSessionReconnects == 1    \* MAX_BAD_SESSION_RECONNECTS_BEFORE_OPEN

Connect == [step : {"none", "auth", "version", "done", "failed"},
            by : {"start", "timer"} \cup Reconnects, session : 0..Cardinality(Reconnects)]

SocketTypeOK ==
    /\ socketGeneration \in Generations
    /\ connects \in [Generations -> Connect]
    /\ sockets \in [Generations -> {"none", "connecting", "open", "closed", "disposed"}]
    /\ session \in 0..Cardinality(Reconnects)
    /\ currentSock \in Generations \cup {NoSocket}
    /\ reconnectTimer \in BOOLEAN
    /\ badSessionRetryCountSinceOpen \in 0..MaxBadSessionReconnects
    /\ requiresReauth \in BOOLEAN
    /\ suspended \subseteq [socket : Generations, update : Update]
    /\ reconnects \in [Reconnects -> {"none", "clear", "cleared", "save", "connect", "answered"}]
    /\ sendServer \in BOOLEAN
    /\ process \in {"up", "flushing", "closing", "saving", "exited", "died"}
    /\ closes \in 0..MaxCloses
    /\ seen \in [overlap : BOOLEAN, crossed : BOOLEAN, late : BOOLEAN, abandoned : BOOLEAN]

(***************************************************************************)
(* Observers: "overlap", two calls of connectSocket were in progress at    *)
(* once; "crossed", an operator request came while another one or a        *)
(* connect was in progress; "late", an update was processed when its       *)
(* socket was replaced, disposed or had since closed; "abandoned", the     *)
(* last connect of the start or of an operator request failed, and nobody  *)
(* retries it.                                                             *)
(***************************************************************************)
NothingSeen ==
    [overlap |-> FALSE, crossed |-> FALSE, late |-> FALSE, abandoned |-> FALSE]

\* start() has called connectSocket.
SocketInit ==
    /\ socketGeneration = 1
    /\ connects = [g \in Generations |->
                      [step |-> IF g = 1 THEN "auth" ELSE "none", by |-> "start", session |-> 0]]
    /\ sockets = [g \in Generations |-> "none"]
    /\ session = 0
    /\ currentSock = NoSocket
    /\ reconnectTimer = FALSE
    /\ badSessionRetryCountSinceOpen = 0
    /\ requiresReauth = FALSE
    /\ suspended = {}
    /\ reconnects = [q \in Reconnects |-> "none"]
    /\ sendServer = FALSE
    /\ process = "up"
    /\ closes = 0
    /\ seen = NothingSeen

Running == process \notin {"exited", "died"}
ShuttingDown == process # "up"

Connecting(g) == connects[g].step \in {"auth", "version"}
Alive(g) == sockets[g] \in {"connecting", "open"}

\* disposeSocket: no more events, and the connection is ended.
Dispose(g) ==
    IF g = NoSocket THEN sockets ELSE [sockets EXCEPT ![g] = "disposed"]

(***************************************************************************)
(* connectSocket                                                           *)
(***************************************************************************)

\* Mutant: the socket before stays the current one until the new one is made.
ConnectBeginsOver(by) ==
    LET g == socketGeneration + 1
    IN  /\ socketGeneration' = g
        /\ connects' = [connects EXCEPT ![g] = [step |-> "auth", by |-> by, session |-> session]]
        /\ UNCHANGED <<sockets, currentSock>>
        /\ seen' = [seen EXCEPT !.overlap = @ \/ \E x \in Generations : Connecting(x),
                                !.abandoned = FALSE]

\* Mutant: the socket before is not disposed.
ConnectBeginsBeside(by) ==
    LET g == socketGeneration + 1
    IN  /\ socketGeneration' = g
        /\ connects' = [connects EXCEPT ![g] = [step |-> "auth", by |-> by, session |-> session]]
        /\ UNCHANGED sockets
        /\ currentSock' = NoSocket
        /\ seen' = [seen EXCEPT !.overlap = @ \/ \E x \in Generations : Connecting(x),
                                !.abandoned = FALSE]

\* Up to its first await, when it is not shutting down.
ConnectBegins(by) ==
    LET g == socketGeneration + 1
    IN  /\ socketGeneration' = g
        /\ connects' = [connects EXCEPT ![g] = [step |-> "auth", by |-> by, session |-> session]]
        /\ sockets' = Dispose(currentSock)
        /\ currentSock' = NoSocket
        /\ seen' = [seen EXCEPT !.overlap = @ \/ \E x \in Generations : Connecting(x),
                                !.abandoned = FALSE]

AuthLoaded(g) ==
    /\ Running /\ connects[g].step = "auth"
    /\ connects' = [connects EXCEPT ![g].step = "version", ![g].session = session]
    /\ UNCHANGED <<socketGeneration, sockets, session, currentSock, reconnectTimer,
                   suspended, reconnects, sendServer, process, closes, seen, decisions>>

\* The rejection ends the start, is the answer 500 of a request, or, after the
\* timer, is handled by nobody: Node.js ends the process.
AuthFails(g) ==
    /\ Running /\ connects[g].step = "auth"
    /\ LET by == connects[g].by
       IN  /\ connects' = [connects EXCEPT ![g].step = "failed"]
           /\ process' = IF by = "timer" THEN "died" ELSE process
           /\ reconnects' = IF by \in Reconnects THEN [reconnects EXCEPT ![by] = "answered"]
                                                 ELSE reconnects
           /\ seen' = [seen EXCEPT !.abandoned = @ \/ g = socketGeneration]
    /\ UNCHANGED <<socketGeneration, sockets, session, currentSock, reconnectTimer,
                   suspended, sendServer, closes, decisions>>

\* The socket becomes the current one, whatever the generation is by now.
SocketMade(g) ==
    /\ Running /\ connects[g].step = "version"
    /\ connects' = [connects EXCEPT ![g].step = "done"]
    /\ sockets' = [sockets EXCEPT ![g] = "connecting"]
    /\ currentSock' = g
    /\ sendServer' = TRUE
    /\ LET by == connects[g].by
       IN  reconnects' = IF by \in Reconnects THEN [reconnects EXCEPT ![by] = "answered"]
                                              ELSE reconnects
    /\ UNCHANGED <<socketGeneration, session, reconnectTimer, suspended, process, closes,
                   seen, decisions>>

(***************************************************************************)
(* processConnectionUpdate, for the socket of generation g                 *)
(***************************************************************************)

\* maybeRetryBadSession: one soft reconnect since the connection was open.
SoftRetry(update) ==
    update = "bad_session" /\ badSessionRetryCountSinceOpen < MaxBadSessionReconnects

ShouldReconnect(update) == update = "retry" \/ SoftRetry(update)

\* Mutant: the soft retry keeps the decision not to reconnect.
ScheduleUnlessBadSession(update) ==
    reconnectTimer' = (reconnectTimer \/ (update = "retry" /\ ~ShuttingDown))

\* Mutant: every close is followed by a reconnect.
ScheduleAlways(update) ==
    reconnectTimer' = (reconnectTimer \/ (update # "open" /\ ~ShuttingDown))

\* scheduleReconnect, for a decision to reconnect: there is one timer.
ScheduleReconnect(update) ==
    reconnectTimer' = (reconnectTimer \/ (ShouldReconnect(update) /\ ~ShuttingDown))

\* Mutant: the socket that closed stays the current one.
CurrentStays(g, update) == currentSock

CurrentAfter(g, update) ==
    IF update # "open" /\ currentSock = g THEN NoSocket ELSE currentSock

\* "others" are the sockets after what WhatsApp has just done to this one.
ProcessConnectionUpdate(g, update, others) ==
    /\ requiresReauth' = (update \in CloseClass /\ ~ShouldReconnect(update))
    /\ badSessionRetryCountSinceOpen' =
           CASE update = "open" -> 0
             [] SoftRetry(update) -> badSessionRetryCountSinceOpen + 1
             [] OTHER -> badSessionRetryCountSinceOpen
    /\ sockets' = IF update = "open" THEN others ELSE [others EXCEPT ![g] = "disposed"]
    /\ currentSock' = CurrentAfter(g, update)
    /\ ScheduleReconnect(update)

(***************************************************************************)
(* The events of a socket                                                  *)
(***************************************************************************)

\* What WhatsApp does to the socket, and the update it emits.
Happens(g, update) ==
    [sockets EXCEPT ![g] = IF update = "open" THEN "open" ELSE "closed"]

\* The event handler starts: an event of a replaced socket is ignored.
Fresh(g) == g = socketGeneration

SocketEvent(g) ==
    /\ Running
    /\ \E update \in Update :
          /\ update = "open" => sockets[g] = "connecting"
          /\ update # "open" => Alive(g) /\ closes < MaxCloses
          /\ closes' = IF update = "open" THEN closes ELSE closes + 1
          /\ \/ /\ Fresh(g)
                /\ ProcessConnectionUpdate(g, update, Happens(g, update))
                /\ UNCHANGED suspended
             \* together with new credentials: await saveCredsWithDiagnostics
             \/ /\ Fresh(g)
                /\ sockets' = Happens(g, update)
                /\ suspended' = suspended \cup {[socket |-> g, update |-> update]}
                /\ UNCHANGED <<currentSock, reconnectTimer, decisions>>
             \/ /\ ~Fresh(g)
                /\ sockets' = Happens(g, update)
                /\ UNCHANGED <<currentSock, reconnectTimer, suspended, decisions>>
    /\ UNCHANGED <<socketGeneration, connects, session, reconnects, sendServer, process,
                   seen>>

\* The update no longer describes the newest socket.
IsLate(s) ==
    \/ s.socket # socketGeneration
    \/ sockets[s.socket] = "disposed"
    \/ s.update = "open" /\ sockets[s.socket] = "closed"

\* The credentials are saved, and the update is processed without another look
\* (neither at the generation nor at whether they were cleared meanwhile).
HandlerResumes(s) ==
    /\ Running /\ s \in suspended
    /\ suspended' = suspended \ {s}
    /\ ProcessConnectionUpdate(s.socket, s.update, sockets)
    /\ seen' = [seen EXCEPT !.late = @ \/ IsLate(s)]
    /\ UNCHANGED <<socketGeneration, connects, session, reconnects, sendServer, process,
                   closes>>

\* Saving fails in a handler nobody awaits: Node.js ends the process.
HandlerFails(s) ==
    /\ Running /\ s \in suspended
    /\ suspended' = suspended \ {s}
    /\ process' = "died"
    /\ UNCHANGED <<socketGeneration, connects, sockets, session, currentSock,
                   reconnectTimer, reconnects, sendServer, closes, seen, decisions>>

ReconnectTimerFires ==
    /\ Running /\ reconnectTimer
    /\ reconnectTimer' = FALSE
    /\ ConnectBegins("timer")
    /\ UNCHANGED <<session, suspended, reconnects, sendServer, process, closes, decisions>>

(***************************************************************************)
(* reconnectSocket, called by the send server                              *)
(***************************************************************************)

ReconnectsAnswered == \A q \in Reconnects : reconnects[q] \in {"none", "answered"}

ReconnectAsked(q) ==
    /\ process = "up" /\ sendServer /\ reconnects[q] = "none"
    /\ \E step \in {"clear", "save"} : reconnects' = [reconnects EXCEPT ![q] = step]
    /\ reconnectTimer' = FALSE
    /\ sockets' = Dispose(currentSock)
    /\ currentSock' = NoSocket
    /\ seen' = [seen EXCEPT !.crossed = @ \/ ~ReconnectsAnswered
                                   \/ \E g \in Generations : Connecting(g)]
    /\ UNCHANGED <<socketGeneration, connects, session, suspended, sendServer, process,
                   closes, decisions>>

\* The credentials are removed; the call goes on after more awaits.
AuthCleared(q) ==
    /\ Running /\ reconnects[q] = "clear"
    /\ reconnects' = [reconnects EXCEPT ![q] = "cleared"]
    /\ session' = session + 1
    /\ UNCHANGED <<socketGeneration, connects, sockets, currentSock, reconnectTimer,
                   suspended, sendServer, process, closes, seen, decisions>>

\* Mutant: the request is not answered when connectSocket returns at once.
ReconnectGoesOnOrHangs(q) ==
    /\ process = "up" /\ reconnects[q] \in {"cleared", "save"}
    /\ reconnects' = [reconnects EXCEPT ![q] = "connect"]
    /\ ConnectBegins(q)
    /\ UNCHANGED <<session, reconnectTimer, suspended, sendServer, process, closes, decisions>>

\* connectSocket, which does nothing when it is shutting down.
ReconnectGoesOn(q) ==
    /\ Running /\ reconnects[q] \in {"cleared", "save"}
    /\ IF ShuttingDown
       THEN /\ reconnects' = [reconnects EXCEPT ![q] = "answered"]
            /\ UNCHANGED <<socketGeneration, connects, sockets, currentSock, seen>>
       ELSE /\ reconnects' = [reconnects EXCEPT ![q] = "connect"]
            /\ ConnectBegins(q)
    /\ UNCHANGED <<session, reconnectTimer, suspended, sendServer, process, closes,
                   decisions>>

\* Removing or saving credentials fails: the answer 500.
ReconnectFails(q) ==
    /\ Running /\ reconnects[q] \in {"clear", "save"}
    /\ reconnects' = [reconnects EXCEPT ![q] = "answered"]
    /\ seen' = [seen EXCEPT !.abandoned = TRUE]
    /\ UNCHANGED <<socketGeneration, connects, sockets, session, currentSock,
                   reconnectTimer, suspended, sendServer, process, closes, decisions>>

(***************************************************************************)
(* gracefulShutdown                                                        *)
(***************************************************************************)
Signal ==
    /\ process = "up"
    /\ process' = "flushing"
    /\ reconnectTimer' = FALSE
    /\ UNCHANGED <<socketGeneration, connects, sockets, session, currentSock, suspended,
                   reconnects, sendServer, closes, seen, decisions>>

\* flushAll is done: the server takes no more connections.
BuffersFlushed ==
    /\ process = "flushing"
    /\ process' = "closing"
    /\ UNCHANGED <<socketGeneration, connects, sockets, session, currentSock,
                   reconnectTimer, suspended, reconnects, sendServer, closes, seen, decisions>>

\* The open requests of the server are answered.
ServerClosed ==
    /\ process = "closing"
    /\ ReconnectsAnswered
    /\ process' = "saving"
    /\ sendServer' = FALSE
    /\ sockets' = Dispose(currentSock)
    /\ currentSock' = NoSocket
    /\ UNCHANGED <<socketGeneration, connects, session, reconnectTimer, suspended,
                   reconnects, closes, seen, decisions>>

\* Credentials are saved, or not, and the process exits.
Exit ==
    /\ process = "saving"
    /\ process' = "exited"
    /\ UNCHANGED <<socketGeneration, connects, sockets, session, currentSock,
                   reconnectTimer, suspended, reconnects, sendServer, closes, seen, decisions>>

-----------------------------------------------------------------------------
\* What the event loop runs once it can, and what comes from outside.
BridgeRuns ==
    \/ \E g \in Generations : AuthLoaded(g) \/ AuthFails(g) \/ SocketMade(g)
    \/ \E s \in suspended : HandlerResumes(s) \/ HandlerFails(s)
    \/ ReconnectTimerFires
    \/ \E q \in Reconnects : AuthCleared(q) \/ ReconnectGoesOn(q) \/ ReconnectFails(q)
    \/ BuffersFlushed \/ ServerClosed \/ Exit

Outside ==
    \/ \E g \in Generations : SocketEvent(g)
    \/ \E q \in Reconnects : ReconnectAsked(q)
    \/ Signal

SocketNext == BridgeRuns \/ Outside

SocketSpec == SocketInit /\ [][SocketNext]_socketVars

-----------------------------------------------------------------------------
(***************************************************************************)
(* Properties.  Those that start with ~seen.overlap or ~seen.late do not   *)
(* hold without it: connectSocket makes its socket the current one without *)
(* asking whether a later call has begun, and a resumed handler does not   *)
(* ask again whether its socket is still the newest.                       *)
(***************************************************************************)

\* Connects that do not overlap leave at most one socket alive, the one the
\* send server uses, and it is the newest, whose events are processed.
OneLiveSocket ==
    ~seen.overlap =>
        /\ \A g \in Generations : Alive(g) => g = currentSock
        /\ currentSock \in {NoSocket, socketGeneration}

\* The send server never has a socket that was disposed, whose sends would
\* fail until the process is started again; overlapping connects included.
CurrentNotDisposed == currentSock # NoSocket => sockets[currentSock] # "disposed"

\* A running bridge is connected, or something is under way to connect it, or
\* it tells the operator that the phone must be paired again, or a connect
\* the operator asked for, or the first one, has failed.
NotStranded ==
    process = "up" /\ ~seen.late =>
        \/ Alive(socketGeneration)
        \/ Connecting(socketGeneration)
        \/ reconnectTimer
        \/ \E s \in suspended : s.socket = socketGeneration
        \/ \E q \in Reconnects : reconnects[q] \in {"clear", "cleared", "save"}
        \/ requiresReauth
        \/ seen.abandoned

\* Once a request that clears the session has called connectSocket, no current
\* socket uses the session that was cleared.
ClearedSessionUnused ==
    /\ process = "up" /\ currentSock # NoSocket /\ ~seen.overlap
    /\ \A q \in Reconnects : reconnects[q] # "cleared"
    => connects[currentSock].session = session

\* The send server uses the one socket that lives, with the session the
\* operator kept, or none.
SendServerHasTheSocket == OneLiveSocket /\ CurrentNotDisposed /\ ClearedSessionUnused

\* The timer does not connect again with a session that needs pairing: not
\* after a logout, and not after the second bad session without an open
\* connection between them.
ReauthNotLooped ==
    [][ connects'[socketGeneration'].by = "timer" /\ socketGeneration' # socketGeneration
        => ~requiresReauth \/ seen.late \/ seen.crossed ]_socketVars

=============================================================================

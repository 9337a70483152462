-------------------------- MODULE BridgeSendProofs --------------------------
(***************************************************************************)
(* Theorems about the sockets of the bridge and the replies that go over   *)
(* them, for any number of closes, operator requests, parts, attempts and  *)
(* lost calls.                                                             *)
(***************************************************************************)
EXTENDS BridgeSend, FiniteSetTheorems, TLAPS

(***************************************************************************)
(* The sockets.  The types are weaker than SocketTypeOK: that generations  *)
(* stay within their bound is a matter of counting, and not needed here.   *)
(***************************************************************************)
SocketShape ==
    /\ socketGeneration \in Nat
    /\ connects \in [Generations ->
           [step : {"none", "auth", "version", "done", "failed"},
            by : {"start", "timer"} \cup Reconnects, session : Nat]]
    /\ sockets \in [Generations -> {"none", "connecting", "open", "closed", "disposed"}]
    /\ session \in Nat
    /\ currentSock \in Generations \cup {NoSocket}
    /\ suspended \subseteq [socket : Generations, update : Update]
    /\ reconnects \in [Reconnects -> {"none", "clear", "cleared", "save", "connect", "answered"}]
    /\ DOMAIN seen = {"overlap", "crossed", "late", "abandoned"}

\* A request whose connect is in progress is past the clearing of the session.
CallerConnects ==
    \A g \in Generations : Connecting(g) /\ connects[g].by \in Reconnects =>
        reconnects[connects[g].by] \in {"connect", "answered"}

\* Without overlap only the newest call of connectSocket is in progress, and
\* the socket before it is gone.
OneConnect ==
    ~seen.overlap =>
        \A g \in Generations : Connecting(g) => g = socketGeneration /\ currentSock = NoSocket

\* The same of the session a connect has read and will hand to its socket.
SessionKept ==
    /\ process = "up" /\ ~seen.overlap
    /\ \A q \in Reconnects : reconnects[q] # "cleared"
    => \A g \in Generations :
           g = currentSock \/ connects[g].step = "version" => connects[g].session = session

SocketInv ==
    SocketShape /\ CallerConnects /\ OneConnect /\ SessionKept /\ OneLiveSocket /\ CurrentNotDisposed

\* Generations are positive numbers, so none of them is NoSocket.
LEMMA GenerationFacts ==
    Generations \subseteq Nat /\ NoSocket \notin Generations /\ 1 \in Generations
<1>1. Cardinality(Reconnects) \in Nat
  BY SocketAssumption, FS_CardinalityType
<1>2. QED
  BY <1>1, SocketAssumption DEF Generations, NoSocket

-----------------------------------------------------------------------------
\* At the start one connect is in progress and there is no socket.
LEMMA SocketInitInv == SocketInit => SocketInv
<1>1. SUFFICES ASSUME SocketInit PROVE SocketInv
  OBVIOUS
<1>2. SocketShape
  BY <1>1, GenerationFacts DEF SocketInit, SocketShape, NothingSeen
<1>3. CallerConnects /\ OneConnect /\ SessionKept
  BY <1>1, GenerationFacts, SocketAssumption
     DEF SocketInit, CallerConnects, OneConnect, SessionKept, Connecting, NoSocket
<1>4. OneLiveSocket /\ CurrentNotDisposed
  BY <1>1 DEF SocketInit, OneLiveSocket, CurrentNotDisposed, Alive
<1>5. QED
  BY <1>2, <1>3, <1>4 DEF SocketInv

\* A call of connectSocket disposes of the socket before and becomes the newest;
\* a request to clear the session may be over with it.
LEMMA ConnectBeginsStep ==
    ASSUME SocketInv, NEW by \in {"start", "timer"} \cup Reconnects, ConnectBegins(by),
           UNCHANGED <<session, suspended>>,
           process' = process,
           reconnects' \in [Reconnects -> {"none", "clear", "cleared", "save", "connect", "answered"}],
           by \in Reconnects => reconnects'[by] = "connect",
           \A q \in Reconnects : reconnects[q] \in {"connect", "answered"} => reconnects'[q] = reconnects[q]
    PROVE  SocketInv'
<1> USE GenerationFacts DEF SocketInv
<1>1. SocketShape'
  <2>1. connects' \in [Generations ->
           [step : {"none", "auth", "version", "done", "failed"},
            by : {"start", "timer"} \cup Reconnects, session : Nat]]
    BY DEF SocketShape, ConnectBegins
  <2>2. sockets' \in [Generations -> {"none", "connecting", "open", "closed", "disposed"}]
    BY DEF SocketShape, ConnectBegins, Dispose
  <2>3. DOMAIN seen' = DOMAIN seen
    BY DEF ConnectBegins
  <2>4. QED
    BY <2>1, <2>2, <2>3 DEF SocketShape, ConnectBegins
<1>2. OneConnect'
  BY DEF SocketShape, ConnectBegins, OneConnect, Connecting
<1>3. SessionKept'
  <2>1. SUFFICES ASSUME ~seen'.overlap, NEW g \in Generations,
                        g = currentSock' \/ connects'[g].step = "version"
                 PROVE  connects'[g].session = session'
    BY DEF SessionKept
  <2>2. connects'[g].step = "version" /\ currentSock' = NoSocket
    BY <2>1 DEF ConnectBegins
  <2>3. \A x \in Generations : ~Connecting(x)
    BY <2>1 DEF ConnectBegins, SocketShape
  <2>4. g # socketGeneration + 1
    BY <2>2 DEF ConnectBegins, SocketShape
  <2>5. QED
    BY <2>2, <2>3, <2>4 DEF ConnectBegins, SocketShape, Connecting
<1>4. OneLiveSocket'
  BY DEF SocketShape, ConnectBegins, OneLiveSocket, Alive, Dispose
<1>5. CurrentNotDisposed'
  BY DEF ConnectBegins, CurrentNotDisposed
<1>6. CallerConnects'
  <2>1. SUFFICES ASSUME NEW g \in Generations, Connecting(g)', connects'[g].by \in Reconnects
                 PROVE  reconnects'[connects'[g].by] \in {"connect", "answered"}
    BY DEF CallerConnects
  <2>2. CASE g = socketGeneration + 1
    BY <2>1, <2>2 DEF SocketShape, ConnectBegins
  <2>3. CASE g # socketGeneration + 1
    BY <2>1, <2>3 DEF SocketShape, ConnectBegins, CallerConnects, Connecting
  <2>4. QED
    BY <2>2, <2>3
<1>7. QED
  BY <1>1, <1>2, <1>3, <1>4, <1>5, <1>6

\* The socket that is made is the newest one, and the first to live, unless
\* connects overlapped.
LEMMA SocketMadeStep ==
    ASSUME SocketInv, NEW g \in Generations, SocketMade(g)
    PROVE  SocketInv'
<1> USE GenerationFacts DEF SocketInv
<1>1. SocketShape'
  BY DEF SocketShape, SocketMade
<1>2. Connecting(g) /\ seen' = seen /\ session' = session /\ process' = process
  BY DEF SocketMade, Connecting
<1>3. OneConnect'
  BY <1>2 DEF SocketShape, SocketMade, OneConnect, Connecting
<1>4. SessionKept'
  <2>1. SUFFICES ASSUME process = "up", ~seen.overlap, \A q \in Reconnects : reconnects'[q] # "cleared",
                        NEW x \in Generations, x = g \/ connects'[x].step = "version"
                 PROVE  connects'[x].session = session
    BY <1>2 DEF SessionKept, SocketMade
  <2>2. \A q \in Reconnects : reconnects[q] # "cleared"
    BY <1>2, <2>1 DEF CallerConnects, SocketShape, SocketMade
  <2>3. QED
    BY <2>1, <2>2 DEF SessionKept, SocketMade, SocketShape
<1>5. OneLiveSocket'
  BY <1>2 DEF SocketShape, SocketMade, OneLiveSocket, OneConnect, Alive
<1>6. CurrentNotDisposed'
  BY DEF SocketShape, SocketMade, CurrentNotDisposed
<1>7. CallerConnects'
  BY <1>2 DEF SocketShape, SocketMade, CallerConnects, Connecting
<1>8. QED
  BY <1>1, <1>3, <1>4, <1>5, <1>6, <1>7

\* A connect that has read the credentials has those of the disk.
LEMMA AuthLoadedStep ==
    ASSUME SocketInv, NEW g \in Generations, AuthLoaded(g)
    PROVE  SocketInv'
<1> USE GenerationFacts DEF SocketInv
<1>1. SocketShape'
  <2> DEFINE Call == [step : {"none", "auth", "version", "done", "failed"},
                      by : {"start", "timer"} \cup Reconnects, session : Nat]
             read == [connects EXCEPT ![g].step = "version"]
  <2>1. connects' = [read EXCEPT ![g].session = session]
    BY DEF AuthLoaded
  <2>2. read \in [Generations -> Call]
    BY DEF SocketShape
  <2> HIDE DEF read
  <2>3. connects' \in [Generations -> Call]
    BY <2>1, <2>2 DEF SocketShape
  <2>4. QED
    BY <2>3 DEF SocketShape, AuthLoaded
<1>2. CallerConnects' /\ OneConnect'
  BY DEF SocketShape, AuthLoaded, CallerConnects, OneConnect, Connecting
<1>3. SessionKept'
  BY DEF SocketShape, AuthLoaded, SessionKept
<1>4. OneLiveSocket' /\ CurrentNotDisposed'
  BY DEF AuthLoaded, OneLiveSocket, CurrentNotDisposed, Alive
<1>5. QED
  BY <1>1, <1>2, <1>3, <1>4

\* A connect that fails is no longer in progress.
LEMMA AuthFailsStep ==
    ASSUME SocketInv, NEW g \in Generations, AuthFails(g)
    PROVE  SocketInv'
<1> USE GenerationFacts DEF SocketInv
<1>1. SocketShape'
  BY DEF SocketShape, AuthFails
<1>2. seen'.overlap = seen.overlap
  BY DEF SocketShape, AuthFails
<1>3. CallerConnects' /\ OneConnect'
  BY <1>2 DEF SocketShape, AuthFails, CallerConnects, OneConnect, Connecting
<1>4. SessionKept'
  <2>1. \A q \in Reconnects : reconnects'[q] # "cleared" => reconnects[q] # "cleared"
    BY DEF SocketShape, AuthFails, CallerConnects, Connecting
  <2>2. process' = "up" => process = "up"
    BY DEF AuthFails
  <2>3. QED
    BY <1>2, <2>1, <2>2 DEF SocketShape, AuthFails, SessionKept
<1>5. OneLiveSocket' /\ CurrentNotDisposed'
  BY <1>2 DEF AuthFails, OneLiveSocket, CurrentNotDisposed, Alive
<1>6. QED
  BY <1>1, <1>3, <1>4, <1>5

\* Sockets only close or open, and the current socket gives up its place or
\* keeps it: events, resumed handlers, and what disposes of the current one.
LEMMA SocketsChange ==
    ASSUME SocketInv,
           UNCHANGED <<socketGeneration, connects, session>>,
           sockets' \in [Generations -> {"none", "connecting", "open", "closed", "disposed"}],
           \A g \in Generations : Alive(g)' => Alive(g) /\ (g = currentSock => currentSock' = g),
           currentSock' \in {NoSocket, currentSock},
           CurrentNotDisposed',
           suspended' \subseteq [socket : Generations, update : Update],
           reconnects' \in [Reconnects -> {"none", "clear", "cleared", "save", "connect", "answered"}],
           \A q \in Reconnects :
               reconnects[q] \in {"connect", "answered", "cleared"} => reconnects'[q] = reconnects[q],
           process' = "up" => process = "up",
           DOMAIN seen' = DOMAIN seen, seen'.overlap = seen.overlap
    PROVE  SocketInv'
<1> USE GenerationFacts DEF SocketInv
<1>1. SocketShape'
  BY DEF SocketShape
<1>2. CallerConnects' /\ OneConnect'
  BY DEF SocketShape, CallerConnects, OneConnect, Connecting
<1>3. SessionKept'
  BY DEF SocketShape, SessionKept
<1>4. OneLiveSocket'
  BY DEF SocketShape, OneLiveSocket, Alive
<1>5. QED
  BY <1>1, <1>2, <1>3, <1>4

\* processConnectionUpdate disposes of the socket that closed, and only of it.
LEMMA ProcessUpdateFacts ==
    ASSUME SocketInv, NEW g \in Generations, NEW update \in Update,
           NEW others \in [Generations -> {"none", "connecting", "open", "closed", "disposed"}],
           \A x \in Generations : x # g => others[x] = sockets[x],
           others[g] \in {"connecting", "open"} => Alive(g),
           update = "open" => (others[g] = "disposed" => sockets[g] = "disposed"),
           ProcessConnectionUpdate(g, update, others)
    PROVE  /\ sockets' \in [Generations -> {"none", "connecting", "open", "closed", "disposed"}]
           /\ \A x \in Generations : Alive(x)' => Alive(x) /\ (x = currentSock => currentSock' = x)
           /\ currentSock' \in {NoSocket, currentSock}
           /\ CurrentNotDisposed'
<1> USE GenerationFacts DEF SocketInv, ProcessConnectionUpdate, CurrentAfter
<1>1. sockets' \in [Generations -> {"none", "connecting", "open", "closed", "disposed"}]
  OBVIOUS
<1>2. currentSock' \in {NoSocket, currentSock}
  OBVIOUS
<1>3. ASSUME NEW x \in Generations, Alive(x)'
      PROVE  Alive(x) /\ (x = currentSock => currentSock' = x)
  BY <1>3 DEF Alive
<1>4. CurrentNotDisposed'
  BY DEF CurrentNotDisposed, SocketShape
<1>5. QED
  BY <1>1, <1>2, <1>3, <1>4

\* The events of a socket, processed at once, later, or not at all.
LEMMA SocketEventStep ==
    ASSUME SocketInv, NEW g \in Generations, SocketEvent(g)
    PROVE  SocketInv'
<1> USE GenerationFacts
<1> DEFINE SocketStates == {"none", "connecting", "open", "closed", "disposed"}
<1>1. SocketShape /\ CurrentNotDisposed
  BY DEF SocketInv
<1>2. PICK update \in Update :
          /\ update = "open" => sockets[g] = "connecting"
          /\ update # "open" => Alive(g)
          /\ \/ ProcessConnectionUpdate(g, update, Happens(g, update)) /\ suspended' = suspended
             \/ /\ sockets' = Happens(g, update)
                /\ suspended' = suspended \cup {[socket |-> g, update |-> update]}
                /\ currentSock' = currentSock
             \/ sockets' = Happens(g, update) /\ suspended' = suspended /\ currentSock' = currentSock
  BY DEF SocketEvent
<1> DEFINE others == Happens(g, update)
<1>3. /\ others \in [Generations -> SocketStates]
      /\ \A x \in Generations : x # g => others[x] = sockets[x]
      /\ others[g] \in {"connecting", "open"} => Alive(g)
      /\ others[g] \in {"open", "closed"}
  BY <1>1, <1>2 DEF SocketShape, Happens, Alive
<1>4. UNCHANGED <<socketGeneration, connects, session, reconnects, process, seen>>
  BY DEF SocketEvent
<1>5. /\ sockets' \in [Generations -> SocketStates]
      /\ \A x \in Generations : Alive(x)' => Alive(x) /\ (x = currentSock => currentSock' = x)
      /\ currentSock' \in {NoSocket, currentSock}
      /\ CurrentNotDisposed'
  <2>1. CASE ProcessConnectionUpdate(g, update, others)
    <3> HIDE DEF others
    <3>1. QED
      BY <1>3, <2>1, ProcessUpdateFacts
  <2>2. CASE sockets' = others /\ currentSock' = currentSock
    <3> HIDE DEF others
    <3>1. ASSUME NEW x \in Generations, Alive(x)'
          PROVE  Alive(x) /\ (x = currentSock => currentSock' = x)
      BY <1>3, <2>2, <3>1 DEF Alive
    <3>2. CurrentNotDisposed'
      BY <1>1, <1>3, <2>2 DEF CurrentNotDisposed, SocketShape
    <3>3. QED
      BY <1>3, <2>2, <3>1, <3>2
  <2>3. QED
    BY <1>2, <2>1, <2>2
<1>6. suspended' \subseteq [socket : Generations, update : Update]
  BY <1>1, <1>2 DEF SocketShape
<1>7. QED
  BY <1>1, <1>4, <1>5, <1>6, SocketsChange DEF SocketShape

\* An update that was suspended.
LEMMA HandlerResumesStep ==
    ASSUME SocketInv, NEW s \in suspended, HandlerResumes(s)
    PROVE  SocketInv'
<1> USE GenerationFacts
<1> DEFINE SocketStates == {"none", "connecting", "open", "closed", "disposed"}
<1>1. SocketShape
  BY DEF SocketInv
<1>2. s.socket \in Generations /\ s.update \in Update
  BY <1>1 DEF SocketShape
<1>3. /\ ProcessConnectionUpdate(s.socket, s.update, sockets)
      /\ suspended' \subseteq suspended
      /\ UNCHANGED <<socketGeneration, connects, session, reconnects, process>>
  BY DEF HandlerResumes
<1>4. /\ sockets' \in [Generations -> SocketStates]
      /\ \A x \in Generations : Alive(x)' => Alive(x) /\ (x = currentSock => currentSock' = x)
      /\ currentSock' \in {NoSocket, currentSock}
      /\ CurrentNotDisposed'
  BY <1>1, <1>2, <1>3, ProcessUpdateFacts DEF SocketShape, Alive
<1>5. DOMAIN seen' = DOMAIN seen /\ seen'.overlap = seen.overlap
  BY <1>1 DEF SocketShape, HandlerResumes
<1>6. suspended' \subseteq [socket : Generations, update : Update]
  BY <1>1, <1>3 DEF SocketShape
<1>7. QED
  BY <1>1, <1>3, <1>4, <1>5, <1>6, SocketsChange DEF SocketShape

\* A request of the operator disposes of the current socket.
LEMMA ReconnectAskedStep ==
    ASSUME SocketInv, NEW q \in Reconnects, ReconnectAsked(q)
    PROVE  SocketInv'
<1> USE GenerationFacts
<1>1. SocketShape
  BY DEF SocketInv
<1>2. /\ sockets' \in [Generations -> {"none", "connecting", "open", "closed", "disposed"}]
      /\ \A x \in Generations : Alive(x)' => Alive(x) /\ (x = currentSock => currentSock' = x)
  BY <1>1 DEF SocketShape, ReconnectAsked, Dispose, Alive
<1>3. currentSock' = NoSocket /\ CurrentNotDisposed'
  BY DEF ReconnectAsked, CurrentNotDisposed
<1>4. DOMAIN seen' = DOMAIN seen /\ seen'.overlap = seen.overlap
  BY <1>1 DEF SocketShape, ReconnectAsked
<1>5. /\ reconnects' \in [Reconnects -> {"none", "clear", "cleared", "save", "connect", "answered"}]
      /\ \A x \in Reconnects : reconnects[x] \in {"connect", "answered", "cleared"}
                                    => reconnects'[x] = reconnects[x]
  BY <1>1 DEF SocketShape, ReconnectAsked
<1>6. UNCHANGED <<socketGeneration, connects, session, suspended, process>>
  BY DEF ReconnectAsked
<1>7. QED
  BY <1>1, <1>2, <1>3, <1>4, <1>5, <1>6, SocketsChange DEF SocketShape

\* Once the credentials are cleared, the session is another one until the
\* request connects.
LEMMA AuthClearedStep ==
    ASSUME SocketInv, NEW q \in Reconnects, AuthCleared(q)
    PROVE  SocketInv'
<1> USE GenerationFacts DEF SocketInv
<1>1. SocketShape'
  BY DEF SocketShape, AuthCleared
<1>2. CallerConnects' /\ OneConnect'
  BY DEF SocketShape, AuthCleared, CallerConnects, OneConnect, Connecting
<1>3. SessionKept'
  BY DEF SocketShape, AuthCleared, SessionKept
<1>4. OneLiveSocket' /\ CurrentNotDisposed'
  BY DEF AuthCleared, OneLiveSocket, CurrentNotDisposed, Alive
<1>5. QED
  BY <1>1, <1>2, <1>3, <1>4

\* A request ends without a connect, during the shutdown, or connects.
LEMMA ReconnectGoesOnStep ==
    ASSUME SocketInv, NEW q \in Reconnects, ReconnectGoesOn(q)
    PROVE  SocketInv'
<1> USE GenerationFacts
<1>1. SocketShape
  BY DEF SocketInv
<1>2. CASE ShuttingDown
  <2> USE <1>1, <1>2 DEF SocketInv, ReconnectGoesOn
  <2>1. SocketShape'
    BY DEF SocketShape
  <2>2. CallerConnects' /\ OneConnect'
    BY DEF SocketShape, CallerConnects, OneConnect, Connecting
  <2>3. SessionKept'
    BY DEF ShuttingDown, SessionKept
  <2>4. OneLiveSocket' /\ CurrentNotDisposed'
    BY DEF OneLiveSocket, CurrentNotDisposed, Alive
  <2>5. QED
    BY <2>1, <2>2, <2>3, <2>4
<1>3. CASE ~ShuttingDown
  <2>1. /\ ConnectBegins(q)
        /\ reconnects' = [reconnects EXCEPT ![q] = "connect"]
        /\ reconnects[q] \in {"cleared", "save"}
        /\ UNCHANGED <<session, suspended, process>>
    BY <1>3 DEF ReconnectGoesOn
  <2>2. /\ reconnects' \in [Reconnects -> {"none", "clear", "cleared", "save", "connect", "answered"}]
        /\ reconnects'[q] = "connect"
        /\ \A x \in Reconnects : reconnects[x] \in {"connect", "answered"} => reconnects'[x] = reconnects[x]
    BY <1>1, <2>1 DEF SocketShape
  <2>3. QED
    BY <2>1, <2>2, ConnectBeginsStep
<1>4. QED
  BY <1>2, <1>3

\* A request fails and is answered; it no longer holds back the session.
LEMMA ReconnectFailsStep ==
    ASSUME SocketInv, NEW q \in Reconnects, ReconnectFails(q)
    PROVE  SocketInv'
<1> USE GenerationFacts
<1>1. SocketShape
  BY DEF SocketInv
<1>2. /\ reconnects' \in [Reconnects -> {"none", "clear", "cleared", "save", "connect", "answered"}]
      /\ \A x \in Reconnects : reconnects[x] \in {"connect", "answered", "cleared"}
                                    => reconnects'[x] = reconnects[x]
  BY <1>1 DEF SocketShape, ReconnectFails
<1>3. DOMAIN seen' = DOMAIN seen /\ seen'.overlap = seen.overlap
  BY <1>1 DEF SocketShape, ReconnectFails
<1>4. UNCHANGED <<socketGeneration, connects, sockets, session, currentSock, suspended, process>>
  BY DEF ReconnectFails
<1>5. CurrentNotDisposed'
  BY <1>4 DEF SocketInv, CurrentNotDisposed
<1>6. QED
  BY <1>1, <1>2, <1>3, <1>4, <1>5, SocketsChange DEF SocketShape, Alive

\* The shutdown disposes of the current socket.
LEMMA ServerClosedStep ==
    ASSUME SocketInv, ServerClosed
    PROVE  SocketInv'
<1> USE GenerationFacts
<1>1. SocketShape
  BY DEF SocketInv
<1>2. /\ sockets' \in [Generations -> {"none", "connecting", "open", "closed", "disposed"}]
      /\ \A x \in Generations : Alive(x)' => Alive(x) /\ (x = currentSock => currentSock' = x)
  BY <1>1 DEF SocketShape, ServerClosed, Dispose, Alive
<1>3. currentSock' = NoSocket /\ CurrentNotDisposed'
  BY DEF ServerClosed, CurrentNotDisposed
<1>4. UNCHANGED <<socketGeneration, connects, session, suspended, reconnects, seen>> /\ process' # "up"
  BY DEF ServerClosed
<1>5. QED
  BY <1>1, <1>2, <1>3, <1>4, SocketsChange DEF SocketShape

\* Steps that only change the state of the process, or nothing.
LEMMA ProcessStep ==
    ASSUME SocketInv,
           UNCHANGED <<socketGeneration, connects, sockets, session, currentSock, reconnects, seen>>,
           suspended' \subseteq suspended, process' = "up" => process = "up"
    PROVE  SocketInv'
<1>1. SocketShape' /\ CallerConnects' /\ OneConnect' /\ SessionKept'
  BY DEF SocketInv, SocketShape, CallerConnects, OneConnect, SessionKept, Connecting
<1>2. OneLiveSocket' /\ CurrentNotDisposed'
  BY DEF SocketInv, OneLiveSocket, CurrentNotDisposed, Alive
<1>3. QED
  BY <1>1, <1>2 DEF SocketInv

\* Every step of the sockets keeps the invariant.
LEMMA SocketNextInv ==
    ASSUME SocketInv, [SocketNext]_socketVars
    PROVE  SocketInv'
<1>1. ASSUME NEW g \in Generations, AuthLoaded(g) \/ AuthFails(g) \/ SocketMade(g) \/ SocketEvent(g)
      PROVE  SocketInv'
  BY <1>1, AuthLoadedStep, AuthFailsStep, SocketMadeStep, SocketEventStep
<1>2. ASSUME NEW s \in suspended, HandlerResumes(s)
      PROVE  SocketInv'
  BY <1>2, HandlerResumesStep
<1>3. ASSUME NEW s \in suspended, HandlerFails(s)
      PROVE  SocketInv'
  BY <1>3, ProcessStep DEF HandlerFails
<1>4. ASSUME ReconnectTimerFires
      PROVE  SocketInv'
  <2>1. /\ ConnectBegins("timer")
        /\ UNCHANGED <<session, suspended, process, reconnects>>
    BY <1>4 DEF ReconnectTimerFires
  <2>2. "timer" \notin Reconnects
    BY SocketAssumption
  <2>3. QED
    BY <2>1, <2>2, ConnectBeginsStep DEF SocketInv, SocketShape
<1>5. ASSUME NEW q \in Reconnects,
             AuthCleared(q) \/ ReconnectGoesOn(q) \/ ReconnectFails(q) \/ ReconnectAsked(q)
      PROVE  SocketInv'
  BY <1>5, AuthClearedStep, ReconnectGoesOnStep, ReconnectFailsStep, ReconnectAskedStep
<1>6. ASSUME BuffersFlushed \/ Exit \/ Signal
      PROVE  SocketInv'
  BY <1>6, ProcessStep DEF BuffersFlushed, Exit, Signal
<1>7. ASSUME UNCHANGED socketVars
      PROVE  SocketInv'
  BY <1>7, ProcessStep DEF socketVars
<1>8. QED
  BY <1>1, <1>2, <1>3, <1>4, <1>5, <1>6, <1>7, ServerClosedStep
     DEF SocketNext, BridgeRuns, Outside

-----------------------------------------------------------------------------
(***************************************************************************)
(* The composition with the calls of a reply.                              *)
(***************************************************************************)

\* A step of the whole is one of the sockets or leaves them alone.
LEMMA SocketsInComposition == [Next]_vars => [SocketNext]_socketVars
  BY DEF Next, SocketNext, Beside, vars, SendRuns, ReplyBegins, LoseCall, ConnectionRefused,
         SendArrives, LoseBridge, HearAnswer, Deliver, SendThrows

\* So what is proved of SocketSpec can be used for the composition: a send
\* action is written with UNCHANGED socketVars or around an action of the
\* sockets.
LEMMA ImplementsSockets == Spec => SocketSpec
<1>1. Init => SocketInit
  BY DEF Init
<1>2. QED
  BY <1>1, SocketsInComposition, PTL DEF Spec, SocketSpec

\* The send server uses the one socket that lives, with the session that was
\* kept, as long as connects do not overlap, and never one that was disposed
\* of: for any number of closes and requests (connectSocket, disposeSocket).
THEOREM SendServerSocket == Spec => []SendServerHasTheSocket
<1>1. SocketInv => SendServerHasTheSocket
  <2>1. SocketInv => ClearedSessionUnused
    BY GenerationFacts DEF SocketInv, SocketShape, SessionKept, ClearedSessionUnused
  <2>2. QED
    BY <2>1 DEF SocketInv, SendServerHasTheSocket
<1>2. Init => SocketInv
  BY SocketInitInv DEF Init
<1>3. SocketInv /\ [Next]_vars => SocketInv'
  BY SocketsInComposition, SocketNextInv
<1>4. QED
  BY <1>1, <1>2, <1>3, PTL DEF Spec

-----------------------------------------------------------------------------
(***************************************************************************)
(* The parts of a reply.                                                   *)
(***************************************************************************)
SendShape ==
    /\ send \in [part : 1..Parts, attempt : Nat, step : {"idle", "call", "wait", "sent", "failed"}]
    /\ calls \subseteq [part : 1..Parts, attempt : Nat, sock : Nat,
                        answer : {"none", "ok", "retryable", "rejected"}]
    /\ delivered \in [1..Parts -> Nat]

\* The backend is at the part after those that were confirmed, and a call, given
\* up or not, is of one of these parts or of that one; its ok means delivered.
ConfirmedBefore ==
    /\ \A p \in 1..Parts : p < send.part => delivered[p] > 0
    /\ \A p \in 1..Parts : delivered[p] > 0 => p <= send.part
    /\ \A call \in calls :
           /\ call.part <= send.part
           /\ call.answer = "ok" => delivered[call.part] > 0

SendInv == SendShape /\ ConfirmedBefore

\* Another attempt, or giving up, is of the same part.
LEMMA NextAttemptPart ==
    ASSUME SendShape
    PROVE  /\ NextAttempt \in [part : 1..Parts, attempt : Nat,
                               step : {"idle", "call", "wait", "sent", "failed"}]
           /\ NextAttempt.part = send.part
<1>1. CASE send.attempt < SendAttempts
  <2> DEFINE later == [send EXCEPT !.attempt = @ + 1]
  <2>1. /\ later \in [part : 1..Parts, attempt : Nat, step : {"idle", "call", "wait", "sent", "failed"}]
        /\ later.part = send.part
    BY DEF SendShape
  <2>2. NextAttempt = [later EXCEPT !.step = "call"]
    BY <1>1 DEF NextAttempt
  <2> HIDE DEF later
  <2>3. QED
    BY <2>1, <2>2
<1>2. CASE ~(send.attempt < SendAttempts)
  BY <1>2, SendAssumption DEF SendShape, NextAttempt
<1>3. QED
  BY <1>1, <1>2

\* After the next part there may be one more part, if there is one at all.
LEMMA NextPartPart ==
    ASSUME SendShape
    PROVE  /\ NextPart \in [part : 1..Parts, attempt : Nat,
                            step : {"idle", "call", "wait", "sent", "failed"}]
           /\ NextPart.part \in {send.part, send.part + 1}
  BY SendAssumption DEF SendShape, NextPart

\* A step that stays at its part and neither delivers nor invents answers.
LEMMA SamePart ==
    ASSUME SendInv,
           send' \in [part : 1..Parts, attempt : Nat, step : {"idle", "call", "wait", "sent", "failed"}],
           send'.part = send.part, delivered' = delivered,
           NEW fresh \in SUBSET [part : {send.part}, attempt : Nat, sock : Nat,
                                answer : {"none", "retryable", "rejected"}],
           calls' \subseteq calls \cup fresh
    PROVE  SendInv'
<1>1. SendShape'
  BY DEF SendInv, SendShape
<1>2. ConfirmedBefore'
  BY DEF SendInv, SendShape, ConfirmedBefore
<1>3. QED
  BY <1>1, <1>2 DEF SendInv

\* What becomes of a call that is answered.
LEMMA AnsweredCalls ==
    ASSUME SendShape, NEW call \in calls, NEW answer \in {"ok", "retryable", "rejected"}
    PROVE  /\ Answered(call, answer) \subseteq
                  [part : 1..Parts, attempt : Nat, sock : Nat,
                   answer : {"none", "ok", "retryable", "rejected"}]
           /\ \A x \in Answered(call, answer) :
                  x \in calls \/ (x.part = call.part /\ x.answer = answer)
<1> USE SendAssumption
<1> DEFINE new == [call EXCEPT !.answer = answer]
<1>1. /\ new \in [part : 1..Parts, attempt : Nat, sock : Nat,
                  answer : {"none", "ok", "retryable", "rejected"}]
      /\ new.part = call.part /\ new.answer = answer
  BY DEF SendShape
<1>2. Answered(call, answer) \subseteq calls \cup {new}
  BY DEF Answered
<1> HIDE DEF new
<1>3. QED
  BY <1>1, <1>2 DEF SendShape

\* A delivery is of a part that was reached, and may count as confirmed.
LEMMA DeliverStep ==
    ASSUME SendInv, NEW call \in calls, Deliver(call)
    PROVE  SendInv'
<1> USE SendAssumption
<1>1. SendShape /\ ConfirmedBefore
  BY DEF SendInv
<1>2. /\ call.part \in 1..Parts /\ send.part \in 1..Parts
      /\ delivered' = [delivered EXCEPT ![call.part] = @ + 1]
      /\ send' = send
      /\ call.part <= send.part
  BY <1>1 DEF Deliver, SendShape, ConfirmedBefore
<1>3. PICK answer \in {"ok", "retryable"} : calls' = Answered(call, answer)
  BY DEF Deliver
<1>4. \A p \in 1..Parts : /\ delivered'[p] \in Nat
                          /\ delivered[p] > 0 => delivered'[p] > 0
                          /\ p # call.part => delivered'[p] = delivered[p]
                          /\ p = call.part => delivered'[p] > 0
  BY <1>1, <1>2 DEF SendShape
<1>5. SendShape'
  <2>1. calls' \subseteq [part : 1..Parts, attempt : Nat, sock : Nat,
                         answer : {"none", "ok", "retryable", "rejected"}]
    BY <1>1, <1>3, AnsweredCalls
  <2>2. delivered' \in [1..Parts -> Nat]
    BY <1>1, <1>2 DEF SendShape
  <2>3. QED
    BY <1>1, <1>2, <2>1, <2>2 DEF SendShape
<1>6. ConfirmedBefore'
  <2>1. \A p \in 1..Parts : p < send.part => delivered'[p] > 0
    BY <1>1, <1>4 DEF ConfirmedBefore
  <2>2. ASSUME NEW p \in 1..Parts, delivered'[p] > 0
        PROVE  p <= send.part
    <3>1. CASE p = call.part
      BY <1>2, <3>1
    <3>2. CASE p # call.part
      <4>1. delivered[p] > 0
        BY <1>4, <2>2, <3>2
      <4>2. QED
        BY <1>1, <4>1 DEF ConfirmedBefore
    <3>3. QED
      BY <3>1, <3>2
  <2>3. ASSUME NEW x \in calls'
        PROVE  x.part <= send.part /\ (x.answer = "ok" => delivered'[x.part] > 0)
    <3>1. CASE x \in calls
      <4>1. x.part \in 1..Parts
        BY <1>1, <3>1 DEF SendShape
      <4>2. x.part <= send.part /\ (x.answer = "ok" => delivered[x.part] > 0)
        BY <1>1, <3>1 DEF ConfirmedBefore
      <4>3. QED
        BY <1>4, <4>1, <4>2
    <3>2. CASE x.part = call.part
      <4>1. delivered'[call.part] > 0
        BY <1>2, <1>4
      <4>2. QED
        BY <1>2, <3>2, <4>1
    <3>3. QED
      BY <1>1, <1>3, <2>3, <3>1, <3>2, AnsweredCalls
  <2>4. QED
    BY <1>2, <2>1, <2>2, <2>3 DEF ConfirmedBefore
<1>7. QED
  BY <1>5, <1>6 DEF SendInv

\* The backend goes to the next part when it hears that this one was delivered.
LEMMA HearAnswerStep ==
    ASSUME SendInv, NEW call \in calls, HearAnswer(call)
    PROVE  SendInv'
<1> USE SendAssumption
<1>1. SendShape /\ ConfirmedBefore
  BY DEF SendInv
<1>2. call.part = send.part /\ calls' = calls \ {call} /\ delivered' = delivered
  BY DEF HearAnswer, IsCurrent
<1>3. CASE call.answer = "ok"
  <2>1. send' = NextPart
    BY <1>3 DEF HearAnswer
  <2>2. send.part \in 1..Parts /\ delivered[send.part] > 0 /\ delivered \in [1..Parts -> Nat]
    BY <1>1, <1>2, <1>3 DEF ConfirmedBefore, SendShape
  <2>3. SendShape'
    BY <1>1, <1>2, <2>1, NextPartPart DEF SendShape
  <2>4. send'.part \in {send.part, send.part + 1}
    BY <1>1, <2>1, NextPartPart
  <2>5. \A p \in 1..Parts : /\ p < send'.part => delivered'[p] > 0
                            /\ delivered'[p] > 0 => p <= send'.part
    BY <1>1, <1>2, <2>2, <2>4 DEF ConfirmedBefore
  <2>6. \A x \in calls' : x.part <= send'.part /\ (x.answer = "ok" => delivered'[x.part] > 0)
    <3>1. \A x \in calls : x.part \in 1..Parts
      BY <1>1 DEF SendShape
    <3>2. \A x \in calls : x.part <= send.part /\ (x.answer = "ok" => delivered[x.part] > 0)
      BY <1>1 DEF ConfirmedBefore
    <3>3. \A p \in 1..Parts : p <= send.part => p <= send'.part
      BY <2>2, <2>4
    <3>4. QED
      BY <1>2, <3>1, <3>2, <3>3
  <2>7. QED
    BY <2>3, <2>5, <2>6 DEF SendInv, ConfirmedBefore
<1>4. CASE call.answer # "ok"
  <2>1. send' \in {NextAttempt, [send EXCEPT !.step = "failed"]}
    BY <1>1, <1>4 DEF HearAnswer, SendShape
  <2>2. /\ send' \in [part : 1..Parts, attempt : Nat, step : {"idle", "call", "wait", "sent", "failed"}]
        /\ send'.part = send.part
    BY <1>1, <2>1, NextAttemptPart DEF SendShape
  <2>3. calls' \subseteq calls \cup {}
    BY <1>2
  <2>4. QED
    BY <1>2, <2>2, <2>3, SamePart
<1>5. QED
  BY <1>3, <1>4

\* Every step keeps the invariant of the reply.
LEMMA SendNextInv ==
    ASSUME SendInv, currentSock \in Nat, [Next]_vars
    PROVE  SendInv'
<1> USE SendAssumption
<1> DEFINE Sends == [part : 1..Parts, attempt : Nat, step : {"idle", "call", "wait", "sent", "failed"}]
<1>1. SendShape
  BY DEF SendInv
<1>2. CASE Beside(BridgeRuns) \/ Beside(Outside) \/ UNCHANGED vars
  <2>1. send' = send /\ delivered' = delivered /\ calls' \subseteq calls \cup {}
    BY <1>2 DEF Beside, vars, sendVars
  <2>2. QED
    BY <1>1, <2>1, SamePart DEF SendShape
<1>3. CASE ReplyBegins \/ ConnectionRefused \/ LoseBridge
  <2>1. /\ send' \in Sends /\ send'.part = send.part
        /\ delivered' = delivered /\ calls' \subseteq calls \cup {}
    BY <1>1, <1>3, NextAttemptPart DEF ReplyBegins, ConnectionRefused, LoseBridge, SendShape
  <2>2. QED
    BY <2>1, SamePart
<1>4. CASE SendArrives
  <2>1. PICK answer \in {"none", "retryable", "rejected"} :
            calls' = calls \cup {[part |-> send.part, attempt |-> send.attempt,
                                 sock |-> currentSock, answer |-> answer]}
    BY <1>4 DEF SendArrives
  <2>2. /\ send' \in Sends /\ send'.part = send.part /\ delivered' = delivered
        /\ send.attempt \in Nat
    BY <1>1, <1>4 DEF SendArrives, SendShape
  <2>3. [part |-> send.part, attempt |-> send.attempt, sock |-> currentSock, answer |-> answer] \in
            [part : {send.part}, attempt : Nat, sock : Nat, answer : {"none", "retryable", "rejected"}]
    BY <2>2
  <2>4. QED
    BY <2>1, <2>2, <2>3, SamePart
<1>5. CASE \E call \in calls : LoseCall(call)
  <2>1. PICK call \in calls : LoseCall(call)
    BY <1>5
  <2>2. /\ send' \in Sends /\ send'.part = send.part
        /\ delivered' = delivered /\ calls' \subseteq calls \cup {}
    BY <1>1, <2>1, NextAttemptPart DEF LoseCall
  <2>3. QED
    BY <2>2, SamePart
<1>6. CASE \E call \in calls : SendThrows(call)
  <2>1. PICK call \in calls : SendThrows(call)
    BY <1>6
  <2>2. send' = send /\ delivered' = delivered /\ calls' = Answered(call, "retryable")
    BY <2>1 DEF SendThrows
  <2>3. SendShape'
    BY <1>1, <2>2, AnsweredCalls DEF SendShape
  <2>4. \A x \in calls' : x \in calls \/ (x.part = call.part /\ x.answer = "retryable")
    BY <1>1, <2>2, AnsweredCalls
  <2>5. ConfirmedBefore'
    BY <1>1, <2>2, <2>4 DEF SendInv, ConfirmedBefore
  <2>6. QED
    BY <2>3, <2>5 DEF SendInv
<1>7. QED
  BY <1>2, <1>3, <1>4, <1>5, <1>6, HearAnswerStep, DeliverStep DEF Next, SendRuns

\* A part goes out only after every part before it was confirmed, for any
\* number of parts, attempts, lost calls and replaced sockets (_send_action,
\* post_bridge_send_with_retry, sendServer.ts).
THEOREM PartsKeepOrder == Spec => []PartsInOrder
<1>1. SendInv => PartsInOrder
  BY SendAssumption DEF SendInv, SendShape, ConfirmedBefore, PartsInOrder
<1>2. Init => SocketInv /\ SendInv
  BY SocketInitInv, SendAssumption DEF Init, SendInit, SendInv, SendShape, ConfirmedBefore
<1>3. SocketInv => currentSock \in Nat
  BY GenerationFacts DEF SocketInv, SocketShape, NoSocket
<1>4. SocketInv /\ SendInv /\ [Next]_vars => SocketInv' /\ SendInv'
  BY <1>3, SocketsInComposition, SocketNextInv, SendNextInv
<1>5. QED
  BY <1>1, <1>2, <1>4, PTL DEF Spec

-----------------------------------------------------------------------------
(***************************************************************************)
(* Generations and sessions stay within their bounds, by counting: each    *)
(* connect but the first has used up a close or a request.                 *)
(***************************************************************************)
Connected == {q \in Reconnects : reconnects[q] \in {"connect", "answered"}}
Uncleared == {q \in Reconnects : reconnects[q] \in {"none", "clear"}}
Closing   == {s \in suspended : s.update # "open"}

CountInv ==
    /\ IsFiniteSet(suspended)
    /\ socketGeneration + (IF reconnectTimer THEN 1 ELSE 0) + Cardinality(Closing)
           <= 1 + closes + Cardinality(Connected)
    /\ session + Cardinality(Uncleared) <= Cardinality(Reconnects)

\* Requests are finitely many.
LEMMA RequestCount ==
    ASSUME NEW S \in SUBSET Reconnects
    PROVE  /\ IsFiniteSet(S) /\ Cardinality(S) \in Nat
           /\ Cardinality(Reconnects) \in Nat /\ Cardinality(S) <= Cardinality(Reconnects)
  BY SocketAssumption, FS_CardinalityType, FS_Subset

\* Fewer elements are not more.
LEMMA FewerCount ==
    ASSUME NEW S, IsFiniteSet(S), NEW T \in SUBSET S
    PROVE  /\ IsFiniteSet(T) /\ Cardinality(T) \in Nat /\ Cardinality(S) \in Nat
           /\ Cardinality(T) <= Cardinality(S)
  BY FS_CardinalityType, FS_Subset

\* One more element is at most one more.
LEMMA OneMoreCount ==
    ASSUME NEW S, IsFiniteSet(S), NEW x
    PROVE  /\ IsFiniteSet(S \cup {x}) /\ Cardinality(S \cup {x}) \in Nat /\ Cardinality(S) \in Nat
           /\ Cardinality(S \cup {x}) <= Cardinality(S) + 1
           /\ x \notin S => Cardinality(S \cup {x}) = Cardinality(S) + 1
<1>1. IsFiniteSet(S \cup {x})
  BY FS_AddElement
<1>2. Cardinality(S \cup {x}) = IF x \in S THEN Cardinality(S) ELSE Cardinality(S) + 1
  BY FS_AddElement
<1>3. Cardinality(S) \in Nat
  BY FS_CardinalityType
<1>4. QED
  BY <1>1, <1>2, <1>3

\* One element less is one less.
LEMMA OneLessCount ==
    ASSUME NEW S, IsFiniteSet(S), NEW x \in S
    PROVE  /\ IsFiniteSet(S \ {x}) /\ Cardinality(S \ {x}) \in Nat
           /\ Cardinality(S) = Cardinality(S \ {x}) + 1
<1>1. IsFiniteSet(S \ {x})
  BY FS_RemoveElement
<1>2. Cardinality(S \ {x}) = IF x \in S THEN Cardinality(S) - 1 ELSE Cardinality(S)
  BY FS_RemoveElement
<1>3. Cardinality(S) \in Nat /\ Cardinality(S \ {x}) \in Nat
  BY <1>1, FS_CardinalityType
<1>4. QED
  BY <1>1, <1>2, <1>3

\* What the counting bounds.
LEMMA CountBounds ==
    ASSUME NEW g \in Nat, g >= 1, NEW t, NEW S, IsFiniteSet(S), NEW c \in 0..MaxCloses,
           NEW T \in SUBSET Reconnects,
           g + (IF t THEN 1 ELSE 0) + Cardinality(S) <= 1 + c + Cardinality(T)
    PROVE  g \in Generations
<1>1. Cardinality(S) \in Nat
  BY FS_CardinalityType
<1>2. /\ Cardinality(T) \in Nat /\ Cardinality(Reconnects) \in Nat
      /\ Cardinality(T) <= Cardinality(Reconnects)
  BY RequestCount
<1>3. g <= 1 + MaxCloses + Cardinality(Reconnects)
  BY <1>1, <1>2, SocketAssumption
<1>4. QED
  BY <1>2, <1>3, SocketAssumption DEF Generations

\* The counting, with what is paid and what it pays for.
LEMMA Balance ==
    ASSUME NEW g \in Nat, NEW t \in Nat, NEW u \in Nat, NEW a \in Nat, NEW b \in Nat,
           NEW m \in Nat, NEW n \in Nat, NEW c \in Nat, NEW d \in Nat,
           g + t + a <= 1 + m + c, u + b <= t + a, m + c <= n + d
    PROVE  g + u + b <= 1 + n + d
<1>1. g + (t + a) <= 1 + (m + c)
  OBVIOUS
<1>2. g + (u + b) <= 1 + (n + d)
  BY <1>1
<1>3. QED
  BY <1>2

\* The same when the number of connects stays.
LEMMA PaidFor ==
    ASSUME NEW g \in Nat, NEW t \in Nat, NEW u \in Nat, NEW a \in Nat, NEW b \in Nat,
           NEW m \in Nat, NEW n \in Nat, NEW c \in Nat,
           g + t + a <= 1 + m + c, u + b + m <= t + a + n
    PROVE  g + u + b <= 1 + n + c
  OBVIOUS

\* Sums of more are more.
LEMMA SumMonotone ==
    ASSUME NEW k \in Nat, NEW l \in Nat, NEW m \in Nat, NEW n \in Nat, k <= l, m <= n
    PROVE  k + m <= l + n
  OBVIOUS

\* The numbers in a state.
LEMMA Counts ==
    ASSUME SocketTypeOK, CountInv
    PROVE  /\ Cardinality(Closing) \in Nat /\ IsFiniteSet(Closing)
           /\ Cardinality(Connected) \in Nat /\ Cardinality(Uncleared) \in Nat
           /\ Cardinality(Reconnects) \in Nat
           /\ socketGeneration \in Nat /\ session \in Nat /\ closes \in Nat
<1>1. Closing \in SUBSET suspended /\ Connected \in SUBSET Reconnects /\ Uncleared \in SUBSET Reconnects
  BY DEF Closing, Connected, Uncleared
<1>2. Cardinality(Closing) \in Nat /\ IsFiniteSet(Closing)
  BY <1>1, FewerCount DEF CountInv
<1>3. QED
  BY <1>1, <1>2, RequestCount, GenerationFacts, SocketAssumption DEF SocketTypeOK

\* Steps that begin no connect, with no new update that waits.
LEMMA CountKept ==
    ASSUME SocketTypeOK, CountInv,
           UNCHANGED <<socketGeneration, session>>,
           closes' \in Nat, closes' >= closes, reconnectTimer' => reconnectTimer,
           suspended' \subseteq suspended,
           \A q \in Reconnects : /\ q \in Connected => q \in Connected'
                                 /\ q \in Uncleared' => q \in Uncleared
    PROVE  CountInv'
<1>1. IsFiniteSet(suspended)' /\ Closing' \in SUBSET Closing
  BY FewerCount DEF CountInv, Closing
<1>2. Connected \in SUBSET Connected' /\ Connected' \in SUBSET Reconnects
      /\ Uncleared' \in SUBSET Uncleared /\ Uncleared \in SUBSET Reconnects
  BY DEF Connected, Uncleared
<1>3. Cardinality(Closing') \in Nat /\ Cardinality(Closing') <= Cardinality(Closing)
  BY <1>1, Counts, FewerCount
<1>4. Cardinality(Connected') \in Nat /\ Cardinality(Connected) <= Cardinality(Connected')
  BY <1>2, RequestCount, FewerCount
<1>5. Cardinality(Uncleared') \in Nat /\ Cardinality(Uncleared') <= Cardinality(Uncleared)
  BY <1>2, RequestCount, FewerCount
<1> DEFINE a == Cardinality(Closing)    b == Cardinality(Closing')
           c == Cardinality(Connected)  d == Cardinality(Connected')
           e == Cardinality(Uncleared)  f == Cardinality(Uncleared')
           t == IF reconnectTimer THEN 1 ELSE 0
           u == IF reconnectTimer' THEN 1 ELSE 0
<1>6. /\ a \in Nat /\ b \in Nat /\ c \in Nat /\ d \in Nat /\ e \in Nat /\ f \in Nat
      /\ b <= a /\ c <= d /\ f <= e /\ t \in Nat /\ u \in Nat /\ u <= t
  BY <1>3, <1>4, <1>5, Counts
<1>7. /\ socketGeneration + t + a <= 1 + closes + c
      /\ session + e <= Cardinality(Reconnects)
  BY DEF CountInv
<1> HIDE DEF a, b, c, d, e, f, t, u
<1>8. socketGeneration \in Nat /\ session \in Nat /\ closes \in Nat /\ Cardinality(Reconnects) \in Nat
  BY Counts
<1>9. socketGeneration + u + b <= 1 + closes' + d
  <2>1. u + b <= t + a /\ closes + c <= closes' + d
    BY <1>6, <1>8, SumMonotone
  <2>2. QED
    BY <1>6, <1>7, <1>8, <2>1, Balance
<1>10. session + f <= Cardinality(Reconnects)
  BY <1>6, <1>7, <1>8
<1>11. QED
  BY <1>1, <1>9, <1>10 DEF CountInv, b, d, f, u

\* A connect is paid for by the timer or by a request.
LEMMA CountConnect ==
    ASSUME SocketTypeOK, CountInv,
           socketGeneration' = socketGeneration + 1,
           UNCHANGED <<session, suspended, closes>>,
           \/ reconnectTimer /\ ~reconnectTimer' /\ reconnects' = reconnects
           \/ /\ reconnectTimer' = reconnectTimer
              /\ \E q \in Reconnects : /\ reconnects[q] \in {"cleared", "save"}
                                       /\ reconnects' = [reconnects EXCEPT ![q] = "connect"]
    PROVE  CountInv' /\ socketGeneration' \in Generations
<1>1. Closing' = Closing /\ IsFiniteSet(suspended)'
  BY DEF CountInv, Closing
<1> DEFINE a == Cardinality(Closing) c == Cardinality(Connected) d == Cardinality(Connected')
           e == Cardinality(Uncleared) f == Cardinality(Uncleared')
           t == IF reconnectTimer THEN 1 ELSE 0
           u == IF reconnectTimer' THEN 1 ELSE 0
<1>2. a \in Nat /\ c \in Nat /\ e \in Nat /\ Cardinality(Reconnects) \in Nat
      /\ socketGeneration \in Nat /\ session \in Nat /\ closes \in Nat /\ t \in Nat /\ u \in Nat
  BY Counts
<1>3. socketGeneration + t + a <= 1 + closes + c /\ session + e <= Cardinality(Reconnects)
  BY DEF CountInv
<1>4. d \in Nat /\ f \in Nat /\ f <= e /\ u + c + 1 <= t + d
  <2>1. CASE reconnectTimer /\ ~reconnectTimer' /\ reconnects' = reconnects
    <3>1. d = c /\ f = e
      BY <2>1 DEF Connected, Uncleared
    <3>2. QED
      BY <1>2, <2>1, <3>1
  <2>2. ASSUME reconnectTimer' = reconnectTimer,
               NEW q \in Reconnects, reconnects[q] \in {"cleared", "save"},
               reconnects' = [reconnects EXCEPT ![q] = "connect"]
        PROVE  d \in Nat /\ f \in Nat /\ f <= e /\ u + c + 1 <= t + d
    <3>1. /\ Connected' = Connected \cup {q} /\ q \notin Connected
          /\ Uncleared' = Uncleared
      BY <2>2 DEF Connected, Uncleared, SocketTypeOK
    <3>2. IsFiniteSet(Connected)
      BY RequestCount DEF Connected
    <3>3. d = c + 1 /\ f = e
      BY <3>1, <3>2, OneMoreCount
    <3>4. QED
      BY <1>2, <2>2, <3>3
  <2>3. QED
    BY <2>1, <2>2
<1> HIDE DEF a, c, d, e, f, t, u
<1>5. socketGeneration + 1 + u + a <= 1 + closes + d /\ session + f <= Cardinality(Reconnects)
  BY <1>2, <1>3, <1>4
<1>6. CountInv'
  BY <1>1, <1>5 DEF CountInv, a, d, f, u
<1>7. closes \in 0..MaxCloses /\ Connected' \in SUBSET Reconnects
      /\ IsFiniteSet(Closing) /\ socketGeneration + 1 \in Nat /\ socketGeneration + 1 >= 1
  BY <1>2, Counts DEF SocketTypeOK, Connected
<1>8. socketGeneration + 1 \in Generations
  BY <1>5, <1>7, CountBounds DEF a, d, u
<1>9. QED
  BY <1>6, <1>8

\* An update that is new, or that waited: the timer pays for what it was.
LEMMA CountUpdate ==
    ASSUME SocketTypeOK, CountInv,
           UNCHANGED <<socketGeneration, session, reconnects>>,
           reconnectTimer' \in BOOLEAN, closes' \in Nat,
           NEW x,
           \/ /\ closes' = closes + 1 /\ reconnectTimer' = reconnectTimer
              /\ suspended' = suspended \cup {x}
           \/ /\ closes' = closes + 1 /\ suspended' = suspended
           \/ /\ closes' = closes /\ reconnectTimer' = reconnectTimer
              /\ x.update = "open" /\ suspended' = suspended \cup {x}
           \/ /\ closes' = closes /\ x \in suspended /\ suspended' = suspended \ {x}
              /\ x.update = "open" => reconnectTimer' = reconnectTimer
    PROVE  CountInv'
<1>1. Connected' = Connected /\ Uncleared' = Uncleared
  BY DEF Connected, Uncleared
<1> DEFINE a == Cardinality(Closing) b == Cardinality(Closing') c == Cardinality(Connected)
           t == IF reconnectTimer THEN 1 ELSE 0
           u == IF reconnectTimer' THEN 1 ELSE 0
<1>2. /\ a \in Nat /\ c \in Nat /\ t \in 0..1 /\ u \in 0..1 /\ IsFiniteSet(Closing)
      /\ socketGeneration \in Nat /\ closes \in Nat
  BY Counts
<1>3. socketGeneration + t + a <= 1 + closes + c /\ IsFiniteSet(suspended)
  BY DEF CountInv
<1>4. IsFiniteSet(suspended')
  BY <1>3, OneMoreCount, FewerCount
<1>5. b \in Nat /\ u + b + closes <= t + a + closes'
  <2>1. CASE closes' = closes + 1 /\ reconnectTimer' = reconnectTimer /\ suspended' = suspended \cup {x}
    <3>1. Closing' \in SUBSET (Closing \cup {x})
      BY <2>1 DEF Closing
    <3>2. b \in Nat /\ b <= a + 1
      <4>1. /\ IsFiniteSet(Closing \cup {x}) /\ Cardinality(Closing \cup {x}) \in Nat
            /\ Cardinality(Closing \cup {x}) <= a + 1
        BY <1>2, OneMoreCount
      <4>2. b \in Nat /\ b <= Cardinality(Closing \cup {x})
        BY <3>1, <4>1, FewerCount
      <4> HIDE DEF a, b
      <4>3. QED
        BY <1>2, <4>1, <4>2
    <3>3. u = t
      BY <2>1
    <3> HIDE DEF a, b, t, u
    <3>4. QED
      BY <1>2, <2>1, <3>2, <3>3
  <2>2. CASE closes' = closes + 1 /\ suspended' = suspended
    <3>1. b = a
      BY <2>2 DEF Closing
    <3> HIDE DEF a, b, t, u
    <3>2. QED
      BY <1>2, <2>2, <3>1
  <2>3. CASE closes' = closes /\ reconnectTimer' = reconnectTimer /\ x.update = "open"
             /\ suspended' = suspended \cup {x}
    <3>1. b = a /\ u = t
      BY <2>3 DEF Closing
    <3> HIDE DEF a, b, t, u
    <3>2. QED
      BY <1>2, <2>3, <3>1
  <2>4. CASE closes' = closes /\ x \in suspended /\ suspended' = suspended \ {x} /\ x.update = "open"
             /\ reconnectTimer' = reconnectTimer
    <3>1. b = a /\ u = t
      BY <2>4 DEF Closing
    <3> HIDE DEF a, b, t, u
    <3>2. QED
      BY <1>2, <2>4, <3>1
  <2>5. CASE closes' = closes /\ x \in suspended /\ suspended' = suspended \ {x} /\ x.update # "open"
    <3>1. Closing' = Closing \ {x} /\ x \in Closing
      BY <2>5 DEF Closing
    <3>2. b \in Nat /\ a = b + 1
      BY <1>2, <3>1, OneLessCount
    <3> HIDE DEF a, b, t, u
    <3>3. QED
      BY <1>2, <2>5, <3>2
  <2>6. QED
    BY <2>1, <2>2, <2>3, <2>4, <2>5
<1> HIDE DEF a, b, c, t, u
<1>6. socketGeneration + u + b <= 1 + closes' + c
  <2>1. u + b + closes <= t + a + closes'
    BY <1>5
  <2>2. t \in Nat /\ u \in Nat
    BY <1>2
  <2>3. QED
    BY <1>2, <1>3, <1>5, <2>1, <2>2, PaidFor
<1>7. QED
  BY <1>1, <1>4, <1>6 DEF CountInv, b, c, u

TypesInv == SocketTypeOK /\ CountInv

\* The count at the start: nothing is used up, and nothing is owed.
LEMMA InitTypes == SocketInit => TypesInv
<1>1. SUFFICES ASSUME SocketInit PROVE TypesInv
  OBVIOUS
<1>2. Cardinality(Reconnects) \in Nat
  BY RequestCount
<1>3. SocketTypeOK
  <2>1. connects \in [Generations -> Connect]
    <3>1. 0 \in 0..Cardinality(Reconnects)
      BY <1>2
    <3>2. \A g \in Generations :
              [step |-> IF g = 1 THEN "auth" ELSE "none", by |-> "start", session |-> 0] \in Connect
      BY <3>1 DEF Connect
    <3>3. QED
      BY <1>1, <3>2 DEF SocketInit
  <2>2. seen \in [overlap : BOOLEAN, crossed : BOOLEAN, late : BOOLEAN, abandoned : BOOLEAN]
    BY <1>1 DEF SocketInit, NothingSeen
  <2>3. session \in 0..Cardinality(Reconnects) /\ closes \in 0..MaxCloses
        /\ badSessionRetryCountSinceOpen \in 0..MaxBadSessionReconnects
    BY <1>1, <1>2, SocketAssumption DEF SocketInit, MaxBadSessionReconnects
  <2>4. QED
    BY <1>1, <2>1, <2>2, <2>3, GenerationFacts DEF SocketInit, SocketTypeOK
<1>4. Closing = {} /\ Uncleared \in SUBSET Reconnects /\ Connected \in SUBSET Reconnects
  BY <1>1 DEF SocketInit, Closing, Uncleared, Connected
<1>5. Cardinality(Closing) = 0 /\ IsFiniteSet(suspended)
  BY <1>1, <1>4, FS_EmptySet DEF SocketInit
<1>6. /\ Cardinality(Uncleared) \in Nat /\ Cardinality(Uncleared) <= Cardinality(Reconnects)
      /\ Cardinality(Connected) \in Nat
  BY <1>4, RequestCount
<1>7. CountInv
  BY <1>1, <1>2, <1>5, <1>6 DEF SocketInit, CountInv
<1>8. QED
  BY <1>3, <1>7 DEF TypesInv

\* A connect reads the credentials, fails, or makes its socket.
LEMMA ConnectTypes ==
    ASSUME TypesInv, NEW g \in Generations, AuthLoaded(g) \/ AuthFails(g) \/ SocketMade(g)
    PROVE  TypesInv'
<1>1. SocketTypeOK
  BY DEF TypesInv
<1>2. CountInv'
  <2>1. \A q \in Reconnects : reconnects'[q] = reconnects[q] \/ reconnects'[q] = "answered"
    BY <1>1 DEF AuthLoaded, AuthFails, SocketMade, SocketTypeOK
  <2>2. /\ UNCHANGED <<socketGeneration, session, reconnectTimer, suspended, closes>>
        /\ closes \in Nat
    BY <1>1, SocketAssumption DEF AuthLoaded, AuthFails, SocketMade, SocketTypeOK
  <2>3. QED
    BY <2>1, <2>2, CountKept DEF TypesInv, Connected, Uncleared
<1>3. connects' \in [Generations -> Connect]
  <2>1. CASE AuthLoaded(g)
    <3> DEFINE read == [connects EXCEPT ![g].step = "version"]
    <3>1. connects' = [read EXCEPT ![g].session = session]
      BY <2>1 DEF AuthLoaded
    <3>2. read \in [Generations -> Connect]
      BY <1>1 DEF SocketTypeOK, Connect
    <3> HIDE DEF read
    <3>3. QED
      BY <1>1, <3>1, <3>2 DEF SocketTypeOK, Connect
  <2>2. CASE AuthFails(g)
    BY <1>1, <2>2 DEF SocketTypeOK, Connect, AuthFails
  <2>3. CASE SocketMade(g)
    BY <1>1, <2>3 DEF SocketTypeOK, Connect, SocketMade
  <2>4. QED
    BY <2>1, <2>2, <2>3
<1>4. seen' \in [overlap : BOOLEAN, crossed : BOOLEAN, late : BOOLEAN, abandoned : BOOLEAN]
  <2>1. CASE AuthFails(g)
    <3> DEFINE b == seen.abandoned \/ g = socketGeneration
    <3>1. seen' = [seen EXCEPT !.abandoned = b] /\ b \in BOOLEAN
      BY <1>1, <2>1 DEF AuthFails, SocketTypeOK
    <3> HIDE DEF b
    <3>2. QED
      BY <1>1, <3>1 DEF SocketTypeOK
  <2>2. CASE AuthLoaded(g) \/ SocketMade(g)
    BY <1>1, <2>2 DEF AuthLoaded, SocketMade, SocketTypeOK
  <2>3. QED
    BY <2>1, <2>2
<1>5. SocketTypeOK'
  <2>1. CASE AuthLoaded(g)
    BY <1>1, <1>3, <1>4, <2>1 DEF SocketTypeOK, AuthLoaded, decisions
  <2>2. CASE AuthFails(g)
    BY <1>1, <1>3, <1>4, <2>2 DEF SocketTypeOK, AuthFails, decisions
  <2>3. CASE SocketMade(g)
    BY <1>1, <1>3, <1>4, <2>3 DEF SocketTypeOK, SocketMade, decisions
  <2>4. QED
    BY <2>1, <2>2, <2>3
<1>6. QED
  BY <1>2, <1>5 DEF TypesInv

\* What an update leaves has the types.
LEMMA UpdateTypes ==
    ASSUME SocketTypeOK, NEW g \in Generations, NEW update \in Update,
           NEW others \in [Generations -> {"none", "connecting", "open", "closed", "disposed"}],
           ProcessConnectionUpdate(g, update, others)
    PROVE  /\ sockets' \in [Generations -> {"none", "connecting", "open", "closed", "disposed"}]
           /\ currentSock' \in Generations \cup {NoSocket}
           /\ reconnectTimer' \in BOOLEAN /\ requiresReauth' \in BOOLEAN
           /\ badSessionRetryCountSinceOpen' \in 0..MaxBadSessionReconnects
           /\ update = "open" => reconnectTimer' = reconnectTimer
<1>1. sockets' \in [Generations -> {"none", "connecting", "open", "closed", "disposed"}]
  BY DEF ProcessConnectionUpdate
<1>2. currentSock' \in Generations \cup {NoSocket}
  BY DEF ProcessConnectionUpdate, CurrentAfter, SocketTypeOK
<1>3. reconnectTimer' \in BOOLEAN
  BY DEF ProcessConnectionUpdate, ScheduleReconnect, SocketTypeOK
<1>4. requiresReauth' \in BOOLEAN
  BY DEF ProcessConnectionUpdate
<1>5. badSessionRetryCountSinceOpen' \in 0..MaxBadSessionReconnects
  <2>1. badSessionRetryCountSinceOpen \in 0..1
    BY DEF SocketTypeOK, MaxBadSessionReconnects
  <2>2. badSessionRetryCountSinceOpen' \in {0, badSessionRetryCountSinceOpen} \/
        (badSessionRetryCountSinceOpen < 1 /\
         badSessionRetryCountSinceOpen' = badSessionRetryCountSinceOpen + 1)
    BY DEF ProcessConnectionUpdate, SoftRetry, MaxBadSessionReconnects
  <2>3. QED
    BY <2>1, <2>2 DEF MaxBadSessionReconnects
<1>6. update = "open" => reconnectTimer' = reconnectTimer
  BY DEF ProcessConnectionUpdate, ScheduleReconnect, ShouldReconnect, SoftRetry, SocketTypeOK
<1>7. QED
  BY <1>1, <1>2, <1>3, <1>4, <1>5, <1>6

\* An event is processed at once, has to wait, or is ignored.
LEMMA SocketEventTypes ==
    ASSUME TypesInv, NEW g \in Generations, SocketEvent(g)
    PROVE  TypesInv'
<1>1. SocketTypeOK /\ CountInv
  BY DEF TypesInv
<1>2. PICK update \in Update :
          /\ update # "open" => closes < MaxCloses
          /\ closes' = IF update = "open" THEN closes ELSE closes + 1
          /\ \/ ProcessConnectionUpdate(g, update, Happens(g, update)) /\ suspended' = suspended
             \/ /\ sockets' = Happens(g, update)
                /\ suspended' = suspended \cup {[socket |-> g, update |-> update]}
                /\ UNCHANGED <<currentSock, reconnectTimer, decisions>>
             \/ /\ sockets' = Happens(g, update) /\ suspended' = suspended
                /\ UNCHANGED <<currentSock, reconnectTimer, decisions>>
  BY DEF SocketEvent
<1>3. UNCHANGED <<socketGeneration, connects, session, reconnects, sendServer, process, seen>>
  BY DEF SocketEvent
<1>4. Happens(g, update) \in [Generations -> {"none", "connecting", "open", "closed", "disposed"}]
  BY <1>1 DEF Happens, SocketTypeOK
<1>5. /\ sockets' \in [Generations -> {"none", "connecting", "open", "closed", "disposed"}]
      /\ currentSock' \in Generations \cup {NoSocket}
      /\ reconnectTimer' \in BOOLEAN /\ requiresReauth' \in BOOLEAN
      /\ badSessionRetryCountSinceOpen' \in 0..MaxBadSessionReconnects
      /\ update = "open" => reconnectTimer' = reconnectTimer
  <2>1. CASE ProcessConnectionUpdate(g, update, Happens(g, update))
    BY <1>1, <1>4, <2>1, UpdateTypes
  <2>2. CASE sockets' = Happens(g, update) /\ UNCHANGED <<currentSock, reconnectTimer, decisions>>
    BY <1>1, <1>4, <2>2 DEF SocketTypeOK, decisions
  <2>3. QED
    BY <1>2, <2>1, <2>2
<1>6. closes' \in 0..MaxCloses /\ closes' \in Nat /\ closes \in Nat /\ closes' >= closes
  BY <1>1, <1>2, SocketAssumption DEF SocketTypeOK
<1>7. suspended' \subseteq [socket : Generations, update : Update]
  BY <1>1, <1>2 DEF SocketTypeOK
<1>8. SocketTypeOK'
  BY <1>1, <1>3, <1>5, <1>6, <1>7 DEF SocketTypeOK
<1>9. CountInv'
  <2> DEFINE x == [socket |-> g, update |-> update]
  <2>1. x.update = update
    OBVIOUS
  <2>2. CASE suspended' = suspended \cup {x} /\ reconnectTimer' = reconnectTimer
    <3> HIDE DEF x
    <3>1. QED
      BY <1>1, <1>2, <1>3, <1>6, <1>5, <2>1, <2>2, CountUpdate
  <2>3. CASE suspended' = suspended /\ update # "open"
    BY <1>1, <1>2, <1>3, <1>6, <1>5, <2>3, CountUpdate
  <2>4. CASE suspended' = suspended /\ update = "open"
    BY <1>1, <1>3, <1>6, <1>5, <2>4, CountKept DEF Connected, Uncleared
  <2>5. QED
    BY <1>2, <2>2, <2>3, <2>4
<1>10. QED
  BY <1>8, <1>9 DEF TypesInv

\* An update that waited is processed, or its handler fails.
LEMMA HandlerTypes ==
    ASSUME TypesInv, NEW s \in suspended, HandlerResumes(s) \/ HandlerFails(s)
    PROVE  TypesInv'
<1>1. SocketTypeOK /\ CountInv /\ closes \in Nat
  BY SocketAssumption DEF TypesInv, SocketTypeOK
<1>2. s.socket \in Generations /\ s.update \in Update
  BY <1>1 DEF SocketTypeOK
<1>3. suspended' = suspended \ {s} /\ UNCHANGED <<socketGeneration, session, reconnects, closes, connects, sendServer>>
  BY DEF HandlerResumes, HandlerFails
<1>4. CASE HandlerResumes(s)
  <2>1. ProcessConnectionUpdate(s.socket, s.update, sockets) /\ process' = process
    BY <1>4 DEF HandlerResumes
  <2>2. /\ sockets' \in [Generations -> {"none", "connecting", "open", "closed", "disposed"}]
        /\ currentSock' \in Generations \cup {NoSocket}
        /\ reconnectTimer' \in BOOLEAN /\ requiresReauth' \in BOOLEAN
        /\ badSessionRetryCountSinceOpen' \in 0..MaxBadSessionReconnects
        /\ s.update = "open" => reconnectTimer' = reconnectTimer
    BY <1>1, <1>2, <2>1, UpdateTypes DEF SocketTypeOK
  <2>3. seen' \in [overlap : BOOLEAN, crossed : BOOLEAN, late : BOOLEAN, abandoned : BOOLEAN]
    <3> DEFINE b == seen.late \/ IsLate(s)
    <3>1. seen' = [seen EXCEPT !.late = b] /\ b \in BOOLEAN
      BY <1>1, <1>4 DEF HandlerResumes, SocketTypeOK, IsLate
    <3> HIDE DEF b
    <3>2. QED
      BY <1>1, <3>1 DEF SocketTypeOK
  <2>4. SocketTypeOK'
    BY <1>1, <1>3, <2>1, <2>2, <2>3 DEF SocketTypeOK
  <2>5. CountInv'
    BY <1>1, <1>3, <2>2, CountUpdate
  <2>6. QED
    BY <2>4, <2>5 DEF TypesInv
<1>5. CASE HandlerFails(s)
  <2>1. SocketTypeOK'
    BY <1>1, <1>3, <1>5 DEF SocketTypeOK, HandlerFails, decisions
  <2>2. CountInv'
    BY <1>1, <1>3, <1>5, CountKept DEF HandlerFails, Connected, Uncleared
  <2>3. QED
    BY <2>1, <2>2 DEF TypesInv
<1>6. QED
  BY <1>4, <1>5

\* A connect begins: there is a generation left for it.
LEMMA ConnectBeginsTypes ==
    ASSUME TypesInv, NEW by \in {"start", "timer"} \cup Reconnects, ConnectBegins(by),
           UNCHANGED <<session, suspended, closes, sendServer, process, decisions>>,
           reconnectTimer' \in BOOLEAN,
           reconnects' \in [Reconnects -> {"none", "clear", "cleared", "save", "connect", "answered"}],
           \/ reconnectTimer /\ ~reconnectTimer' /\ reconnects' = reconnects
           \/ /\ reconnectTimer' = reconnectTimer
              /\ \E q \in Reconnects : /\ reconnects[q] \in {"cleared", "save"}
                                       /\ reconnects' = [reconnects EXCEPT ![q] = "connect"]
    PROVE  TypesInv'
<1>1. SocketTypeOK /\ CountInv
  BY DEF TypesInv
<1>2. CountInv' /\ socketGeneration' \in Generations
  BY <1>1, CountConnect DEF ConnectBegins
<1>3. connects' \in [Generations -> Connect]
  BY <1>1 DEF ConnectBegins, SocketTypeOK, Connect
<1>4. sockets' \in [Generations -> {"none", "connecting", "open", "closed", "disposed"}]
  BY <1>1 DEF ConnectBegins, SocketTypeOK, Dispose
<1>5. seen' \in [overlap : BOOLEAN, crossed : BOOLEAN, late : BOOLEAN, abandoned : BOOLEAN]
  <2> DEFINE b == seen.overlap \/ \E x \in Generations : Connecting(x)
             one == [seen EXCEPT !.overlap = b]
  <2>1. seen' = [one EXCEPT !.abandoned = FALSE] /\ b \in BOOLEAN
    BY <1>1 DEF ConnectBegins, SocketTypeOK
  <2>2. one \in [overlap : BOOLEAN, crossed : BOOLEAN, late : BOOLEAN, abandoned : BOOLEAN]
    <3> HIDE DEF b
    <3>1. QED
      BY <1>1, <2>1 DEF SocketTypeOK
  <2> HIDE DEF one
  <2>3. QED
    BY <2>1, <2>2
<1>6. SocketTypeOK'
  BY <1>1, <1>2, <1>3, <1>4, <1>5 DEF ConnectBegins, SocketTypeOK, decisions
<1>7. QED
  BY <1>2, <1>6 DEF TypesInv

\* The timer, and the requests of the operator.
LEMMA ReconnectTypes ==
    ASSUME TypesInv,
           ReconnectTimerFires \/ \E q \in Reconnects : ReconnectAsked(q) \/ AuthCleared(q)
                                                        \/ ReconnectGoesOn(q) \/ ReconnectFails(q)
    PROVE  TypesInv'
<1>1. SocketTypeOK /\ CountInv /\ closes \in Nat /\ session \in Nat
  BY SocketAssumption, RequestCount DEF TypesInv, SocketTypeOK
<1>2. CASE ReconnectTimerFires
  <2>1. /\ ConnectBegins("timer") /\ reconnectTimer /\ reconnectTimer' = FALSE
        /\ UNCHANGED <<session, suspended, closes, sendServer, process, decisions, reconnects>>
    BY <1>2 DEF ReconnectTimerFires
  <2>2. QED
    BY <1>1, <2>1, ConnectBeginsTypes DEF SocketTypeOK
<1>3. ASSUME NEW q \in Reconnects, ReconnectAsked(q) PROVE TypesInv'
  <2>1. /\ reconnects' \in [Reconnects -> {"none", "clear", "cleared", "save", "connect", "answered"}]
        /\ \A x \in Reconnects : x # q => reconnects'[x] = reconnects[x]
        /\ reconnects'[q] \in {"clear", "save"} /\ reconnects[q] = "none"
    BY <1>1, <1>3 DEF ReconnectAsked, SocketTypeOK
  <2>2. /\ UNCHANGED <<socketGeneration, session, suspended, closes, connects, sendServer, process, decisions>>
        /\ reconnectTimer' = FALSE /\ currentSock' = NoSocket
    BY <1>3 DEF ReconnectAsked
  <2>3. sockets' \in [Generations -> {"none", "connecting", "open", "closed", "disposed"}]
    BY <1>1, <1>3 DEF ReconnectAsked, SocketTypeOK, Dispose
  <2>4. seen' \in [overlap : BOOLEAN, crossed : BOOLEAN, late : BOOLEAN, abandoned : BOOLEAN]
    <3> DEFINE b == seen.crossed \/ ~ReconnectsAnswered \/ \E g \in Generations : Connecting(g)
    <3>1. seen' = [seen EXCEPT !.crossed = b] /\ b \in BOOLEAN
      BY <1>1, <1>3 DEF ReconnectAsked, SocketTypeOK
    <3> HIDE DEF b
    <3>2. QED
      BY <1>1, <3>1 DEF SocketTypeOK
  <2>5. SocketTypeOK'
    BY <1>1, <2>1, <2>2, <2>3, <2>4 DEF SocketTypeOK, decisions
  <2>6. CountInv'
    <3>1. UNCHANGED <<socketGeneration, session>> /\ (reconnectTimer' => reconnectTimer)
          /\ suspended' \subseteq suspended /\ closes' \in Nat /\ closes' >= closes
      BY <1>1, <2>2
    <3>2. QED
      BY <1>1, <2>1, <3>1, CountKept DEF Connected, Uncleared
  <2>7. QED
    BY <2>5, <2>6 DEF TypesInv
<1>4. ASSUME NEW q \in Reconnects, AuthCleared(q) PROVE TypesInv'
  <2>1. /\ reconnects[q] = "clear" /\ reconnects' = [reconnects EXCEPT ![q] = "cleared"]
        /\ session' = session + 1
        /\ UNCHANGED <<socketGeneration, connects, sockets, currentSock, reconnectTimer,
                       suspended, sendServer, process, closes, seen, decisions>>
    BY <1>4 DEF AuthCleared
  <2>2. Uncleared' = Uncleared \ {q} /\ q \in Uncleared /\ Connected' = Connected
    BY <1>1, <2>1 DEF Uncleared, Connected, SocketTypeOK
  <2>3. IsFiniteSet(Uncleared) /\ Cardinality(Reconnects) \in Nat
    BY RequestCount DEF Uncleared
  <2>4. Cardinality(Uncleared') \in Nat /\ Cardinality(Uncleared) = Cardinality(Uncleared') + 1
    BY <2>2, <2>3, OneLessCount
  <2>5. session + Cardinality(Uncleared) <= Cardinality(Reconnects)
    BY <1>1 DEF CountInv
  <2>6. /\ session' + Cardinality(Uncleared') <= Cardinality(Reconnects)
        /\ session' \in 0..Cardinality(Reconnects)
    BY <1>1, <2>1, <2>3, <2>4, <2>5
  <2>7. CountInv'
    BY <1>1, <2>1, <2>2, <2>6 DEF CountInv, Closing
  <2>8. SocketTypeOK'
    BY <1>1, <2>1, <2>6 DEF SocketTypeOK, decisions
  <2>9. QED
    BY <2>7, <2>8 DEF TypesInv
<1>5. ASSUME NEW q \in Reconnects, ReconnectGoesOn(q) PROVE TypesInv'
  <2>1. CASE ShuttingDown
    <3>1. /\ reconnects[q] \in {"cleared", "save"}
          /\ reconnects' = [reconnects EXCEPT ![q] = "answered"]
          /\ UNCHANGED <<socketGeneration, connects, sockets, currentSock, seen, session,
                         reconnectTimer, suspended, sendServer, process, closes, decisions>>
      BY <1>5, <2>1 DEF ReconnectGoesOn
    <3>2. CountInv'
      BY <1>1, <3>1, CountKept DEF SocketTypeOK, Connected, Uncleared
    <3>3. SocketTypeOK'
      BY <1>1, <3>1 DEF SocketTypeOK, decisions
    <3>4. QED
      BY <3>2, <3>3 DEF TypesInv
  <2>2. CASE ~ShuttingDown
    <3>1. /\ reconnects[q] \in {"cleared", "save"} /\ ConnectBegins(q)
          /\ reconnects' = [reconnects EXCEPT ![q] = "connect"]
          /\ UNCHANGED <<session, reconnectTimer, suspended, sendServer, process, closes, decisions>>
      BY <1>5, <2>2 DEF ReconnectGoesOn
    <3>2. reconnects' \in [Reconnects -> {"none", "clear", "cleared", "save", "connect", "answered"}]
          /\ reconnectTimer' \in BOOLEAN
      BY <1>1, <3>1 DEF SocketTypeOK
    <3>3. QED
      BY <3>1, <3>2, ConnectBeginsTypes
  <2>3. QED
    BY <2>1, <2>2
<1>6. ASSUME NEW q \in Reconnects, ReconnectFails(q) PROVE TypesInv'
  <2>1. /\ reconnects[q] \in {"clear", "save"}
        /\ reconnects' = [reconnects EXCEPT ![q] = "answered"]
        /\ seen' = [seen EXCEPT !.abandoned = TRUE]
        /\ UNCHANGED <<socketGeneration, connects, sockets, session, currentSock,
                       reconnectTimer, suspended, sendServer, process, closes, decisions>>
    BY <1>6 DEF ReconnectFails
  <2>2. CountInv'
    BY <1>1, <2>1, CountKept DEF SocketTypeOK, Connected, Uncleared
  <2>3. SocketTypeOK'
    BY <1>1, <2>1 DEF SocketTypeOK, decisions
  <2>4. QED
    BY <2>2, <2>3 DEF TypesInv
<1>7. QED
  BY <1>2, <1>3, <1>4, <1>5, <1>6

\* The shutdown.
LEMMA ShutdownTypes ==
    ASSUME TypesInv, Signal \/ BuffersFlushed \/ ServerClosed \/ Exit
    PROVE  TypesInv'
<1>1. SocketTypeOK /\ CountInv /\ closes \in Nat
  BY SocketAssumption DEF TypesInv, SocketTypeOK
<1>2. /\ UNCHANGED <<socketGeneration, session, closes, suspended, reconnects, connects, seen, decisions>>
      /\ reconnectTimer' \in BOOLEAN /\ (reconnectTimer' => reconnectTimer)
      /\ process' \in {"flushing", "closing", "saving", "exited"}
      /\ sendServer' \in BOOLEAN
  <2>1. CASE ServerClosed
    BY <1>1, <2>1 DEF ServerClosed, SocketTypeOK, decisions
  <2>2. CASE Signal
    BY <1>1, <2>2 DEF Signal, SocketTypeOK, decisions
  <2>3. CASE BuffersFlushed \/ Exit
    BY <1>1, <2>3 DEF BuffersFlushed, Exit, SocketTypeOK, decisions
  <2>4. QED
    BY <2>1, <2>2, <2>3
<1>3. /\ sockets' \in [Generations -> {"none", "connecting", "open", "closed", "disposed"}]
      /\ currentSock' \in Generations \cup {NoSocket}
  <2>1. CASE ServerClosed
    BY <1>1, <2>1 DEF ServerClosed, SocketTypeOK, Dispose
  <2>2. CASE Signal \/ BuffersFlushed \/ Exit
    BY <1>1, <2>2 DEF Signal, BuffersFlushed, Exit, SocketTypeOK
  <2>3. QED
    BY <2>1, <2>2
<1>4. CountInv'
  BY <1>1, <1>2, CountKept DEF Connected, Uncleared
<1>5. SocketTypeOK'
  BY <1>1, <1>2, <1>3 DEF SocketTypeOK, decisions
<1>6. QED
  BY <1>4, <1>5 DEF TypesInv

\* Every step of the sockets keeps the types and the count.
LEMMA SocketNextTypes == TypesInv /\ [SocketNext]_socketVars => TypesInv'
<1>1. SUFFICES ASSUME TypesInv, [SocketNext]_socketVars PROVE TypesInv'
  OBVIOUS
<1>2. CASE UNCHANGED socketVars
  <2>1. SocketTypeOK'
    BY <1>1, <1>2 DEF socketVars, TypesInv, SocketTypeOK
  <2>2. Connected' = Connected /\ Uncleared' = Uncleared /\ Closing' = Closing
    BY <1>2 DEF socketVars, Connected, Uncleared, Closing
  <2>3. CountInv'
    BY <1>1, <1>2, <2>2 DEF socketVars, TypesInv, CountInv
  <2>4. QED
    BY <2>1, <2>3 DEF TypesInv
<1>3. QED
  BY <1>1, <1>2, ConnectTypes, SocketEventTypes, HandlerTypes, ReconnectTypes, ShutdownTypes
     DEF SocketNext, BridgeRuns, Outside

-----------------------------------------------------------------------------
(***************************************************************************)
(* Deliveries are bounded by the attempts, by counting: an attempt begins  *)
(* with one call, and a call delivers at most once.                        *)
(***************************************************************************)
Sends == [part : 1..Parts, attempt : 1..SendAttempts,
          step : {"idle", "call", "wait", "sent", "failed"}]

\* The attempts of part p that have begun, when the backend is at s.
Begun(s, p) ==
    IF p < s.part THEN SendAttempts
    ELSE IF p > s.part THEN 0
    ELSE IF s.step \in {"idle", "call"} THEN s.attempt - 1 ELSE s.attempt

\* Calls that may still deliver.
Open(p) == {c \in calls : c.part = p /\ c.answer = "none"}

DeliveredInv ==
    IsFiniteSet(calls) /\ \A p \in 1..Parts : delivered[p] + Cardinality(Open(p)) <= Begun(send, p)

SendTypesInv == SendTypeOK /\ DeliveredInv

\* Where the backend can be after s: at the next step of the attempt, at the
\* next attempt of the part, or at the first attempt of the next part.
Onwards(s, t) ==
    \/ /\ t.part = s.part /\ t.attempt = s.attempt
       /\ t.step \in {"idle", "call"} => s.step \in {"idle", "call"}
    \/ t.part = s.part /\ t.attempt = s.attempt + 1
    \/ t.part = s.part + 1

\* Attempts that have begun are never taken back.
LEMMA BegunGrows ==
    ASSUME NEW s \in Sends, NEW t \in Sends, Onwards(s, t), NEW p \in 1..Parts
    PROVE  /\ Begun(s, p) \in 0..SendAttempts /\ Begun(t, p) \in 0..SendAttempts
           /\ Begun(s, p) <= Begun(t, p)
<1>1. /\ s.part \in 1..Parts /\ t.part \in 1..Parts /\ SendAttempts \in Nat /\ SendAttempts >= 1
      /\ s.attempt \in 1..SendAttempts /\ t.attempt \in 1..SendAttempts
  BY SendAssumption DEF Sends
<1>2. Begun(s, p) \in 0..SendAttempts /\ Begun(t, p) \in 0..SendAttempts
  BY <1>1, SendAssumption DEF Begun
<1>3. CASE p < s.part
  <2>1. p < t.part
    BY <1>1, <1>3, SendAssumption DEF Onwards
  <2>2. QED
    BY <1>1, <1>2, <1>3, <2>1 DEF Begun
<1>4. CASE p > s.part
  BY <1>1, <1>2, <1>4, SendAssumption DEF Begun
<1>5. CASE p = s.part
  BY <1>1, <1>2, <1>5, SendAssumption DEF Begun, Onwards
<1>6. QED
  BY <1>1, <1>2, <1>3, <1>4, <1>5, SendAssumption

\* The next attempt is of the same part.
LEMMA NextAttemptOnwards ==
    ASSUME SendTypeOK
    PROVE  /\ NextAttempt \in Sends /\ NextAttempt.part = send.part
           /\ \/ NextAttempt.step = "call" /\ NextAttempt.attempt = send.attempt + 1
              \/ NextAttempt.step = "failed" /\ NextAttempt.attempt = send.attempt
           /\ Onwards(send, NextAttempt)
<1>1. send \in Sends /\ send.part \in 1..Parts /\ send.attempt \in 1..SendAttempts
  BY DEF SendTypeOK, Sends
<1>2. CASE send.attempt < SendAttempts
  <2> DEFINE later == [send EXCEPT !.attempt = @ + 1]
  <2>1. later \in Sends /\ later.part = send.part /\ later.attempt = send.attempt + 1
    BY <1>1, <1>2, SendAssumption DEF Sends
  <2>2. NextAttempt = [later EXCEPT !.step = "call"]
    BY <1>2 DEF NextAttempt
  <2> HIDE DEF later
  <2>3. /\ NextAttempt \in Sends /\ NextAttempt.part = send.part
        /\ NextAttempt.step = "call" /\ NextAttempt.attempt = send.attempt + 1
    BY <2>1, <2>2 DEF Sends
  <2>4. QED
    BY <2>3 DEF Onwards
<1>3. CASE ~(send.attempt < SendAttempts)
  BY <1>1, <1>3 DEF NextAttempt, Sends, Onwards
<1>4. QED
  BY <1>2, <1>3

\* The next part begins with its first attempt.
LEMMA NextPartOnwards ==
    ASSUME SendTypeOK, send.step \notin {"idle", "call"}
    PROVE  /\ NextPart \in Sends
           /\ \/ NextPart.step = "call" /\ NextPart.part = send.part + 1
              \/ /\ NextPart.step = "sent" /\ NextPart.part = send.part
                 /\ NextPart.attempt = send.attempt
           /\ Onwards(send, NextPart)
<1>1. send \in Sends /\ send.part \in 1..Parts /\ 1 \in 1..SendAttempts
  BY SendAssumption DEF SendTypeOK, Sends
<1>2. CASE send.part < Parts
  <2>1. NextPart = [part |-> send.part + 1, attempt |-> 1, step |-> "call"]
    BY <1>2 DEF NextPart
  <2>2. send.part + 1 \in 1..Parts
    BY <1>1, <1>2, SendAssumption
  <2>3. QED
    BY <1>1, <2>1, <2>2 DEF Sends, Onwards
<1>3. CASE ~(send.part < Parts)
  BY <1>1, <1>3 DEF NextPart, Sends, Onwards
<1>4. QED
  BY <1>2, <1>3

\* Steps that go on, deliver nothing, and leave no new call to deliver.
LEMMA DeliveredKept ==
    ASSUME SendTypesInv, send' \in Sends, Onwards(send, send'), delivered' = delivered,
           IsFiniteSet(calls'),
           \A p \in 1..Parts : Open(p)' \subseteq Open(p)
    PROVE  DeliveredInv'
<1>1. SUFFICES ASSUME NEW p \in 1..Parts
               PROVE  delivered'[p] + Cardinality(Open(p)') <= Begun(send', p)
  BY DEF DeliveredInv
<1>2. IsFiniteSet(Open(p)) /\ Cardinality(Open(p)) \in Nat
  BY FewerCount DEF SendTypesInv, DeliveredInv, Open
<1>3. Cardinality(Open(p)') \in Nat /\ Cardinality(Open(p)') <= Cardinality(Open(p))
  BY <1>2, FewerCount
<1>4. /\ Begun(send, p) \in 0..SendAttempts /\ Begun(send', p) \in 0..SendAttempts
      /\ Begun(send, p) <= Begun(send', p)
  BY BegunGrows DEF SendTypesInv, SendTypeOK, Sends
<1>5. delivered[p] \in 0..SendAttempts /\ delivered[p] + Cardinality(Open(p)) <= Begun(send, p)
  BY DEF SendTypesInv, SendTypeOK, DeliveredInv
<1> DEFINE a == Cardinality(Open(p)) b == Cardinality(Open(p)') c == Begun(send, p)
           d == Begun(send', p)
<1>6. /\ a \in Nat /\ b \in Nat /\ c \in Nat /\ d \in Nat /\ delivered[p] \in Nat
      /\ b <= a /\ c <= d /\ delivered[p] + a <= c
  BY <1>2, <1>3, <1>4, <1>5, SendAssumption
<1> HIDE DEF a, b, c, d
<1>7. delivered[p] + b <= d
  BY <1>6
<1>8. QED
  BY <1>7 DEF b, d

\* What the steps of the sockets and of the backend may change of a reply.
LEMMA ReplyStepTypes ==
    ASSUME SendTypesInv, send' \in Sends, Onwards(send, send'), delivered' = delivered,
           calls' \subseteq calls, unheard' \in [1..Parts -> BOOLEAN], losses' \in 0..MaxLosses
    PROVE  SendTypesInv'
<1>1. IsFiniteSet(calls')
  BY FewerCount DEF SendTypesInv, DeliveredInv
<1>2. \A p \in 1..Parts : Open(p)' \subseteq Open(p)
  BY DEF Open
<1>3. DeliveredInv'
  BY <1>1, <1>2, DeliveredKept
<1>4. SendTypeOK'
  BY DEF SendTypesInv, SendTypeOK, Sends
<1>5. QED
  BY <1>3, <1>4 DEF SendTypesInv

\* A call arrives: one more that may deliver, for an attempt that now begins.
LEMMA SendArrivesTypes ==
    ASSUME SendTypesInv, currentSock \in Generations \cup {NoSocket}, SendArrives
    PROVE  SendTypesInv'
<1>1. SendTypeOK /\ DeliveredInv /\ send.part \in 1..Parts /\ send.attempt \in 1..SendAttempts
  BY DEF SendTypesInv, SendTypeOK
<1>2. PICK answer \in {"rejected", "retryable", "none"} :
          calls' = calls \cup {[part |-> send.part, attempt |-> send.attempt,
                                sock |-> currentSock, answer |-> answer]}
  BY DEF SendArrives
<1> DEFINE new == [part |-> send.part, attempt |-> send.attempt, sock |-> currentSock,
                   answer |-> answer]
<1>3. /\ new \in [part : 1..Parts, attempt : 1..SendAttempts, sock : Generations \cup {NoSocket},
                  answer : Answer \cup {"none"}]
      /\ new.part = send.part /\ calls' = calls \cup {new}
  BY <1>1, <1>2 DEF Answer
<1> HIDE DEF new
<1>4. /\ send.step = "call" /\ send' = [send EXCEPT !.step = "wait"] /\ delivered' = delivered
      /\ UNCHANGED <<unheard, losses>>
  BY DEF SendArrives
<1>5. /\ send' \in Sends /\ send'.part = send.part /\ send'.attempt = send.attempt
      /\ send'.step = "wait" /\ Onwards(send, send') /\ send \in Sends
  BY <1>1, <1>4 DEF SendTypeOK, Sends, Onwards
<1>6. IsFiniteSet(calls')
  BY <1>1, <1>3, OneMoreCount DEF DeliveredInv
<1>7. ASSUME NEW p \in 1..Parts
      PROVE  delivered'[p] + Cardinality(Open(p)') <= Begun(send', p)
  <2>1. /\ IsFiniteSet(Open(p)) /\ Cardinality(Open(p)) \in Nat
        /\ IsFiniteSet(Open(p)') /\ Cardinality(Open(p)') \in Nat
    BY <1>1, <1>6, FewerCount DEF DeliveredInv, Open
  <2>2. /\ Begun(send, p) \in 0..SendAttempts /\ Begun(send', p) \in 0..SendAttempts
        /\ Begun(send, p) <= Begun(send', p)
    BY <1>5, BegunGrows
  <2>3. p = send.part => Begun(send', p) = Begun(send, p) + 1
    BY <1>1, <1>4, <1>5, SendAssumption DEF Begun
  <2>4. p # send.part => Open(p)' = Open(p)
    BY <1>3 DEF Open
  <2>5. Cardinality(Open(p)') <= Cardinality(Open(p)) + 1
    <3>1. Open(p)' \in SUBSET (Open(p) \cup {new})
      BY <1>3 DEF Open
    <3>2. /\ IsFiniteSet(Open(p) \cup {new}) /\ Cardinality(Open(p) \cup {new}) \in Nat
          /\ Cardinality(Open(p) \cup {new}) <= Cardinality(Open(p)) + 1
      BY <2>1, OneMoreCount
    <3>3. Cardinality(Open(p)') <= Cardinality(Open(p) \cup {new})
      BY <3>1, <3>2, FewerCount
    <3> DEFINE a == Cardinality(Open(p)) b == Cardinality(Open(p)')
               c == Cardinality(Open(p) \cup {new})
    <3>4. a \in Nat /\ b \in Nat /\ c \in Nat /\ b <= c /\ c <= a + 1
      BY <2>1, <3>2, <3>3
    <3> HIDE DEF a, b, c
    <3>5. b <= a + 1
      BY <3>4
    <3>6. QED
      BY <3>5 DEF a, b
  <2>6. delivered[p] \in Nat /\ delivered[p] + Cardinality(Open(p)) <= Begun(send, p)
    BY <1>1, SendAssumption DEF SendTypeOK, DeliveredInv
  <2> DEFINE a == Cardinality(Open(p)) b == Cardinality(Open(p)') c == Begun(send, p)
             d == Begun(send', p)
  <2>7. /\ a \in Nat /\ b \in Nat /\ c \in Nat /\ d \in Nat /\ delivered[p] + a <= c
        /\ b <= a + 1 /\ c <= d
    BY <2>1, <2>2, <2>5, <2>6, SendAssumption
  <2>8. d = c + 1 \/ b = a
    BY <2>3, <2>4
  <2> HIDE DEF a, b, c, d
  <2>9. delivered[p] + b <= d
    BY <2>6, <2>7, <2>8
  <2>10. QED
    BY <1>4, <2>9 DEF b, d
<1>8. SendTypeOK'
  BY <1>1, <1>3, <1>4, <1>5 DEF SendTypeOK, Sends
<1>9. QED
  BY <1>6, <1>7, <1>8 DEF SendTypesInv, DeliveredInv

\* A call that is answered can no longer deliver.
LEMMA AnsweredOpen ==
    ASSUME SendTypeOK, NEW call \in calls, NEW answer \in Answer, calls' = Answered(call, answer)
    PROVE  /\ calls' \subseteq [part : 1..Parts, attempt : 1..SendAttempts,
                                sock : Generations \cup {NoSocket}, answer : Answer \cup {"none"}]
           /\ \A p \in 1..Parts : Open(p)' = Open(p) \ {call}
           /\ IsFiniteSet(calls) => IsFiniteSet(calls')
<1> DEFINE new == [call EXCEPT !.answer = answer]
<1>1. /\ new \in [part : 1..Parts, attempt : 1..SendAttempts,
                  sock : Generations \cup {NoSocket}, answer : Answer \cup {"none"}]
      /\ new.part = call.part /\ new.answer = answer /\ answer # "none"
  BY DEF SendTypeOK, Answer
<1>2. calls' = (calls \ {call}) \cup {new} \/ calls' = calls \ {call}
  BY DEF Answered
<1> HIDE DEF new
<1>3. \A p \in 1..Parts : Open(p)' = Open(p) \ {call}
  BY <1>1, <1>2 DEF Open
<1>4. IsFiniteSet(calls) => IsFiniteSet(calls')
  BY <1>2, OneMoreCount, FewerCount
<1>5. QED
  BY <1>1, <1>2, <1>3, <1>4 DEF SendTypeOK

\* A delivery takes the place of the call that could deliver.
LEMMA DeliverTypes ==
    ASSUME SendTypesInv, NEW call \in calls, Deliver(call)
    PROVE  SendTypesInv'
<1>1. SendTypeOK /\ DeliveredInv /\ call.part \in 1..Parts
  BY DEF SendTypesInv, SendTypeOK
<1>2. /\ delivered' = [delivered EXCEPT ![call.part] = @ + 1]
      /\ call.answer = "none" /\ UNCHANGED <<send, losses>>
      /\ unheard' \in {unheard, [unheard EXCEPT ![call.part] = TRUE]}
  BY DEF Deliver
<1>3. PICK answer \in Answer : calls' = Answered(call, answer)
  BY DEF Deliver, Answer
<1>4. /\ calls' \subseteq [part : 1..Parts, attempt : 1..SendAttempts,
                           sock : Generations \cup {NoSocket}, answer : Answer \cup {"none"}]
      /\ \A p \in 1..Parts : Open(p)' = Open(p) \ {call}
      /\ IsFiniteSet(calls')
  BY <1>1, <1>3, AnsweredOpen DEF DeliveredInv
<1>5. ASSUME NEW p \in 1..Parts
      PROVE  /\ delivered'[p] \in 0..SendAttempts
             /\ delivered'[p] + Cardinality(Open(p)') <= Begun(send', p)
  <2> DEFINE a == Cardinality(Open(p)) b == Cardinality(Open(p)') c == Begun(send, p)
             k == delivered[p] l == delivered'[p]
  <2>1. IsFiniteSet(Open(p)) /\ a \in Nat /\ b \in Nat
    BY <1>1, <1>4, FewerCount DEF DeliveredInv, Open
  <2>2. k \in Nat /\ k + a <= c
    BY <1>1, SendAssumption DEF SendTypeOK, DeliveredInv
  <2>3. c \in 0..SendAttempts
    <3>1. Onwards(send, send)
      BY DEF Onwards
    <3>2. QED
      BY <1>1, <3>1, BegunGrows DEF SendTypeOK, Sends
  <2>4. CASE p = call.part
    <3>1. call \in Open(p) /\ l = k + 1
      BY <1>1, <1>2, <2>4 DEF Open, SendTypeOK
    <3>2. a = b + 1
      BY <1>4, <2>1, <3>1, OneLessCount
    <3> HIDE DEF a, b, c, k, l
    <3>3. l \in 0..SendAttempts /\ l + b <= c
      BY <2>1, <2>2, <2>3, <3>1, <3>2, SendAssumption
    <3>4. QED
      BY <1>2, <3>3 DEF b, c, l
  <2>5. CASE p # call.part
    <3>1. a = b /\ l = k
      BY <1>1, <1>2, <1>4, <2>5 DEF Open, SendTypeOK
    <3>2. l \in 0..SendAttempts /\ l + b <= c
      BY <1>1, <2>2, <3>1 DEF SendTypeOK
    <3>3. QED
      BY <1>2, <3>2
  <2>6. QED
    BY <2>4, <2>5
<1>6. delivered' \in [1..Parts -> 0..SendAttempts]
  BY <1>1, <1>2, <1>5 DEF SendTypeOK
<1>7. QED
  BY <1>1, <1>2, <1>4, <1>5, <1>6 DEF SendTypesInv, SendTypeOK, DeliveredInv

\* Every step keeps the types of the reply, and the count of its deliveries.
LEMMA SendNextTypes ==
    ASSUME SendTypesInv, currentSock \in Generations \cup {NoSocket}, [Next]_vars
    PROVE  SendTypesInv'
<1>1. SendTypeOK /\ DeliveredInv /\ send \in Sends
  BY DEF SendTypesInv, SendTypeOK, Sends
<1>2. CASE Beside(BridgeRuns) \/ Beside(Outside) \/ UNCHANGED vars
  <2>1. /\ UNCHANGED <<send, delivered, unheard, losses>> /\ calls' \subseteq calls
        /\ Onwards(send, send)
    BY <1>2 DEF Beside, vars, sendVars, Onwards
  <2>2. QED
    BY <1>1, <2>1, ReplyStepTypes DEF SendTypeOK
<1>3. CASE ReplyBegins
  <2>1. /\ send' = [send EXCEPT !.step = "call"] /\ send.step = "idle"
        /\ UNCHANGED <<calls, delivered, unheard, losses>>
    BY <1>3 DEF ReplyBegins
  <2>2. send' \in Sends /\ Onwards(send, send')
    BY <1>1, <2>1 DEF Sends, Onwards
  <2>3. QED
    BY <1>1, <2>1, <2>2, ReplyStepTypes DEF SendTypeOK
<1>4. CASE ConnectionRefused \/ LoseBridge
  <2>1. /\ send' = NextAttempt /\ UNCHANGED <<calls, delivered, losses>>
        /\ unheard' \in {unheard, [unheard EXCEPT ![send.part] = TRUE]}
    BY <1>4 DEF ConnectionRefused, LoseBridge
  <2>2. QED
    BY <1>1, <2>1, NextAttemptOnwards, ReplyStepTypes DEF SendTypeOK
<1>5. ASSUME NEW call \in calls, LoseCall(call) PROVE SendTypesInv'
  <2>1. /\ send' = NextAttempt /\ delivered' = delivered /\ calls' \subseteq calls
        /\ unheard' = [unheard EXCEPT ![call.part] = TRUE]
        /\ losses' = losses + 1 /\ losses < MaxLosses
    BY <1>5 DEF LoseCall
  <2>2. losses' \in 0..MaxLosses /\ unheard' \in [1..Parts -> BOOLEAN]
    BY <1>1, <2>1, SendAssumption DEF SendTypeOK
  <2>3. QED
    BY <1>1, <2>1, <2>2, NextAttemptOnwards, ReplyStepTypes
<1>6. ASSUME NEW call \in calls, HearAnswer(call) PROVE SendTypesInv'
  <2>1. /\ calls' \subseteq calls /\ UNCHANGED <<delivered, unheard, losses>>
        /\ send.step = "wait"
    BY <1>6 DEF HearAnswer, IsCurrent
  <2>2. send' \in {NextPart, NextAttempt, [send EXCEPT !.step = "failed"]}
    BY <1>1, <1>6 DEF HearAnswer, SendTypeOK, Answer
  <2>3. send' \in Sends /\ Onwards(send, send')
    <3>1. CASE send' = NextPart
      BY <1>1, <2>1, <3>1, NextPartOnwards
    <3>2. CASE send' = NextAttempt
      BY <1>1, <3>2, NextAttemptOnwards
    <3>3. CASE send' = [send EXCEPT !.step = "failed"]
      BY <1>1, <3>3 DEF Sends, Onwards
    <3>4. QED
      BY <2>2, <3>1, <3>2, <3>3
  <2>4. QED
    BY <1>1, <2>1, <2>3, ReplyStepTypes DEF SendTypeOK
<1>7. ASSUME NEW call \in calls, SendThrows(call) PROVE SendTypesInv'
  <2>1. calls' = Answered(call, "retryable") /\ UNCHANGED <<send, delivered, unheard, losses>>
    BY <1>7 DEF SendThrows
  <2>2. /\ calls' \subseteq [part : 1..Parts, attempt : 1..SendAttempts,
                             sock : Generations \cup {NoSocket}, answer : Answer \cup {"none"}]
        /\ \A p \in 1..Parts : Open(p)' \subseteq Open(p)
        /\ IsFiniteSet(calls')
    BY <1>1, <2>1, AnsweredOpen DEF DeliveredInv, Answer
  <2>3. Onwards(send, send)
    BY DEF Onwards
  <2>4. DeliveredInv'
    BY <1>1, <2>1, <2>2, <2>3, DeliveredKept
  <2>5. QED
    BY <1>1, <2>1, <2>2, <2>4 DEF SendTypesInv, SendTypeOK
<1>8. QED
  BY <1>2, <1>3, <1>4, <1>5, <1>6, <1>7, SendArrivesTypes, DeliverTypes DEF Next, SendRuns

\* The types hold at the start and are kept, those of the sockets and of the reply.
LEMMA TypesInit == Init => TypesInv /\ SendTypesInv
<1>1. SUFFICES ASSUME SendInit PROVE SendTypesInv
  BY InitTypes DEF Init
<1>2. SendTypeOK
  BY <1>1, SendAssumption DEF SendInit, SendTypeOK
<1>3. send = [part |-> 1, attempt |-> 1, step |-> "idle"] /\ calls = {}
  BY <1>1 DEF SendInit
<1>4. ASSUME NEW p \in 1..Parts
      PROVE  delivered[p] = 0 /\ Open(p) = {} /\ Begun(send, p) = 0
  BY <1>1, <1>3, <1>4, SendAssumption DEF SendInit, Open, Begun
<1>5. QED
  BY <1>2, <1>3, <1>4, FS_EmptySet DEF SendTypesInv, DeliveredInv

\* Every step of the whole keeps them.
LEMMA TypesNext == TypesInv /\ SendTypesInv /\ [Next]_vars => TypesInv' /\ SendTypesInv'
  BY SendNextTypes, SocketNextTypes, SocketsInComposition DEF TypesInv, SocketTypeOK

\* Sockets, requests and calls have the types the model gives them: at most one
\* connect for each close and each request, and at most one delivery of a part
\* for each attempt, for any number of them (connectSocket, _send_action).
THEOREM TypeCorrect == Spec => []TypeOK
<1>1. TypesInv /\ SendTypesInv => TypeOK
  BY DEF TypesInv, SendTypesInv, TypeOK
<1>2. QED
  BY <1>1, TypesInit, TypesNext, PTL DEF Spec

-----------------------------------------------------------------------------
(***************************************************************************)
(* Deliveries and what the backend hears of them.                          *)
(***************************************************************************)

\* Every call is an attempt of its own, and of one that was made.
OneCallEach ==
    /\ \A c, d \in calls : c.part = d.part /\ c.attempt = d.attempt => c = d
    /\ \A c \in calls : c.part = send.part =>
           /\ c.attempt <= send.attempt
           /\ c.attempt = send.attempt => send.step \notin {"idle", "call"}

\* A part of which nothing was lost has no call that can still deliver but the
\* one that is waited for, and it is delivered only if that call says so, or
\* once the backend has gone on from it.
HeardOf(p) ==
    /\ delivered[p] <= 1
    /\ p = send.part /\ send.step \in {"idle", "call"} => delivered[p] = 0
    /\ \A c \in calls : c.part = p =>
           /\ c.answer = "none" => IsCurrent(c)
           /\ IsCurrent(c) /\ c.answer # "ok" => delivered[p] = 0

HeardInv == OneCallEach /\ \A p \in 1..Parts : ~unheard[p] => HeardOf(p)

\* The first two bring the types and the order of parts.
ReplyInv == SendTypeOK /\ ConfirmedBefore /\ HeardInv

\* The backend goes on from an attempt without a word of its call, or without one.
LEMMA GoesOnUnheard ==
    ASSUME ReplyInv, send' = NextAttempt, delivered' = delivered, calls' \subseteq calls,
           send.step \in {"call", "wait"},
           \A p \in 1..Parts : ~unheard'[p] => ~unheard[p],
           ~unheard'[send.part] =>
               /\ delivered[send.part] = 0
               /\ \A c \in calls' : c.part = send.part => c.answer # "none"
    PROVE  HeardInv'
<1>1. SendTypeOK /\ OneCallEach /\ \A p \in 1..Parts : ~unheard[p] => HeardOf(p)
  BY DEF ReplyInv, HeardInv
<1>2. /\ send'.part = send.part
      /\ \/ send'.step = "call" /\ send'.attempt = send.attempt + 1
         \/ send'.step = "failed" /\ send'.attempt = send.attempt
      /\ send.part \in 1..Parts /\ send.attempt \in Nat
      /\ \A c \in calls : c.part \in 1..Parts /\ c.attempt \in Nat
  BY <1>1, NextAttemptOnwards, SendAssumption DEF SendTypeOK
<1>3. OneCallEach'
  <2>1. ASSUME NEW c \in calls', c.part = send'.part
        PROVE  c.attempt <= send'.attempt /\ (c.attempt = send'.attempt => send'.step \notin {"idle", "call"})
    <3>1. c \in calls /\ c.part = send.part
      BY <1>2, <2>1
    <3>2. c.attempt <= send.attempt /\ c.attempt \in Nat
      BY <1>1, <1>2, <3>1 DEF OneCallEach
    <3>3. QED
      BY <1>2, <3>2
  <2>2. QED
    BY <1>1, <2>1 DEF OneCallEach
<1>4. \A c \in calls' : ~IsCurrent(c)'
  BY <1>2 DEF IsCurrent
<1>5. ASSUME NEW p \in 1..Parts, ~unheard'[p] PROVE HeardOf(p)'
  <2>1. HeardOf(p)
    BY <1>1, <1>5
  <2>2. CASE p = send.part
    BY <1>2, <1>4, <1>5, <2>1, <2>2 DEF HeardOf
  <2>3. CASE p # send.part
    <3>1. \A c \in calls' : c.part = p => c.answer # "none"
      BY <2>1, <2>3 DEF HeardOf, IsCurrent
    <3>2. QED
      BY <1>2, <1>4, <2>1, <2>3, <3>1 DEF HeardOf
  <2>4. QED
    BY <2>2, <2>3
<1>6. QED
  BY <1>3, <1>5 DEF HeardInv

\* The call of the attempt is made.
LEMMA SendArrivesHeard ==
    ASSUME ReplyInv, SendArrives
    PROVE  HeardInv'
<1>1. SendTypeOK /\ OneCallEach /\ \A p \in 1..Parts : ~unheard[p] => HeardOf(p)
  BY DEF ReplyInv, HeardInv
<1>2. PICK answer \in {"rejected", "retryable", "none"} :
          calls' = calls \cup {[part |-> send.part, attempt |-> send.attempt,
                                sock |-> currentSock, answer |-> answer]}
  BY DEF SendArrives
<1>3. PICK new : new.part = send.part /\ new.attempt = send.attempt /\ new.answer # "ok"
                 /\ calls' = calls \cup {new}
  BY <1>2
<1>4. /\ send.step = "call" /\ UNCHANGED <<delivered, unheard>>
      /\ send' = [send EXCEPT !.step = "wait"]
  BY DEF SendArrives
<1>5. /\ send'.part = send.part /\ send'.attempt = send.attempt /\ send'.step = "wait"
      /\ send.part \in 1..Parts /\ send.attempt \in Nat
  BY <1>1, <1>4, SendAssumption DEF SendTypeOK
<1>6. \A c \in calls : c.part = send.part => c.attempt # send.attempt /\ c.attempt <= send.attempt
  BY <1>1, <1>4 DEF OneCallEach
<1>7. OneCallEach'
  <2>1. \A c, d \in calls' : c.part = d.part /\ c.attempt = d.attempt => c = d
    BY <1>1, <1>3, <1>6 DEF OneCallEach
  <2>2. \A c \in calls' : c.part = send'.part => c.attempt <= send'.attempt
    BY <1>3, <1>5, <1>6
  <2>3. QED
    BY <1>5, <2>1, <2>2 DEF OneCallEach
<1>8. \A c \in calls : ~IsCurrent(c) /\ ~IsCurrent(c)'
  BY <1>4, <1>5, <1>6 DEF IsCurrent
<1>9. IsCurrent(new)'
  BY <1>3, <1>5 DEF IsCurrent
<1>10. ASSUME NEW p \in 1..Parts, ~unheard'[p] PROVE HeardOf(p)'
  <2>1. HeardOf(p) /\ delivered' = delivered
    BY <1>1, <1>4, <1>10
  <2>2. p = send.part => delivered[p] = 0
    BY <1>4, <2>1 DEF HeardOf
  <2>3. ASSUME NEW c \in calls', c.part = p
        PROVE  /\ c.answer = "none" => IsCurrent(c)'
               /\ IsCurrent(c)' /\ c.answer # "ok" => delivered'[p] = 0
    <3>1. CASE c \in calls
      BY <1>8, <2>1, <2>3, <3>1 DEF HeardOf
    <3>2. CASE c = new
      BY <1>3, <1>9, <2>1, <2>2, <2>3, <3>2
    <3>3. QED
      BY <1>3, <3>1, <3>2
  <2>4. QED
    BY <1>5, <2>1, <2>3 DEF HeardOf
<1>11. QED
  BY <1>7, <1>10 DEF HeardInv

\* A call ends, with or without a delivery.
LEMMA AnsweredHeard ==
    ASSUME ReplyInv, NEW call \in calls, call.answer = "none", NEW answer \in Answer,
           calls' = Answered(call, answer), send' = send,
           delivered' \in [1..Parts -> 0..SendAttempts],
           \A p \in 1..Parts : p # call.part => delivered'[p] = delivered[p],
           \A p \in 1..Parts : ~unheard'[p] => ~unheard[p],
           \/ delivered' = delivered /\ answer # "ok"
           \/ unheard'[call.part]
           \/ answer = "ok" /\ delivered'[call.part] = delivered[call.part] + 1
    PROVE  HeardInv'
<1>1. SendTypeOK /\ OneCallEach /\ \A p \in 1..Parts : ~unheard[p] => HeardOf(p)
  BY DEF ReplyInv, HeardInv
<1> DEFINE new == [call EXCEPT !.answer = answer]
<1>2. /\ new.part = call.part /\ new.attempt = call.attempt /\ new.answer = answer
      /\ answer # "none" /\ call.part \in 1..Parts
  BY <1>1 DEF SendTypeOK, Answer
<1>3. calls' = (calls \ {call}) \cup {new} \/ calls' = calls \ {call}
  BY DEF Answered
<1> HIDE DEF new
<1>4. OneCallEach'
  <2>1. \A c, d \in calls' : c.part = d.part /\ c.attempt = d.attempt => c = d
    BY <1>1, <1>2, <1>3 DEF OneCallEach
  <2>2. \A c \in calls' : \E d \in calls : c.part = d.part /\ c.attempt = d.attempt
    BY <1>2, <1>3
  <2>3. QED
    BY <1>1, <2>1, <2>2 DEF OneCallEach
<1>5. \A c \in calls' : IsCurrent(c)' = IsCurrent(c)
  BY DEF IsCurrent
<1>6. IsCurrent(new) = IsCurrent(call)
  BY <1>2 DEF IsCurrent
<1>7. ASSUME NEW p \in 1..Parts, ~unheard'[p] PROVE HeardOf(p)'
  <2>1. HeardOf(p)
    BY <1>1, <1>7
  <2>2. CASE p # call.part
    <3>1. \A c \in calls' : c.part = p => c \in calls
      BY <1>2, <1>3, <2>2
    <3>2. delivered'[p] = delivered[p]
      BY <2>2
    <3>3. QED
      BY <1>5, <2>1, <3>1, <3>2 DEF HeardOf
  <2>3. CASE p = call.part
    <3>1. IsCurrent(call) /\ delivered[p] = 0
      BY <2>1, <2>3 DEF HeardOf
    <3>2. send.step = "wait"
      BY <3>1 DEF IsCurrent
    <3>3. delivered'[p] <= 1 /\ (answer # "ok" => delivered'[p] = 0)
      <4> DEFINE k == delivered[p] l == delivered'[p]
      <4>1. k = 0 /\ ((l = k /\ answer # "ok") \/ (l = k + 1 /\ answer = "ok"))
        BY <1>7, <2>3, <3>1
      <4> HIDE DEF k, l
      <4>2. l <= 1 /\ (answer # "ok" => l = 0)
        BY <4>1
      <4>3. QED
        BY <4>2 DEF l
    <3>4. \A c \in calls : c.part = p /\ IsCurrent(c) => c = call
      BY <1>1, <3>1 DEF IsCurrent, OneCallEach
    <3>5. \A c \in calls' : c.part = p =>
             /\ c.answer # "none"
             /\ IsCurrent(c) => c = new
      BY <1>2, <1>3, <2>1, <3>4 DEF HeardOf
    <3>6. QED
      BY <1>2, <1>5, <3>2, <3>3, <3>5 DEF HeardOf
  <2>4. QED
    BY <2>2, <2>3
<1>8. QED
  BY <1>4, <1>7 DEF HeardInv

\* The backend hears that the part went out, and goes on from it.
LEMMA ConfirmedHeard ==
    ASSUME ReplyInv, NEW call \in calls, IsCurrent(call), call.answer = "ok",
           send' = NextPart, calls' = calls \ {call}, UNCHANGED <<delivered, unheard>>
    PROVE  HeardInv'
<1>1. /\ SendTypeOK /\ ConfirmedBefore /\ OneCallEach
      /\ \A p \in 1..Parts : ~unheard[p] => HeardOf(p)
  BY DEF ReplyInv, HeardInv
<1>2. send.step = "wait" /\ call.part = send.part /\ call.attempt = send.attempt
  BY DEF IsCurrent
<1>3. /\ \/ send'.step = "call" /\ send'.part = send.part + 1
         \/ send'.step = "sent" /\ send'.part = send.part /\ send'.attempt = send.attempt
      /\ send'.part \in 1..Parts /\ send.part \in 1..Parts
  BY <1>1, <1>2, NextPartOnwards DEF SendTypeOK, Sends
<1>4. \A c \in calls : c.part \in 1..Parts /\ c.part <= send.part
  BY <1>1 DEF SendTypeOK, ConfirmedBefore
<1>5. OneCallEach'
  <2>1. ASSUME NEW c \in calls', c.part = send'.part
        PROVE  c.attempt <= send'.attempt /\ (c.attempt = send'.attempt => send'.step \notin {"idle", "call"})
    <3>1. send'.step = "sent" /\ send'.part = send.part /\ send'.attempt = send.attempt /\ c \in calls
      BY <1>3, <1>4, <2>1, SendAssumption
    <3>2. QED
      BY <1>1, <2>1, <3>1 DEF OneCallEach
  <2>2. QED
    BY <1>1, <2>1 DEF OneCallEach
<1>6. \A c \in calls' : ~IsCurrent(c) /\ ~IsCurrent(c)'
  BY <1>1, <1>2, <1>3 DEF IsCurrent, OneCallEach
<1>7. ASSUME NEW p \in 1..Parts, ~unheard'[p] PROVE HeardOf(p)'
  <2>1. HeardOf(p)
    BY <1>1, <1>7
  <2>2. p = send'.part /\ send'.step \in {"idle", "call"} => delivered[p] = 0
    <3>1. SUFFICES ASSUME p = send.part + 1 PROVE delivered[p] = 0
      BY <1>3
    <3>2. delivered[p] \in Nat
      BY <1>1, SendAssumption DEF SendTypeOK
    <3>3. ~(p <= send.part)
      BY <1>3, <3>1, SendAssumption
    <3>4. QED
      BY <1>1, <3>2, <3>3 DEF ConfirmedBefore
  <2>3. QED
    BY <1>6, <2>1, <2>2 DEF HeardOf
<1>8. QED
  BY <1>5, <1>7 DEF HeardInv

\* A step that changes no call, unless it ends them all, and not where the
\* backend is, except that the reply may begin.
LEMMA BesideHeard ==
    ASSUME ReplyInv, calls' \subseteq calls, UNCHANGED <<delivered, unheard>>,
           \/ send' = send
           \/ send.step = "idle" /\ send' = [send EXCEPT !.step = "call"]
    PROVE  HeardInv'
<1>1. SendTypeOK /\ OneCallEach /\ \A p \in 1..Parts : ~unheard[p] => HeardOf(p)
  BY DEF ReplyInv, HeardInv
<1>2. /\ send'.part = send.part /\ send'.attempt = send.attempt
      /\ \/ send'.step = send.step
         \/ send.step = "idle" /\ send'.step = "call"
  BY <1>1 DEF SendTypeOK
<1>3. \A c \in calls : IsCurrent(c)' = IsCurrent(c)
  BY <1>2 DEF IsCurrent
<1>4. OneCallEach'
  BY <1>1, <1>2 DEF OneCallEach
<1>5. \A p \in 1..Parts : ~unheard'[p] => HeardOf(p)'
  BY <1>1, <1>2, <1>3 DEF HeardOf
<1>6. QED
  BY <1>4, <1>5 DEF HeardInv

\* Every step keeps what the backend hears in line with what went out.
LEMMA HeardNext ==
    ASSUME ReplyInv, [Next]_vars, SendTypeOK'
    PROVE  HeardInv'
<1>1. SendTypeOK /\ OneCallEach /\ \A p \in 1..Parts : ~unheard[p] => HeardOf(p)
  BY DEF ReplyInv, HeardInv
<1>2. CASE Beside(BridgeRuns) \/ Beside(Outside) \/ ReplyBegins \/ UNCHANGED vars
  <2>1. /\ calls' \subseteq calls /\ UNCHANGED <<delivered, unheard>>
        /\ send' = send \/ (send.step = "idle" /\ send' = [send EXCEPT !.step = "call"])
    BY <1>2 DEF Beside, ReplyBegins, vars, sendVars
  <2>2. QED
    BY <2>1, BesideHeard
<1>3. CASE ConnectionRefused
  <2>1. /\ send' = NextAttempt /\ send.step = "call"
        /\ UNCHANGED <<calls, delivered, unheard>> /\ send.part \in 1..Parts
    BY <1>1, <1>3 DEF ConnectionRefused, SendTypeOK
  <2>2. ~unheard'[send.part] =>
            /\ delivered[send.part] = 0
            /\ \A c \in calls' : c.part = send.part => c.answer # "none"
    BY <1>1, <2>1 DEF HeardOf, IsCurrent
  <2>3. QED
    BY <2>1, <2>2, GoesOnUnheard
<1>4. CASE LoseBridge
  <2>1. /\ send' = NextAttempt /\ send.step = "wait"
        /\ UNCHANGED <<calls, delivered>>
        /\ unheard' = [unheard EXCEPT ![send.part] = TRUE]
    BY <1>4 DEF LoseBridge
  <2>2. unheard'[send.part] /\ \A p \in 1..Parts : ~unheard'[p] => ~unheard[p]
    BY <1>1, <2>1 DEF SendTypeOK
  <2>3. QED
    BY <2>1, <2>2, GoesOnUnheard
<1>5. ASSUME NEW call \in calls, LoseCall(call) PROVE HeardInv'
  <2>1. /\ send' = NextAttempt /\ send.step = "wait" /\ call.part = send.part
        /\ calls' \subseteq calls /\ delivered' = delivered
        /\ unheard' = [unheard EXCEPT ![call.part] = TRUE]
    BY <1>5 DEF LoseCall, IsCurrent
  <2>2. unheard'[send.part] /\ \A p \in 1..Parts : ~unheard'[p] => ~unheard[p]
    BY <1>1, <2>1 DEF SendTypeOK
  <2>3. QED
    BY <2>1, <2>2, GoesOnUnheard
<1>6. ASSUME NEW call \in calls, HearAnswer(call) PROVE HeardInv'
  <2>1. /\ IsCurrent(call) /\ call.answer # "none" /\ calls' = calls \ {call}
        /\ UNCHANGED <<delivered, unheard>> /\ send.step = "wait"
        /\ call.part = send.part /\ send.part \in 1..Parts
    BY <1>1, <1>6 DEF HearAnswer, IsCurrent, SendTypeOK
  <2>2. CASE call.answer = "ok"
    <3>1. send' = NextPart
      BY <1>6, <2>2 DEF HearAnswer
    <3>2. QED
      BY <2>1, <2>2, <3>1, ConfirmedHeard
  <2>3. CASE call.answer # "ok"
    <3>1. send' \in {NextAttempt, [send EXCEPT !.step = "failed"]}
      BY <1>1, <1>6, <2>3 DEF HearAnswer, SendTypeOK, Answer
    <3>2. \A c \in calls' : ~IsCurrent(c)
      BY <1>1, <2>1 DEF IsCurrent, OneCallEach
    <3>3. ~unheard[send.part] =>
             /\ delivered[send.part] = 0
             /\ \A c \in calls' : c.part = send.part => c.answer # "none"
      BY <1>1, <2>1, <2>3, <3>2 DEF HeardOf
    <3>4. CASE send' = NextAttempt
      BY <2>1, <3>3, <3>4, GoesOnUnheard
    <3>5. CASE send' = [send EXCEPT !.step = "failed"]
      <4>1. send'.part = send.part /\ send'.attempt = send.attempt /\ send'.step = "failed"
        BY <1>1, <3>5 DEF SendTypeOK
      <4>2. OneCallEach'
        BY <1>1, <2>1, <4>1 DEF OneCallEach
      <4>3. \A c \in calls' : ~IsCurrent(c)'
        BY <4>1 DEF IsCurrent
      <4>4. \A p \in 1..Parts : ~unheard'[p] => HeardOf(p)'
        BY <1>1, <2>1, <3>2, <4>1, <4>3 DEF HeardOf
      <4>5. QED
        BY <4>2, <4>4 DEF HeardInv
    <3>6. QED
      BY <3>1, <3>4, <3>5
  <2>4. QED
    BY <2>2, <2>3
<1>7. ASSUME NEW call \in calls, SendThrows(call) PROVE HeardInv'
  <2>1. /\ call.answer = "none" /\ calls' = Answered(call, "retryable")
        /\ UNCHANGED <<send, delivered, unheard>>
    BY <1>7 DEF SendThrows
  <2>2. QED
    BY <1>1, <2>1, AnsweredHeard DEF SendTypeOK, Answer
<1>8. ASSUME NEW call \in calls, Deliver(call) PROVE HeardInv'
  <2> delivered' \in [1..Parts -> 0..SendAttempts]
    BY DEF SendTypeOK
  <2>1. /\ call.answer = "none" /\ send' = send /\ call.part \in 1..Parts
        /\ delivered' = [delivered EXCEPT ![call.part] = @ + 1]
        /\ \/ calls' = Answered(call, "ok") /\ unheard' = unheard
           \/ /\ calls' = Answered(call, "retryable")
              /\ unheard' = [unheard EXCEPT ![call.part] = TRUE]
    BY <1>1, <1>8 DEF Deliver, SendTypeOK
  <2>2. /\ delivered'[call.part] = delivered[call.part] + 1
        /\ \A p \in 1..Parts : p # call.part => delivered'[p] = delivered[p]
    BY <1>1, <2>1 DEF SendTypeOK
  <2>3. CASE calls' = Answered(call, "ok") /\ unheard' = unheard
    BY <2>1, <2>2, <2>3, AnsweredHeard DEF Answer
  <2>4. CASE calls' = Answered(call, "retryable") /\ unheard' = [unheard EXCEPT ![call.part] = TRUE]
    <3>1. unheard'[call.part] /\ \A p \in 1..Parts : ~unheard'[p] => ~unheard[p]
      BY <1>1, <2>1, <2>4 DEF SendTypeOK
    <3>2. QED
      BY <2>1, <2>2, <2>4, <3>1, AnsweredHeard DEF Answer
  <2>5. QED
    BY <2>1, <2>3, <2>4
<1>9. QED
  BY <1>2, <1>3, <1>4, <1>5, <1>6, <1>7, <1>8, SendArrivesHeard
     DEF Next, SendRuns

\* The tenant gets a part twice only when the backend could not know that it
\* went out, for any number of parts, attempts, lost calls and replaced sockets
\* (post_bridge_send_with_retry, sendServer.ts).
THEOREM DuplicatesOnlyWhenUnheard == Spec => []DuplicatesOnlyUnheard
<1>1. SendTypeOK /\ HeardInv => DuplicatesOnlyUnheard
  BY SendAssumption DEF HeardInv, HeardOf, SendTypeOK, DuplicatesOnlyUnheard
<1>2. Init => HeardInv /\ SocketInv /\ SendInv
  BY SocketInitInv, SendAssumption
     DEF Init, SendInit, HeardInv, OneCallEach, HeardOf, SendInv, SendShape, ConfirmedBefore
<1>3. SocketInv => currentSock \in Nat
  BY GenerationFacts DEF SocketInv, SocketShape, NoSocket
<1>4. SocketInv /\ SendInv /\ [Next]_vars => SocketInv' /\ SendInv'
  BY <1>3, SocketsInComposition, SocketNextInv, SendNextInv
<1>5. SendTypesInv /\ SendInv /\ HeardInv /\ [Next]_vars /\ SendTypesInv' => HeardInv'
  BY HeardNext DEF SendTypesInv, SendInv, ReplyInv
<1>6. SendTypesInv /\ HeardInv => DuplicatesOnlyUnheard
  BY <1>1 DEF SendTypesInv
<1>7. QED
  BY <1>2, <1>4, <1>5, <1>6, TypesInit, TypesNext, PTL DEF Spec

-----------------------------------------------------------------------------
(***************************************************************************)
(* Reconnecting: the bridge is never stranded, and the timer does not loop *)
(* on a session that needs pairing.                                        *)
(***************************************************************************)

\* A connect that is to come, or in progress, has no socket yet.
Unmade ==
    /\ \A g \in Generations : g > socketGeneration => connects[g].step = "none"
    /\ \A g \in Generations : g > socketGeneration \/ Connecting(g) => sockets[g] = "none"
    /\ currentSock # NoSocket => sockets[currentSock] # "none"

\* An update that waits is of a socket that opened or closed.
SuspendedSeen == \A s \in suspended : sockets[s.socket] \in {"open", "closed", "disposed"}

Calm == ~seen.late /\ ~seen.crossed

InProgress(q) == reconnects[q] \in {"clear", "cleared", "save"}

\* The newest socket has not been disposed of.
Holding == sockets[socketGeneration] \in {"connecting", "open", "closed"}

\* As long as no handler was late and no request crossed a connect, connects do
\* not overlap, the newest socket is the current one until it is disposed of,
\* and the timer, or a request, is alone: there is no socket and no connect, and
\* with the timer no session that needs pairing.
CalmInv ==
    Calm =>
        /\ ~seen.overlap
        /\ Holding => currentSock = socketGeneration
        /\ reconnectTimer =>
               /\ ~Holding /\ ~requiresReauth
               /\ \A g \in Generations : ~Connecting(g)
               /\ \A q \in Reconnects : ~InProgress(q)
        /\ \A q \in Reconnects : InProgress(q) =>
               /\ ~Holding
               /\ \A g \in Generations : ~Connecting(g)
               /\ \A x \in Reconnects : InProgress(x) => x = q

ReconnectInv == Unmade /\ SuspendedSeen /\ CalmInv /\ NotStranded

\* The newest generation is one, and so is that of a socket that is current.
LEMMA NewestIsThere ==
    ASSUME TypesInv
    PROVE  /\ socketGeneration \in Generations /\ socketGeneration \in Nat
           /\ socketGeneration # NoSocket /\ \A g \in Generations : g \in Nat
  BY GenerationFacts DEF TypesInv, SocketTypeOK

\* Steps that leave the sockets as they are and begin nothing.
LEMMA SocketsStand ==
    ASSUME TypesInv, Unmade, SuspendedSeen, CalmInv,
           UNCHANGED <<socketGeneration, sockets, currentSock, requiresReauth>>,
           suspended' \subseteq suspended, reconnectTimer' \in {FALSE, reconnectTimer},
           seen'.late = seen.late, seen'.crossed = seen.crossed, seen'.overlap = seen.overlap,
           \A g \in Generations : /\ connects[g].step = "none" => connects'[g].step = "none"
                                  /\ Connecting(g)' => Connecting(g),
           \A q \in Reconnects : InProgress(q)' => InProgress(q)
    PROVE  Unmade' /\ SuspendedSeen' /\ CalmInv'
<1>1. Unmade'
  BY NewestIsThere DEF Unmade
<1>2. SuspendedSeen'
  BY DEF SuspendedSeen
<1>3. Calm' = Calm /\ Holding' = Holding
  BY DEF Calm, Holding
<1>4. reconnectTimer' => reconnectTimer
  OBVIOUS
<1>5. CalmInv'
  BY <1>3, <1>4 DEF CalmInv
<1>6. QED
  BY <1>1, <1>2, <1>5

\* A connect reads the credentials or fails.
LEMMA AuthReconnect ==
    ASSUME TypesInv, SocketInv, ReconnectInv, NEW g \in Generations, AuthLoaded(g) \/ AuthFails(g)
    PROVE  ReconnectInv'
<1>1. /\ Unmade /\ SuspendedSeen /\ CalmInv /\ NotStranded
      /\ SocketTypeOK /\ SocketShape /\ CallerConnects
  BY DEF ReconnectInv, TypesInv, SocketInv
<1>2. connects[g].step = "auth" /\ Connecting(g)
  BY DEF AuthLoaded, AuthFails, Connecting
<1>3. \A q \in Reconnects : reconnects'[q] = reconnects[q] \/ (~InProgress(q) /\ reconnects'[q] = "answered")
  BY <1>1, <1>2 DEF AuthLoaded, AuthFails, CallerConnects, InProgress, SocketTypeOK
<1>4. \A q \in Reconnects : InProgress(q)' = InProgress(q)
  BY <1>3 DEF InProgress
<1>5. /\ \A x \in Generations : x # g => connects'[x] = connects[x]
      /\ \/ AuthLoaded(g) /\ connects'[g].step = "version"
         \/ AuthFails(g) /\ connects'[g].step = "failed"
  <2>1. CASE AuthLoaded(g)
    <3> DEFINE read == [connects EXCEPT ![g].step = "version"]
    <3>1. connects' = [read EXCEPT ![g].session = session]
      BY <2>1 DEF AuthLoaded
    <3>2. /\ read \in [Generations -> Connect] /\ read[g].step = "version"
          /\ \A x \in Generations : x # g => read[x] = connects[x]
      BY <1>1 DEF SocketTypeOK, Connect
    <3> HIDE DEF read
    <3>3. connects'[g].step = "version" /\ \A x \in Generations : x # g => connects'[x] = connects[x]
      BY <3>1, <3>2 DEF Connect
    <3>4. QED
      BY <2>1, <3>3
  <2>2. CASE AuthFails(g)
    <3>1. connects' = [connects EXCEPT ![g].step = "failed"]
      BY <2>2 DEF AuthFails
    <3>2. QED
      BY <1>1, <2>2, <3>1 DEF SocketTypeOK, Connect
  <2>3. QED
    BY <2>1, <2>2
<1>6. /\ UNCHANGED <<socketGeneration, sockets, currentSock, requiresReauth, suspended,
                     reconnectTimer>>
      /\ seen'.late = seen.late /\ seen'.crossed = seen.crossed /\ seen'.overlap = seen.overlap
      /\ seen.abandoned => seen'.abandoned
      /\ process' = "up" => process = "up"
  BY <1>1 DEF AuthLoaded, AuthFails, SocketTypeOK, decisions
<1>7. Unmade' /\ SuspendedSeen' /\ CalmInv'
  <2>1. \A x \in Generations : /\ connects[x].step = "none" => connects'[x].step = "none"
                               /\ Connecting(x)' => Connecting(x)
    BY <1>2, <1>5 DEF Connecting
  <2>2. QED
    BY <1>1, <1>4, <1>6, <2>1, SocketsStand
<1>8. NotStranded'
  <2>1. Connecting(socketGeneration) => Connecting(socketGeneration)' \/ seen'.abandoned
    <3>1. g = socketGeneration => Connecting(g)' \/ seen'.abandoned
      <4>1. AuthFails(g) /\ g = socketGeneration => seen'.abandoned
        BY <1>1 DEF AuthFails, SocketTypeOK
      <4>2. QED
        BY <1>5, <4>1 DEF Connecting
    <3>2. g # socketGeneration => Connecting(socketGeneration)' = Connecting(socketGeneration)
      BY <1>5, <1>6, NewestIsThere DEF Connecting
    <3>3. QED
      BY <1>6, <3>1, <3>2
  <2>2. Alive(socketGeneration) => Alive(socketGeneration)'
    BY <1>6 DEF Alive
  <2>3. QED
    BY <1>1, <1>4, <1>6, <2>1, <2>2 DEF NotStranded, InProgress
<1>9. QED
  BY <1>7, <1>8 DEF ReconnectInv

\* The socket that is made is the newest, or connects overlapped.
LEMMA SocketMadeReconnect ==
    ASSUME TypesInv, SocketInv, ReconnectInv, NEW g \in Generations, SocketMade(g)
    PROVE  ReconnectInv'
<1>1. /\ Unmade /\ SuspendedSeen /\ CalmInv /\ NotStranded
      /\ SocketTypeOK /\ SocketShape /\ CallerConnects /\ OneConnect
  BY DEF ReconnectInv, TypesInv, SocketInv
<1>2. /\ connects[g].step = "version" /\ Connecting(g) /\ currentSock' = g
      /\ connects' = [connects EXCEPT ![g].step = "done"]
      /\ sockets' = [sockets EXCEPT ![g] = "connecting"]
      /\ UNCHANGED <<socketGeneration, reconnectTimer, suspended, process, seen, requiresReauth>>
  BY DEF SocketMade, Connecting, decisions
<1>3. \A q \in Reconnects : reconnects'[q] = reconnects[q] \/ (~InProgress(q) /\ reconnects'[q] = "answered")
  BY <1>1, <1>2 DEF SocketMade, CallerConnects, InProgress, SocketTypeOK
<1>4. \A q \in Reconnects : InProgress(q)' = InProgress(q)
  BY <1>3 DEF InProgress
<1>5. sockets[g] = "none"
  BY <1>1, <1>2 DEF Unmade
<1>6. \A x \in Generations : /\ x # g => connects'[x] = connects[x] /\ sockets'[x] = sockets[x]
                             /\ connects'[g].step = "done" /\ sockets'[g] = "connecting"
  BY <1>1, <1>2 DEF SocketTypeOK
<1>7. Unmade'
  BY <1>1, <1>2, <1>6, NewestIsThere DEF Unmade, Connecting
<1>8. SuspendedSeen'
  BY <1>1, <1>2, <1>5, <1>6 DEF SuspendedSeen, SocketTypeOK
<1>9. CalmInv'
  <2>1. SUFFICES ASSUME Calm PROVE CalmInv'
    BY <1>2 DEF CalmInv, Calm
  <2>2. /\ ~seen.overlap /\ ~reconnectTimer
        /\ \A q \in Reconnects : ~InProgress(q)
    BY <1>1, <1>2, <2>1 DEF CalmInv
  <2>3. g = socketGeneration
    BY <1>1, <1>2, <2>2 DEF OneConnect
  <2>4. QED
    BY <1>2, <1>4, <2>2, <2>3 DEF CalmInv
<1>10. NotStranded'
  <2>1. Alive(socketGeneration) \/ Connecting(socketGeneration) =>
            Alive(socketGeneration)' \/ Connecting(socketGeneration)'
    BY <1>2, <1>6, NewestIsThere DEF Alive, Connecting
  <2>2. QED
    BY <1>1, <1>2, <1>4, <2>1 DEF NotStranded, InProgress
<1>11. QED
  BY <1>7, <1>8, <1>9, <1>10 DEF ReconnectInv

\* An update of the newest socket is processed.
LEMMA UpdateReconnect ==
    ASSUME TypesInv, SocketInv, ReconnectInv, NEW update \in Update,
           Holding, update = "open" => Alive(socketGeneration),
           NEW others \in [Generations -> {"none", "connecting", "open", "closed", "disposed"}],
           others[socketGeneration] # "none",
           update = "open" => others[socketGeneration] \in {"connecting", "open"},
           \A x \in Generations : x # socketGeneration => others[x] = sockets[x],
           ProcessConnectionUpdate(socketGeneration, update, others),
           suspended' \subseteq suspended,
           \A s \in suspended' : s.socket = socketGeneration =>
               others[socketGeneration] \in {"open", "closed", "disposed"},
           UNCHANGED <<socketGeneration, connects, reconnects, process>>,
           seen'.late = seen.late, seen'.crossed = seen.crossed, seen'.overlap = seen.overlap
    PROVE  ReconnectInv'
<1>1. /\ Unmade /\ SuspendedSeen /\ CalmInv /\ NotStranded
      /\ SocketTypeOK /\ SocketShape /\ OneConnect /\ socketGeneration \in Generations
  BY NewestIsThere DEF ReconnectInv, TypesInv, SocketInv
<1>2. /\ \A x \in Generations : x # socketGeneration => sockets'[x] = sockets[x]
      /\ sockets' \in [Generations -> {"none", "connecting", "open", "closed", "disposed"}]
      /\ update = "open" => sockets' = others
      /\ update # "open" => sockets'[socketGeneration] = "disposed"
      /\ currentSock' \in {NoSocket, currentSock}
      /\ update = "open" => currentSock' = currentSock
      /\ requiresReauth' = (update \in CloseClass /\ ~ShouldReconnect(update))
      /\ reconnectTimer' = (reconnectTimer \/ (ShouldReconnect(update) /\ ~ShuttingDown))
  BY <1>1 DEF ProcessConnectionUpdate, CurrentAfter, ScheduleReconnect
<1>3. sockets'[socketGeneration] # "none" /\ sockets[socketGeneration] # "none"
  BY <1>2 DEF Holding
<1>4. update # "open" => update \in CloseClass
  BY DEF Update
<1>5. update = "open" => ~ShouldReconnect(update)
  BY DEF ShouldReconnect, SoftRetry
<1>6. Unmade'
  <2>1. \A x \in Generations : x > socketGeneration \/ Connecting(x) => x # socketGeneration
    BY <1>1, <1>3 DEF Unmade
  <2>2. currentSock' # NoSocket => sockets'[currentSock'] # "none"
    BY <1>1, <1>2, <1>3 DEF Unmade, SocketTypeOK
  <2>3. QED
    BY <1>1, <1>2, <2>1, <2>2 DEF Unmade, Connecting
<1>7. SuspendedSeen'
  <2>1. SUFFICES ASSUME NEW s \in suspended' PROVE sockets'[s.socket] \in {"open", "closed", "disposed"}
    BY DEF SuspendedSeen
  <2>2. s.socket \in Generations /\ sockets[s.socket] \in {"open", "closed", "disposed"}
    BY <1>1, <2>1 DEF SuspendedSeen, SocketTypeOK
  <2>3. QED
    BY <1>2, <2>1, <2>2
<1>8. CalmInv'
  <2>1. SUFFICES ASSUME Calm PROVE CalmInv'
    BY DEF CalmInv, Calm
  <2>2. /\ ~seen.overlap /\ ~reconnectTimer /\ currentSock = socketGeneration
        /\ \A q \in Reconnects : ~InProgress(q)
    BY <1>1, <2>1 DEF CalmInv
  <2>3. \A x \in Generations : ~Connecting(x)
    BY <1>1, <2>2, NewestIsThere DEF OneConnect
  <2>4. \A x \in Generations : ~Connecting(x)'
    BY <2>3 DEF Connecting
  <2>5. \A q \in Reconnects : ~InProgress(q)'
    BY <2>2 DEF InProgress
  <2>6. Holding' => update = "open"
    BY <1>2 DEF Holding
  <2>7. reconnectTimer' => ~requiresReauth' /\ update # "open"
    BY <1>2, <1>5, <2>2
  <2>8. QED
    BY <1>2, <2>2, <2>4, <2>5, <2>6, <2>7 DEF CalmInv
<1>9. NotStranded'
  <2>1. CASE update = "open"
    BY <1>2, <2>1 DEF NotStranded, Alive
  <2>2. CASE update # "open"
    BY <1>2, <1>4, <2>2 DEF NotStranded, ShuttingDown
  <2>3. QED
    BY <2>1, <2>2
<1>10. QED
  BY <1>6, <1>7, <1>8, <1>9 DEF ReconnectInv

\* An event of a socket: processed, to be processed later, or of a socket that
\* has been replaced.
LEMMA SocketEventReconnect ==
    ASSUME TypesInv, SocketInv, ReconnectInv, NEW g \in Generations, SocketEvent(g)
    PROVE  ReconnectInv'
<1>1. /\ Unmade /\ SuspendedSeen /\ CalmInv /\ NotStranded
      /\ SocketTypeOK /\ socketGeneration \in Generations
  BY NewestIsThere DEF ReconnectInv, TypesInv, SocketInv
<1>2. PICK update \in Update :
          /\ update = "open" => sockets[g] = "connecting"
          /\ update # "open" => Alive(g)
          /\ \/ /\ Fresh(g)
                /\ ProcessConnectionUpdate(g, update, Happens(g, update))
                /\ UNCHANGED suspended
             \/ /\ Fresh(g)
                /\ sockets' = Happens(g, update)
                /\ suspended' = suspended \cup {[socket |-> g, update |-> update]}
                /\ UNCHANGED <<currentSock, reconnectTimer, decisions>>
             \/ /\ ~Fresh(g)
                /\ sockets' = Happens(g, update)
                /\ UNCHANGED <<currentSock, reconnectTimer, suspended, decisions>>
  BY DEF SocketEvent
<1>3. UNCHANGED <<socketGeneration, connects, reconnects, process, seen>>
  BY DEF SocketEvent
<1>4. sockets[g] \in {"connecting", "open"}
  BY <1>2 DEF Alive
<1> DEFINE others == Happens(g, update)
<1>5. /\ others \in [Generations -> {"none", "connecting", "open", "closed", "disposed"}]
      /\ \A x \in Generations : x # g => others[x] = sockets[x]
      /\ others[g] \in {"open", "closed"} /\ (update = "open" => others[g] = "open")
  BY <1>1 DEF Happens, SocketTypeOK
<1> HIDE DEF others
<1>6. CASE Fresh(g) /\ ProcessConnectionUpdate(g, update, others) /\ UNCHANGED suspended
  <2>1. g = socketGeneration /\ Holding /\ Alive(socketGeneration)
    BY <1>4, <1>6 DEF Fresh, Holding, Alive
  <2>2. QED
    BY <1>3, <1>5, <1>6, <2>1, UpdateReconnect
<1>7. CASE /\ sockets' = others /\ UNCHANGED <<currentSock, reconnectTimer, decisions>>
           /\ \/ suspended' = suspended
              \/ suspended' = suspended \cup {[socket |-> g, update |-> update]} /\ Fresh(g)
           /\ Fresh(g) => [socket |-> g, update |-> update] \in suspended'
  <2>1. UNCHANGED <<currentSock, reconnectTimer, requiresReauth>>
    BY <1>7 DEF decisions
  <2>2. Unmade'
    <3>1. \A x \in Generations : x > socketGeneration \/ Connecting(x) => x # g
      BY <1>1, <1>4 DEF Unmade
    <3>2. currentSock # NoSocket => sockets'[currentSock] # "none"
      BY <1>1, <1>5, <1>7 DEF Unmade, SocketTypeOK
    <3>3. QED
      BY <1>1, <1>3, <1>5, <1>7, <2>1, <3>1, <3>2 DEF Unmade, Connecting
  <2>3. SuspendedSeen'
    <3>1. SUFFICES ASSUME NEW s \in suspended' PROVE sockets'[s.socket] \in {"open", "closed", "disposed"}
      BY DEF SuspendedSeen
    <3>2. CASE s \in suspended
      <4>1. s.socket \in Generations /\ sockets[s.socket] \in {"open", "closed", "disposed"}
        BY <1>1, <3>2 DEF SuspendedSeen, SocketTypeOK
      <4>2. QED
        BY <1>5, <1>7, <4>1
    <3>3. CASE s = [socket |-> g, update |-> update]
      BY <1>5, <1>7, <3>3
    <3>4. QED
      BY <1>7, <3>1, <3>2, <3>3
  <2>4. Holding' = Holding
    <3>1. CASE g = socketGeneration
      BY <1>3, <1>4, <1>5, <1>7, <3>1 DEF Holding
    <3>2. CASE g # socketGeneration
      BY <1>1, <1>3, <1>5, <1>7, <3>2 DEF Holding
    <3>3. QED
      BY <3>1, <3>2
  <2>5. CalmInv'
    BY <1>1, <1>3, <2>1, <2>4 DEF CalmInv, Calm, Connecting, InProgress
  <2>6. NotStranded'
    <3>1. Connecting(socketGeneration)' = Connecting(socketGeneration)
      BY <1>3 DEF Connecting
    <3>2. suspended \subseteq suspended'
      BY <1>7
    <3>3. CASE Fresh(g)
      <4>1. \E s \in suspended' : s.socket = socketGeneration
        BY <1>7, <3>3 DEF Fresh
      <4>2. QED
        BY <1>3, <4>1 DEF NotStranded
    <3>4. CASE ~Fresh(g)
      <4>1. Alive(socketGeneration)' = Alive(socketGeneration)
        BY <1>1, <1>3, <1>5, <1>7, <3>4 DEF Alive, Fresh
      <4>2. QED
        BY <1>1, <1>3, <2>1, <3>1, <3>2, <4>1 DEF NotStranded, InProgress
    <3>5. QED
      BY <3>3, <3>4
  <2>7. QED
    BY <2>2, <2>3, <2>5, <2>6 DEF ReconnectInv
<1>8. QED
  BY <1>2, <1>6, <1>7 DEF others

\* An update that waited is processed, of the newest socket or too late.
LEMMA HandlerReconnect ==
    ASSUME TypesInv, SocketInv, ReconnectInv, NEW s \in suspended, HandlerResumes(s)
    PROVE  ReconnectInv'
<1>1. /\ Unmade /\ SuspendedSeen /\ CalmInv /\ NotStranded
      /\ SocketTypeOK /\ socketGeneration \in Generations
      /\ s.socket \in Generations /\ s.update \in Update
      /\ sockets[s.socket] \in {"open", "closed", "disposed"}
  BY NewestIsThere DEF ReconnectInv, TypesInv, SocketInv, SocketTypeOK, SuspendedSeen
<1>2. /\ suspended' = suspended \ {s} /\ ProcessConnectionUpdate(s.socket, s.update, sockets)
      /\ UNCHANGED <<socketGeneration, connects, session, reconnects, sendServer, process, closes>>
  BY DEF HandlerResumes
<1>3. /\ seen'.late = (seen.late \/ IsLate(s)) /\ seen'.crossed = seen.crossed
      /\ seen'.overlap = seen.overlap
  BY <1>1 DEF HandlerResumes, SocketTypeOK
<1>4. CASE ~IsLate(s)
  <2>1. /\ s.socket = socketGeneration /\ Holding
        /\ s.update = "open" => sockets[socketGeneration] = "open"
    BY <1>1, <1>4 DEF IsLate, Holding
  <2>2. \A x \in suspended' : x.socket = socketGeneration =>
            sockets[socketGeneration] \in {"open", "closed", "disposed"}
    BY <1>1, <2>1
  <2>3. seen'.late = seen.late
    BY <1>1, <1>3, <1>4 DEF SocketTypeOK
  <2>4. /\ sockets \in [Generations -> {"none", "connecting", "open", "closed", "disposed"}]
        /\ sockets[socketGeneration] # "none" /\ suspended' \subseteq suspended
        /\ s.update = "open" => Alive(socketGeneration)
    BY <1>1, <1>2, <2>1 DEF SocketTypeOK, Alive
  <2>5. QED
    BY <1>1, <1>2, <1>3, <2>1, <2>2, <2>3, <2>4, UpdateReconnect
<1>5. CASE IsLate(s)
  <2>1. seen'.late
    BY <1>3, <1>5
  <2>2. sockets' \in {sockets, [sockets EXCEPT ![s.socket] = "disposed"]}
        /\ currentSock' \in {NoSocket, currentSock}
    BY <1>1, <1>2 DEF ProcessConnectionUpdate, CurrentAfter
  <2>3. /\ \A x \in Generations : sockets[x] = "none" => sockets'[x] = "none"
        /\ \A x \in Generations : sockets[x] # "none" => sockets'[x] # "none"
        /\ \A x \in Generations : sockets[x] \in {"open", "closed", "disposed"}
                                      => sockets'[x] \in {"open", "closed", "disposed"}
    BY <1>1, <2>2 DEF SocketTypeOK
  <2>4. Unmade'
    BY <1>1, <1>2, <2>2, <2>3 DEF Unmade, Connecting, SocketTypeOK
  <2>5. SuspendedSeen'
    BY <1>1, <1>2, <2>3 DEF SuspendedSeen, SocketTypeOK
  <2>6. CalmInv' /\ NotStranded'
    BY <2>1 DEF CalmInv, Calm, NotStranded
  <2>7. QED
    BY <2>4, <2>5, <2>6 DEF ReconnectInv
<1>6. QED
  BY <1>4, <1>5

\* A connect begins, for the timer or for a request, which was alone.
LEMMA BeginsReconnect ==
    ASSUME TypesInv, SocketInv, ReconnectInv, socketGeneration' \in Generations,
           NEW by \in {"start", "timer"} \cup Reconnects, ConnectBegins(by),
           UNCHANGED <<suspended, requiresReauth>>,
           Calm => /\ \A g \in Generations : ~Connecting(g)
                   /\ ~reconnectTimer'
                   /\ \A q \in Reconnects : ~InProgress(q)'
    PROVE  ReconnectInv'
<1>1. /\ Unmade /\ SuspendedSeen /\ CalmInv
      /\ SocketTypeOK /\ socketGeneration \in Nat
  BY NewestIsThere DEF ReconnectInv, TypesInv, SocketInv
<1>2. /\ socketGeneration' = socketGeneration + 1
      /\ connects' = [connects EXCEPT ![socketGeneration'] =
                          [step |-> "auth", by |-> by, session |-> session]]
      /\ sockets' = Dispose(currentSock) /\ currentSock' = NoSocket
      /\ seen' = [seen EXCEPT !.overlap = @ \/ \E x \in Generations : Connecting(x),
                              !.abandoned = FALSE]
  BY DEF ConnectBegins
<1>3. /\ \A x \in Generations : x # socketGeneration' => connects'[x] = connects[x]
      /\ connects'[socketGeneration'].step = "auth"
  BY <1>1, <1>2 DEF SocketTypeOK
<1>4. /\ \A x \in Generations : sockets[x] = "none" => sockets'[x] = "none"
      /\ \A x \in Generations : sockets[x] \in {"open", "closed", "disposed"}
                                    => sockets'[x] \in {"open", "closed", "disposed"}
  BY <1>1, <1>2 DEF Unmade, Dispose, SocketTypeOK
<1>5. socketGeneration' > socketGeneration /\ sockets[socketGeneration'] = "none"
  BY <1>1, <1>2 DEF Unmade
<1>6. Unmade'
  <2>1. ASSUME NEW g \in Generations, g > socketGeneration'
        PROVE  connects'[g].step = "none" /\ sockets'[g] = "none"
    <3>1. g > socketGeneration /\ g # socketGeneration'
      BY <1>1, <1>2, <2>1, NewestIsThere
    <3>2. QED
      BY <1>1, <1>3, <1>4, <3>1 DEF Unmade
  <2>2. ASSUME NEW g \in Generations, Connecting(g)' PROVE sockets'[g] = "none"
    <3>1. g = socketGeneration' \/ Connecting(g)
      BY <1>3, <2>2 DEF Connecting
    <3>2. QED
      BY <1>1, <1>4, <1>5, <3>1 DEF Unmade
  <2>3. QED
    BY <1>2, <2>1, <2>2 DEF Unmade
<1>7. SuspendedSeen'
  BY <1>1, <1>4 DEF SuspendedSeen, SocketTypeOK
<1>8. CalmInv'
  <2>1. /\ seen'.late = seen.late /\ seen'.crossed = seen.crossed
        /\ seen'.overlap = (seen.overlap \/ \E x \in Generations : Connecting(x))
    BY <1>1, <1>2 DEF SocketTypeOK
  <2>2. SUFFICES ASSUME Calm PROVE CalmInv'
    BY <2>1 DEF CalmInv, Calm
  <2>3. ~seen'.overlap
    BY <1>1, <2>1, <2>2 DEF CalmInv
  <2>4. ~Holding'
    BY <1>4, <1>5 DEF Holding
  <2>5. QED
    BY <2>2, <2>3, <2>4 DEF CalmInv
<1>9. NotStranded'
  BY <1>3 DEF NotStranded, Connecting
<1>10. QED
  BY <1>6, <1>7, <1>8, <1>9 DEF ReconnectInv

\* The current socket is disposed of: by a request, or in the shutdown.
LEMMA DisposeReconnect ==
    ASSUME TypesInv, SocketInv, ReconnectInv,
           (\E q \in Reconnects : ReconnectAsked(q)) \/ ServerClosed
    PROVE  ReconnectInv'
<1>1. /\ Unmade /\ SuspendedSeen /\ CalmInv
      /\ SocketTypeOK /\ socketGeneration \in Generations
  BY NewestIsThere DEF ReconnectInv, TypesInv, SocketInv
<1>2. /\ sockets' = Dispose(currentSock) /\ currentSock' = NoSocket
      /\ UNCHANGED <<socketGeneration, connects, suspended, requiresReauth>>
  BY DEF ReconnectAsked, ServerClosed, decisions
<1>3. /\ \A x \in Generations : sockets[x] = "none" => sockets'[x] = "none"
      /\ \A x \in Generations : sockets[x] \in {"open", "closed", "disposed"}
                                    => sockets'[x] \in {"open", "closed", "disposed"}
      /\ \A x \in Generations : sockets'[x] \in {sockets[x], "disposed"}
      /\ currentSock # NoSocket => sockets'[currentSock] = "disposed"
  BY <1>1, <1>2 DEF Unmade, Dispose, SocketTypeOK
<1>4. Unmade'
  BY <1>1, <1>2, <1>3 DEF Unmade, Connecting
<1>5. SuspendedSeen'
  BY <1>1, <1>2, <1>3 DEF SuspendedSeen, SocketTypeOK
<1>6. \A x \in Generations : Connecting(x)' = Connecting(x)
  BY <1>2 DEF Connecting
<1>7. Calm => ~Holding'
  <2>1. Calm /\ Holding => currentSock = socketGeneration
    BY <1>1 DEF CalmInv
  <2>2. Holding' => Holding
    BY <1>1, <1>2, <1>3 DEF Holding
  <2>3. socketGeneration # NoSocket
    BY NewestIsThere
  <2>4. QED
    BY <1>2, <1>3, <2>1, <2>2, <2>3 DEF Holding
<1>8. CASE ServerClosed
  <2>1. /\ UNCHANGED <<reconnectTimer, reconnects, seen>> /\ process' # "up"
    BY <1>8 DEF ServerClosed
  <2>2. CalmInv'
    BY <1>1, <1>2, <1>6, <1>7, <2>1 DEF CalmInv, Calm, InProgress
  <2>3. NotStranded'
    BY <2>1 DEF NotStranded
  <2>4. QED
    BY <1>4, <1>5, <2>2, <2>3 DEF ReconnectInv
<1>9. ASSUME NEW q \in Reconnects, ReconnectAsked(q) PROVE ReconnectInv'
  <2>1. /\ reconnectTimer' = FALSE
        /\ \A x \in Reconnects : x # q => reconnects'[x] = reconnects[x]
        /\ InProgress(q)'
    BY <1>1, <1>9 DEF ReconnectAsked, SocketTypeOK, InProgress
  <2>2. /\ seen'.late = seen.late /\ seen'.overlap = seen.overlap
        /\ seen'.crossed = (seen.crossed \/ ~ReconnectsAnswered \/ \E g \in Generations : Connecting(g))
    BY <1>1, <1>9 DEF ReconnectAsked, SocketTypeOK
  <2>3. CalmInv'
    <3>1. SUFFICES ASSUME Calm' PROVE CalmInv'
      BY DEF CalmInv
    <3>2. Calm /\ ReconnectsAnswered /\ \A g \in Generations : ~Connecting(g)
      BY <2>2, <3>1 DEF Calm
    <3>3. \A x \in Reconnects : InProgress(x)' => x = q
      BY <2>1, <3>2 DEF InProgress, ReconnectsAnswered
    <3>4. ~seen'.overlap
      BY <1>1, <2>2, <3>2 DEF CalmInv
    <3>5. QED
      BY <1>6, <1>7, <2>1, <3>2, <3>3, <3>4 DEF CalmInv
  <2>4. NotStranded'
    BY <2>1 DEF NotStranded, InProgress
  <2>5. QED
    BY <1>4, <1>5, <2>3, <2>4 DEF ReconnectInv
<1>10. QED
  BY <1>8, <1>9

\* The rest: a request that clears, fails or is too late, and the shutdown.
LEMMA StandingReconnect ==
    ASSUME TypesInv, SocketInv, ReconnectInv,
           \/ \E q \in Reconnects : \/ AuthCleared(q) \/ ReconnectFails(q)
                                    \/ ReconnectGoesOn(q) /\ ShuttingDown
           \/ \E s \in suspended : HandlerFails(s)
           \/ Signal \/ BuffersFlushed \/ Exit \/ UNCHANGED socketVars
    PROVE  ReconnectInv'
<1>1. /\ Unmade /\ SuspendedSeen /\ CalmInv /\ NotStranded /\ SocketTypeOK
  BY DEF ReconnectInv, TypesInv, SocketInv
<1>2. CASE \E s \in suspended : HandlerFails(s)
  <2>1. /\ UNCHANGED <<socketGeneration, sockets, currentSock, requiresReauth, reconnectTimer,
                       seen, connects, reconnects>>
        /\ suspended' \subseteq suspended /\ process' = "died"
    BY <1>2 DEF HandlerFails, decisions
  <2>2. Unmade' /\ SuspendedSeen' /\ CalmInv'
    BY <1>1, <2>1, SocketsStand DEF Connecting, InProgress
  <2>3. NotStranded'
    BY <2>1 DEF NotStranded
  <2>4. QED
    BY <2>2, <2>3 DEF ReconnectInv
<1>3. CASE Signal \/ BuffersFlushed \/ Exit
  <2>1. /\ UNCHANGED <<socketGeneration, sockets, currentSock, requiresReauth, suspended,
                       seen, connects, reconnects>>
        /\ process' # "up" /\ reconnectTimer' \in {FALSE, reconnectTimer}
    BY <1>3 DEF Signal, BuffersFlushed, Exit, decisions
  <2>2. Unmade' /\ SuspendedSeen' /\ CalmInv'
    BY <1>1, <2>1, SocketsStand DEF Connecting, InProgress
  <2>3. NotStranded'
    BY <2>1 DEF NotStranded
  <2>4. QED
    BY <2>2, <2>3 DEF ReconnectInv
<1>4. CASE UNCHANGED socketVars
  BY <1>1, <1>4 DEF socketVars, decisions, ReconnectInv, Unmade, SuspendedSeen, CalmInv, Calm,
                    Holding, InProgress, Connecting, NotStranded, Alive
<1>5. ASSUME NEW q \in Reconnects,
             AuthCleared(q) \/ ReconnectFails(q) \/ (ReconnectGoesOn(q) /\ ShuttingDown)
      PROVE  ReconnectInv'
  <2>1. /\ UNCHANGED <<socketGeneration, sockets, currentSock, requiresReauth, suspended,
                       reconnectTimer, connects, process>>
        /\ seen'.late = seen.late /\ seen'.crossed = seen.crossed /\ seen'.overlap = seen.overlap
        /\ \/ seen' = seen /\ InProgress(q) /\ InProgress(q)'
           \/ seen'.abandoned
           \/ seen' = seen /\ process # "up"
    BY <1>1, <1>5 DEF AuthCleared, ReconnectFails, ReconnectGoesOn, ShuttingDown, decisions,
                      SocketTypeOK, InProgress
  <2>2. /\ InProgress(q)
        /\ \A x \in Reconnects : x # q => reconnects'[x] = reconnects[x]
    BY <1>1, <1>5 DEF AuthCleared, ReconnectFails, ReconnectGoesOn, SocketTypeOK, InProgress
  <2>3. \A x \in Reconnects : InProgress(x)' => InProgress(x)
    BY <2>2 DEF InProgress
  <2>4. Unmade' /\ SuspendedSeen' /\ CalmInv'
    BY <1>1, <2>1, <2>3, SocketsStand DEF Connecting
  <2>5. NotStranded'
    BY <2>1 DEF NotStranded, InProgress
  <2>6. QED
    BY <2>4, <2>5 DEF ReconnectInv
<1>6. QED
  BY <1>2, <1>3, <1>4, <1>5

\* Every step of the sockets keeps the invariant; a step of the timer is not of
\* a session that needs pairing, or something has been late or has crossed it.
LEMMA SocketNextReconnect ==
    ASSUME TypesInv, SocketInv, ReconnectInv, [SocketNext]_socketVars, TypesInv'
    PROVE  /\ ReconnectInv'
           /\ connects'[socketGeneration'].by = "timer" /\ socketGeneration' # socketGeneration
                 => ~requiresReauth \/ seen.late \/ seen.crossed
<1>1. CalmInv /\ SocketTypeOK /\ socketGeneration' \in Generations
  BY DEF ReconnectInv, TypesInv, SocketTypeOK
<1>2. CASE ReconnectTimerFires
  <2>1. /\ reconnectTimer /\ reconnectTimer' = FALSE /\ ConnectBegins("timer")
        /\ UNCHANGED <<suspended, requiresReauth, reconnects>>
    BY <1>2 DEF ReconnectTimerFires, decisions
  <2>2. Calm => /\ \A g \in Generations : ~Connecting(g)
                /\ \A q \in Reconnects : ~InProgress(q)'
                /\ ~requiresReauth
    BY <1>1, <2>1 DEF CalmInv, InProgress
  <2>3. ReconnectInv'
    BY <1>1, <2>1, <2>2, BeginsReconnect
  <2>4. QED
    BY <2>2, <2>3 DEF Calm
<1>3. ASSUME NEW q \in Reconnects, ReconnectGoesOn(q), ~ShuttingDown
      PROVE  ReconnectInv' /\ connects'[socketGeneration'].by # "timer"
  <2>1. /\ reconnects[q] \in {"cleared", "save"} /\ ConnectBegins(q)
        /\ reconnects' = [reconnects EXCEPT ![q] = "connect"]
        /\ UNCHANGED <<suspended, requiresReauth, reconnectTimer>>
    BY <1>3 DEF ReconnectGoesOn, decisions
  <2>2. Calm => /\ \A g \in Generations : ~Connecting(g)
                /\ ~reconnectTimer'
                /\ \A x \in Reconnects : ~InProgress(x)'
    BY <1>1, <2>1 DEF CalmInv, InProgress, SocketTypeOK
  <2>3. connects'[socketGeneration'].by = q
    BY <1>1, <2>1 DEF ConnectBegins, SocketTypeOK
  <2>4. q # "timer"
    BY SocketAssumption
  <2>5. QED
    BY <1>1, <2>1, <2>2, <2>3, <2>4, BeginsReconnect
<1>4. ASSUME NEW g \in Generations, AuthLoaded(g) \/ AuthFails(g) \/ SocketMade(g) \/ SocketEvent(g)
      PROVE  ReconnectInv' /\ socketGeneration' = socketGeneration
  BY <1>4, AuthReconnect, SocketMadeReconnect, SocketEventReconnect
     DEF AuthLoaded, AuthFails, SocketMade, SocketEvent
<1>5. ASSUME NEW s \in suspended, HandlerResumes(s)
      PROVE  ReconnectInv' /\ socketGeneration' = socketGeneration
  BY <1>5, HandlerReconnect DEF HandlerResumes
<1>6. ASSUME (\E q \in Reconnects : ReconnectAsked(q)) \/ ServerClosed
      PROVE  ReconnectInv' /\ socketGeneration' = socketGeneration
  BY <1>6, DisposeReconnect DEF ReconnectAsked, ServerClosed
<1>7. ASSUME \/ \E q \in Reconnects : \/ AuthCleared(q) \/ ReconnectFails(q)
                                      \/ ReconnectGoesOn(q) /\ ShuttingDown
             \/ \E s \in suspended : HandlerFails(s)
             \/ Signal \/ BuffersFlushed \/ Exit \/ UNCHANGED socketVars
      PROVE  ReconnectInv' /\ socketGeneration' = socketGeneration
  <2>1. ReconnectInv'
    BY <1>7, StandingReconnect
  <2>2. socketGeneration' = socketGeneration
    BY <1>7 DEF AuthCleared, ReconnectFails, ReconnectGoesOn, HandlerFails, Signal,
                BuffersFlushed, Exit, socketVars
  <2>3. QED
    BY <2>1, <2>2
<1>8. QED
  BY <1>2, <1>3, <1>4, <1>5, <1>6, <1>7 DEF SocketNext, BridgeRuns, Outside

\* At the start there is one connect and nothing else.
LEMMA InitReconnect == SocketInit => ReconnectInv
<1>1. SUFFICES ASSUME SocketInit PROVE ReconnectInv
  OBVIOUS
<1>2. /\ socketGeneration = 1 /\ currentSock = NoSocket /\ suspended = {} /\ ~reconnectTimer
      /\ sockets = [g \in Generations |-> "none"] /\ seen = NothingSeen
      /\ reconnects = [q \in Reconnects |-> "none"]
      /\ connects = [g \in Generations |->
                        [step |-> IF g = 1 THEN "auth" ELSE "none", by |-> "start", session |-> 0]]
  BY <1>1 DEF SocketInit
<1>3. Unmade /\ SuspendedSeen
  BY <1>2, GenerationFacts DEF Unmade, SuspendedSeen, Connecting
<1>4. CalmInv
  BY <1>2, GenerationFacts DEF CalmInv, Calm, NothingSeen, Holding, InProgress
<1>5. NotStranded
  BY <1>2, GenerationFacts DEF NotStranded, Connecting
<1>6. QED
  BY <1>3, <1>4, <1>5 DEF ReconnectInv

\* A running bridge is connected or something is under way to connect it, or it
\* tells the operator to pair again, for any number of closes and requests,
\* unless a handler was late (processConnectionUpdate, scheduleReconnect).
THEOREM NeverStranded == Spec => []NotStranded
<1>1. Init => TypesInv /\ SocketInv /\ ReconnectInv
  BY InitTypes, SocketInitInv, InitReconnect DEF Init
<1>2. /\ TypesInv /\ SocketInv /\ ReconnectInv /\ [Next]_vars
      => TypesInv' /\ SocketInv' /\ ReconnectInv'
  BY SocketsInComposition, SocketNextTypes, SocketNextInv, SocketNextReconnect
<1>3. ReconnectInv => NotStranded
  BY DEF ReconnectInv
<1>4. QED
  BY <1>1, <1>2, <1>3, PTL DEF Spec

\* The timer connects again with no session that needs pairing, however often
\* sockets close and the operator asks, unless a handler was late or a request
\* crossed a connect or another request (maybeRetryBadSession, connectSocket).
THEOREM ReauthIsNotLooped == Spec => ReauthNotLooped
<1> DEFINE Tried == connects'[socketGeneration'].by = "timer" /\ socketGeneration' # socketGeneration
                      => ~requiresReauth \/ seen.late \/ seen.crossed
<1>1. Init => TypesInv /\ SocketInv /\ ReconnectInv
  BY InitTypes, SocketInitInv, InitReconnect DEF Init
<1>2. /\ TypesInv /\ SocketInv /\ ReconnectInv /\ [Next]_vars
      => TypesInv' /\ SocketInv' /\ ReconnectInv'
  BY SocketsInComposition, SocketNextTypes, SocketNextInv, SocketNextReconnect
<1>3. /\ TypesInv /\ SocketInv /\ ReconnectInv /\ [Next]_vars => [Tried]_socketVars
  BY SocketsInComposition, SocketNextTypes, SocketNextReconnect
<1>4. QED
  BY <1>1, <1>2, <1>3, PTL DEF Spec, ReauthNotLooped

=============================================================================

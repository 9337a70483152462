---------------------------- MODULE MCBridgeSend ----------------------------
(***************************************************************************)
(* An instance of BridgeSend for TLC.                                      *)
(***************************************************************************)
EXTENDS BridgeSend

CONSTANTS q1, q2

\* Bounds: a reply is sent while at most one connection closes or the operator
\* asks once; the sockets alone are checked with all closes and one request, or
\* with two requests and no close.  The requests are alike: q1 comes first.
\* The last close comes while no handler awaits the saving of credentials.
Asked(q)     == reconnects[q] # "none"
Requests     == Cardinality({q \in Reconnects : Asked(q)})
SocketBound  == /\ (Asked(q2) => Asked(q1) /\ closes = 0)'
                /\ (closes = MaxCloses => suspended = {})'
ReplyBound   == (closes + Requests)' > 1 => send'.step = "idle"

MCSpec == Init /\ [][Next /\ SocketBound /\ ReplyBound]_vars /\ Fairness

=============================================================================

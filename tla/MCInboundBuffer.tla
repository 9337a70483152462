--------------------------- MODULE MCInboundBuffer ---------------------------
(***************************************************************************)
(* Instances of InboundBuffer for TLC: which messages arrive in which chat.*)
(***************************************************************************)
EXTENDS InboundBuffer

CONSTANTS c1, c2, m1, m2, m3, h1

\* The timestamps of the tenant's messages are not the order they arrive in.
Times   == [m \in Messages |-> CASE m = m1 -> 2 [] m = m2 -> 1 [] m = m3 -> 3 [] m = h1 -> 4]

\* Two chats: two messages of the tenant and one of the operator in the first,
\* one of another tenant in the second.
TwoChats == [m \in Messages |-> IF m = m3 THEN c2 ELSE c1]
=============================================================================

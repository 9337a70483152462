-------------------------- MODULE MCBridgeBackend --------------------------
(***************************************************************************)
(* Instances of BridgeBackend for TLC: which batches the bridge posts.     *)
(***************************************************************************)
EXTENDS BridgeBackendRefinement

CONSTANTS c1, c2, m1, m2, m3, m4, b1, b2, b3

lead(m)  == [id |-> m, kind |-> "lead"]
reset(m) == [id |-> m, kind |-> "reset"]
human(m) == [id |-> m, kind |-> "human"]

MCOutboundIds == (Batches \X (1..MaxAttempts)) \X (1..Parts)

\* One chat: an enquiry in two messages, and the operator's reply on the phone.
TakeoverChat     == [b \in Batches |-> c1]
TakeoverMessages == [b \in Batches |-> CASE b = b1 -> <<lead(m1), lead(m2)>>
                                         [] b = b2 -> <<human(m3)>>]

\* One chat: an enquiry, and a batch that starts with the reset command.
ResetChat     == [b \in Batches |-> c1]
ResetMessages == [b \in Batches |-> CASE b = b1 -> <<lead(m1)>>
                                      [] b = b2 -> <<reset(m2), lead(m3)>>]

\* One chat: two enquiries in batches of their own, the second flushed while
\* the first is in progress.
BurstsChat     == [b \in Batches |-> c1]
BurstsMessages == [b \in Batches |-> CASE b = b1 -> <<lead(m1)>>
                                       [] b = b2 -> <<lead(m2)>>]

\* Two chats: two enquiries as above in one of them, one in the other.
TwoChatsChat     == [b \in Batches |-> IF b = b3 THEN c2 ELSE c1]
TwoChatsMessages == [b \in Batches |-> CASE b = b1 -> <<lead(m1)>>
                                         [] b = b2 -> <<lead(m2)>>
                                         [] b = b3 -> <<lead(m3)>>]

============================================================================

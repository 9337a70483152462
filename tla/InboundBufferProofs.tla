------------------------- MODULE InboundBufferProofs -------------------------
(***************************************************************************)
(* Proofs about the burst buffers of the bridge, for any number of chats,  *)
(* messages, timers and attempts: the types, the match of timers and       *)
(* buffers, the one place of a message, the order in which the backend     *)
(* gets the messages, and what a shutdown posts.                           *)
(*                                                                         *)
(* The batch that a flush posts is a stable sort of the buffer.  That such *)
(* a sort exists for every batch is an induction over the length of the    *)
(* batch; it is made over a set of lengths, by its least element.          *)
(***************************************************************************)
EXTENDS InboundBuffer, FiniteSetTheorems, WellFoundedInduction, TLAPS

(***************************************************************************)
(* Induction                                                               *)
(***************************************************************************)

\* A set of natural numbers that is not empty has a least element.
LEMMA LeastNat ==
  ASSUME NEW T, T \subseteq Nat, T # {}
  PROVE  \E x \in T : \A y \in T : x <= y
<1> DEFINE R == {p \in Nat \X Nat : p[1] < p[2]}
<1>1. R = OpToRel(<, Nat)
  BY DEF OpToRel
<1>2. IsWellFoundedOn(R, Nat)
  BY <1>1, NatLessThanWellFounded
<1> HIDE DEF R
<1>3. PICK x \in T : \A y \in T : ~ (<<y, x>> \in R)
  BY <1>2, WFMin
<1>4. ASSUME NEW y \in T PROVE x <= y
  <2>1. y \in Nat /\ x \in Nat
    OBVIOUS
  <2>2. <<y, x>> \in Nat \X Nat
    BY <2>1
  <2>3. ~(y < x)
    BY <2>1, <2>2, <1>3 DEF R
  <2> QED BY <2>1, <2>3
<1> QED BY <1>4

\* A set that has 0 and the successor of each of its numbers has them all.
LEMMA SetInduction ==
  ASSUME NEW S, 0 \in S, \A n \in Nat : n \in S => n + 1 \in S
  PROVE  Nat \subseteq S
<1> SUFFICES ASSUME Nat \ S # {} PROVE FALSE
  OBVIOUS
<1>1. PICK x \in Nat \ S : \A y \in Nat \ S : x <= y
  BY LeastNat, Nat \ S \subseteq Nat
<1>2. x # 0 /\ x \in Nat
  BY <1>1
<1>3. x - 1 \in Nat /\ ~(x <= x - 1)
  BY <1>2
<1>4. x - 1 \in S
  BY <1>1, <1>3
<1> QED BY <1>1, <1>3, <1>4, <1>2, (x - 1) + 1 = x

(***************************************************************************)
(* Sorting                                                                 *)
(***************************************************************************)
\* Keys k of the indices 1..n, ordered by an order p without a tie left open.
Before(k, i, j) == k[i] < k[j] \/ (k[i] = k[j] /\ i < j)

InOrder(k, n, p) == \A i, j \in 1..n : i < j => Before(k, p[i], p[j])

\* The lengths for which every assignment of keys can be put in order.
Sortable ==
    {n \in Nat : \A k \in [1..n -> Nat] : \E p \in [1..n -> 1..n] : InOrder(k, n, p)}

\* One more element can be put where it belongs: before the first one, in the
\* order of the others, that is greater.
LEMMA InsertOne ==
  ASSUME NEW n \in Sortable
  PROVE  n + 1 \in Sortable
<1>1. n \in Nat /\ n + 1 \in Nat
  BY DEF Sortable
<1>2. ASSUME NEW k \in [1..(n + 1) -> Nat]
      PROVE  \E p \in [1..(n + 1) -> 1..(n + 1)] : InOrder(k, n + 1, p)
  <2> DEFINE r == [i \in 1..n |-> k[i]]
  <2>1. r \in [1..n -> Nat]
    BY <1>1
  <2>2. PICK o \in [1..n -> 1..n] : InOrder(r, n, o)
    BY <2>1 DEF Sortable
  <2>3. \A i, j \in 1..n : i < j => Before(k, o[i], o[j])
    BY <2>2, <1>1 DEF InOrder, Before
  <2> DEFINE G == {i \in 1..(n + 1) : i = n + 1 \/ k[o[i]] > k[n + 1]}
  <2>4. G \subseteq Nat /\ G # {}
    <3>1. n + 1 \in 1..(n + 1)
      BY <1>1
    <3>2. n + 1 \in G
      BY <3>1
    <3>3. G \subseteq 1..(n + 1)
      OBVIOUS
    <3> HIDE DEF G
    <3> QED BY <3>2, <3>3, <1>1
  <2>5. PICK g \in G : \A y \in G : g <= y
    BY <2>4, LeastNat
  <2>6. g \in 1..(n + 1)
    OBVIOUS
  <2>7. \A i \in 1..n : i < g => k[o[i]] <= k[n + 1]
    <3>1. ASSUME NEW i \in 1..n, i < g PROVE k[o[i]] <= k[n + 1]
      <4>1. i \in 1..(n + 1) /\ i \in Nat /\ g \in Nat
        BY <1>1, <2>6
      <4>2. i \notin G
        BY <2>5, <3>1, <4>1
      <4>3. ~(k[o[i]] > k[n + 1])
        BY <4>1, <4>2
      <4>4. o[i] \in 1..(n + 1) /\ n + 1 \in 1..(n + 1)
        BY <1>1
      <4>5. k[o[i]] \in Nat /\ k[n + 1] \in Nat
        BY <4>4
      <4> QED BY <4>3, <4>5
    <3> QED BY <3>1
  <2>8. \A i \in 1..n : i >= g => k[o[i]] > k[n + 1]
    <3>1. g = n + 1 \/ k[o[g]] > k[n + 1]
      OBVIOUS
    <3>2. ASSUME NEW i \in 1..n, i > g PROVE k[o[i]] > k[n + 1]
      <4>1. g \in 1..n /\ g < i
        BY <3>2, <1>1, <2>6
      <4>2. Before(k, o[g], o[i])
        BY <4>1, <2>3
      <4>3. k[o[g]] > k[n + 1]
        BY <4>1, <3>1, <1>1
      <4>4. k[o[g]] \in Nat /\ k[o[i]] \in Nat /\ k[n + 1] \in Nat
        BY <4>1, <1>1
      <4> QED BY <4>2, <4>3, <4>4 DEF Before
    <3> QED BY <3>1, <3>2, <1>1, <2>6
  <2> HIDE DEF G
  <2> DEFINE p == [i \in 1..(n + 1) |->
                     IF i < g THEN o[i] ELSE IF i = g THEN n + 1 ELSE o[i - 1]]
  <2>9. ASSUME NEW i \in 1..(n + 1)
        PROVE  /\ i < g => i \in 1..n /\ p[i] = o[i] /\ o[i] \in 1..n
               /\ i = g => p[i] = n + 1
               /\ i > g => i - 1 \in 1..n /\ i - 1 >= g
                           /\ p[i] = o[i - 1] /\ o[i - 1] \in 1..n
    <3>1. i < g => i \in 1..n
      BY <1>1, <2>6
    <3>2. i > g => i - 1 \in 1..n /\ i - 1 >= g
      BY <1>1, <2>6
    <3>3. i < g => p[i] = o[i]
      OBVIOUS
    <3>4. i = g => p[i] = n + 1
      BY <1>1, <2>6
    <3>5. i > g => p[i] = o[i - 1]
      BY <1>1, <2>6
    <3>6. \A j \in 1..n : o[j] \in 1..n
      OBVIOUS
    <3> QED BY <3>1, <3>2, <3>3, <3>4, <3>5, <3>6
  <2>10. p \in [1..(n + 1) -> 1..(n + 1)]
    <3>1. \A i \in 1..(n + 1) : p[i] \in 1..(n + 1)
      BY <2>9, <1>1, <2>6
    <3> QED BY <3>1
  <2> HIDE DEF p
  <2>11. ASSUME NEW i \in 1..(n + 1), NEW j \in 1..(n + 1), i < j
         PROVE  Before(k, p[i], p[j])
    <3>0. i \in Nat /\ j \in Nat /\ g \in Nat
      BY <1>1, <2>6
    <3>1. CASE j < g
      <4>1. i < g
        BY <3>1, <2>11, <3>0
      <4>2. i \in 1..n /\ j \in 1..n /\ p[i] = o[i] /\ p[j] = o[j]
        BY <2>9, <3>1, <4>1
      <4> QED BY <4>2, <2>3, <2>11
    <3>2. CASE j = g
      <4>1. i \in 1..n /\ i < g /\ p[i] = o[i] /\ o[i] \in 1..n /\ p[j] = n + 1
        BY <2>9, <3>2, <2>11
      <4>2. k[o[i]] <= k[n + 1]
        BY <4>1, <2>7
      <4>3. k[o[i]] \in Nat /\ k[n + 1] \in Nat /\ o[i] < n + 1
        <5>1. o[i] \in 1..(n + 1) /\ n + 1 \in 1..(n + 1) /\ o[i] < n + 1
          <6> DEFINE x == o[i]
          <6>1. x \in 1..n
            BY <4>1
          <6> HIDE DEF x
          <6>2. x \in 1..(n + 1) /\ n + 1 \in 1..(n + 1) /\ x < n + 1
            BY <6>1, <1>1
          <6> QED BY <6>2 DEF x
        <5> QED BY <5>1
      <4> QED BY <4>1, <4>2, <4>3 DEF Before
    <3>3. CASE j > g
      <4>1. j - 1 \in 1..n /\ j - 1 >= g /\ p[j] = o[j - 1] /\ o[j - 1] \in 1..n
        BY <2>9, <3>3
      <4>2. CASE i < g
        <5>1. i \in 1..n /\ p[i] = o[i] /\ i < j - 1
          BY <2>9, <4>2, <4>1, <3>0
        <5> QED BY <5>1, <4>1, <2>3
      <4>3. CASE i = g
        <5>1. p[i] = n + 1
          BY <2>9, <4>3
        <5>2. k[o[j - 1]] > k[n + 1]
          BY <4>1, <2>8
        <5>3. k[o[j - 1]] \in Nat /\ k[n + 1] \in Nat
          BY <4>1, <1>1
        <5> QED BY <5>1, <5>2, <5>3, <4>1 DEF Before
      <4>4. CASE i > g
        <5>1. i - 1 \in 1..n /\ p[i] = o[i - 1] /\ i - 1 < j - 1
          BY <2>9, <4>4, <2>11, <3>0
        <5> QED BY <5>1, <4>1, <2>3
      <4> QED BY <4>2, <4>3, <4>4, <3>0
    <3> QED BY <3>1, <3>2, <3>3, <3>0
  <2> QED BY <2>10, <2>11 DEF InOrder
<1> QED BY <1>1, <1>2 DEF Sortable

\* Every batch can be put in order.
LEMMA AllSortable == Nat \subseteq Sortable
<1>1. 0 \in Sortable
  <2>1. ASSUME NEW k \in [1..0 -> Nat]
        PROVE  \E p \in [1..0 -> 1..0] : InOrder(k, 0, p)
    <3>1. k \in [1..0 -> 1..0] /\ InOrder(k, 0, k)
      BY 1..0 = {} DEF InOrder
    <3> QED BY <3>1
  <2> QED BY <2>1 DEF Sortable
<1> QED BY <1>1, InsertOne, SetInduction

\* The batch that is posted has the messages of the buffer, none left out and
\* none added.
LEMMA SortedBatch ==
  ASSUME NEW batch \in Seq(Messages)
  PROVE  /\ Sorted(batch) \in Seq(Messages)
         /\ Len(Sorted(batch)) = Len(batch)
         /\ RangeOf(Sorted(batch)) = RangeOf(batch)
<1> DEFINE n == Len(batch)
           D == 1..n
           k == [i \in D |-> Timestamp[batch[i]]]
           order == CHOOSE p \in SortingOrders(batch) : TRUE
<1>1. n \in Nat /\ DOMAIN batch = D /\ \A i \in D : batch[i] \in Messages
  OBVIOUS
<1>2. k \in [D -> Nat]
  BY <1>1, BufferAssumption
<1>3. PICK p \in [D -> D] : InOrder(k, n, p)
  BY <1>1, <1>2, AllSortable DEF Sortable
<1>4. ASSUME NEW i \in D, NEW j \in D
      PROVE  Before(k, i, j) <=> Precedes(batch, i, j)
  BY <1>1 DEF Before, Precedes
<1> HIDE DEF k
<1>5. p \in SortingOrders(batch)
  <2>1. \A i, j \in D : i < j => Precedes(batch, p[i], p[j])
    BY <1>3, <1>4 DEF InOrder
  <2> QED BY <2>1, <1>1, <1>3 DEF SortingOrders
<1>6. order \in SortingOrders(batch)
  BY <1>5
<1> HIDE DEF order
<1>7. order \in [D -> D] /\ \A i, j \in D : i < j => Precedes(batch, order[i], order[j])
  BY <1>6, <1>1 DEF SortingOrders
<1>8. \A i, j \in D : order[i] = order[j] => i = j
  <2>1. ASSUME NEW i \in D, NEW j \in D, i < j PROVE order[i] # order[j]
    <3>1. Precedes(batch, order[i], order[j]) /\ order[i] \in D /\ order[j] \in D
      BY <2>1, <1>7
    <3>2. \A x \in D : Timestamp[batch[x]] \in Nat /\ x \in Nat
      BY <1>1, BufferAssumption
    <3> QED BY <3>1, <3>2 DEF Precedes
  <2> QED BY <2>1, <1>1
<1>9. \A x \in D : \E i \in D : order[i] = x
  <2>1. IsFiniteSet(D)
    BY <1>1, FS_Interval
  <2>2. order \in Injection(D, D)
    BY <1>7, <1>8 DEF Injection, IsInjective
  <2>3. order \in Surjection(D, D)
    BY <2>1, <2>2, FS_Injection
  <2> QED BY <2>3 DEF Surjection
<1>10. Sorted(batch) = [i \in D |-> batch[order[i]]]
  BY <1>1 DEF Sorted, order
<1> HIDE DEF n
<1>11. \A i \in D : order[i] \in D
  BY <1>7
<1>12. Sorted(batch) \in Seq(Messages)
  BY <1>1, <1>10, <1>11
<1>13. Len(Sorted(batch)) = n
  BY <1>1, <1>10
<1>14. RangeOf(Sorted(batch)) = RangeOf(batch)
  <2>1. DOMAIN Sorted(batch) = D /\ \A i \in D : Sorted(batch)[i] = batch[order[i]]
    BY <1>10
  <2>2. ASSUME NEW x \in RangeOf(Sorted(batch)) PROVE x \in RangeOf(batch)
    <3>1. PICK i \in D : x = batch[order[i]]
      BY <2>1 DEF RangeOf
    <3>2. order[i] \in D
      BY <1>11
    <3> QED BY <3>1, <3>2, <1>1 DEF RangeOf
  <2>3. ASSUME NEW x \in D PROVE batch[x] \in RangeOf(Sorted(batch))
    <3>1. PICK i \in D : order[i] = x
      BY <1>9
    <3> QED BY <3>1, <2>1 DEF RangeOf
  <2> QED BY <2>2, <2>3, <1>1 DEF RangeOf
<1> QED BY <1>12, <1>13, <1>14 DEF n

(***************************************************************************)
(* The inductive invariants                                                *)
(***************************************************************************)
\* A timer has a number from 1 on.  A question that is open about the buffer
\* a chat has now means that this buffer has no timer yet, and no question
\* is about a buffer still to be made.
QuestionsAndTimers ==
    /\ \A t \in armed : t[3] # 0
    /\ \A f \in fetches : f[2] <= buffers[f[1]].made
    /\ \A c \in Chats : Pending(c) /\ <<c, buffers[c].made>> \in fetches
                            => buffers[c].timer = 0

TimerInv == TimersMatchBuffers /\ QuestionsAndTimers

Buffered(c) == RangeOf(buffers[c].messages)

\* Messages stay in their chat; no message is received twice; what the tenant
\* wrote is in the buffer of the chat or was posted.
Contents ==
    /\ \A i, j \in DOMAIN received : received[i] = received[j] => i = j
    /\ \A c \in Chats : Buffered(c) \subseteq
                            {m \in RangeOf(received) \ FromMe : ChatOf[m] = c}
    /\ \A c \in Chats : PostedMessages(c) \subseteq {m \in RangeOf(received) : ChatOf[m] = c}
    /\ \A w \in waiting : w.message \in RangeOf(received)
    /\ \A m \in RangeOf(received) \ FromMe :
           m \in Buffered(ChatOf[m]) \cup PostedMessages(ChatOf[m])

\* What was posted came before what is still buffered.
PostedFirst ==
    \A c \in Chats : \A a \in PostedMessages(c) \ FromMe, b \in Buffered(c) :
        ReceivedBefore(a, b)

\* What the tenant wrote before an operator message that waits was posted.
WaitingIsNext ==
    \A w \in waiting : \A m \in RangeOf(received) \ FromMe :
        ChatOf[m] = ChatOf[w.message] /\ ReceivedBefore(m, w.message)
            => m \in PostedMessages(ChatOf[m])

OrderInv == Contents /\ PostedFirst /\ WaitingIsNext /\ PostedInOrder

\* What was in a buffer at the signal was posted, or its chat is still to be
\* flushed and has it; the process exits after the last chat.
OwedOrPosted ==
    process # "up" =>
        \A m \in flushing.owed :
            \/ \E c \in Chats : m \in PostedMessages(c)
            \/ \E c \in flushing.chats : m \in Buffered(c)

ShutdownInv == OwedOrPosted /\ (process = "down" => flushing.chats = {})

\* A message is nowhere before it is received and in one place afterwards,
\* and two posts in progress have no message in common.
PlaceInv ==
    /\ \A m \in Messages \ RangeOf(received) : Places(m) = {}
    /\ \A m \in RangeOf(received) : \E x : Places(m) = {x}
    /\ \A p, q \in posts : RangeOf(p.batch) \cap RangeOf(q.batch) # {} => p = q

(***************************************************************************)
(* Types                                                                   *)
(***************************************************************************)
BufferType == [made : Nat, messages : Seq(Messages), timer : Nat]
PostType == [chat : Chats, batch : Seq(Messages), tries : 1..MaxTries]

\* The types of the initial states.
LEMMA InitTypeOK == Init => TypeOK
<1> SUFFICES ASSUME Init PROVE TypeOK
  OBVIOUS
<1>1. [chats |-> {}, batch |-> NoBatch, owed |-> {}]
          \in [chats : SUBSET Chats, batch : Seq(Messages), owed : SUBSET Messages]
  BY DEF NoBatch
<1>2. flushing \in [chats : SUBSET Chats, batch : Seq(Messages), owed : SUBSET Messages]
  BY <1>1 DEF Init
<1>3. received \in Seq(Messages) /\ process \in {"up", "stopping", "down"}
  BY DEF Init
<1>4. buffers \in [Chats -> [made : Nat, messages : Seq(Messages), timer : Nat]]
  BY DEF Init
<1>5. posted \in [Chats -> Seq(Seq(Messages))]
  BY DEF Init
<1> QED BY <1>2, <1>3, <1>4, <1>5 DEF Init, TypeOK

\* The batch of a chat is a sequence of the messages in its buffer.
LEMMA BatchIsTyped ==
  ASSUME TypeOK, NEW c \in Chats
  PROVE  /\ buffers[c].messages \in Seq(Messages)
         /\ BatchOf(c) \in Seq(Messages)
         /\ RangeOf(BatchOf(c)) = RangeOf(buffers[c].messages)
<1>1. buffers[c].messages \in Seq(Messages)
  BY DEF TypeOK
<1> QED BY <1>1, SortedBatch DEF BatchOf

\* Starting a post keeps the types.
LEMMA StartPostTyped ==
  ASSUME TypeOK, NEW c \in Chats, NEW batch \in Seq(Messages), StartPost(c, batch)
  PROVE  /\ posts' \subseteq PostType
         /\ posted' \in [Chats -> Seq(Seq(Messages))]
<1>1. [chat |-> c, batch |-> batch, tries |-> 1] \in PostType
  BY BufferAssumption DEF PostType
<1>2. posts' \subseteq PostType
  BY <1>1 DEF StartPost, TypeOK, PostType
<1>3. posted[c] \in Seq(Seq(Messages))
  BY DEF TypeOK
<1>4. Append(posted[c], batch) \in Seq(Seq(Messages))
  BY <1>3
<1> QED BY <1>2, <1>4 DEF StartPost, TypeOK

\* So does a flush.
LEMMA FlushTyped ==
  ASSUME TypeOK, NEW c \in Chats, Flush(c)
  PROVE  /\ buffers' \in [Chats -> BufferType]
         /\ armed' \subseteq Chats \X Nat \X Nat
         /\ posts' \subseteq PostType
         /\ posted' \in [Chats -> Seq(Seq(Messages))]
<1>1. CASE Pending(c)
  <2>1. StartPost(c, BatchOf(c))
    BY <1>1 DEF Flush
  <2>2. posts' \subseteq PostType /\ posted' \in [Chats -> Seq(Seq(Messages))]
    BY <2>1, StartPostTyped, BatchIsTyped
  <2>3. buffers' \in [Chats -> BufferType]
    <3>1. buffers' = [buffers EXCEPT ![c].messages = << >>, ![c].timer = 0]
      BY <1>1 DEF Flush
    <3>2. << >> \in Seq(Messages)
      OBVIOUS
    <3> QED BY <3>1, <3>2 DEF TypeOK, BufferType
  <2>4. armed' \subseteq Chats \X Nat \X Nat
    BY <1>1 DEF Flush, TypeOK
  <2> QED BY <2>2, <2>3, <2>4
<1>2. CASE ~Pending(c)
  BY <1>2 DEF Flush, TypeOK, BufferType, PostType
<1> QED BY <1>1, <1>2

\* Arriving messages are added to what was received.
LEMMA ArrivesTyped ==
  ASSUME TypeOK, NEW m \in Messages, Arrives(m)
  PROVE  received' \in Seq(Messages) /\ ChatOf[m] \in Chats
BY BufferAssumption DEF TypeOK, Arrives

\* The types of the next state, from the variables that change.
LEMMA TypedNext ==
  ASSUME received' \in Seq(Messages),
         buffers' \in [Chats -> BufferType],
         armed' \subseteq Chats \X Nat \X Nat,
         fetches' \subseteq Chats \X Nat,
         waiting' \subseteq [message : FromMe, batch : Seq(Messages)],
         posts' \subseteq PostType,
         posted' \in [Chats -> Seq(Seq(Messages))],
         forwarded' \subseteq Seq(Messages),
         failed' \subseteq Seq(Messages),
         process' \in {"up", "stopping", "down"},
         flushing' \in [chats : SUBSET Chats, batch : Seq(Messages), owed : SUBSET Messages]
  PROVE  TypeOK'
BY DEF TypeOK, BufferType, PostType

\* Every step keeps the types.
LEMMA NextTypeOK == TypeOK /\ [Next]_vars => TypeOK'
<1> SUFFICES ASSUME TypeOK, [Next]_vars PROVE TypeOK'
  OBVIOUS
<1>0. /\ received \in Seq(Messages)
      /\ buffers \in [Chats -> BufferType]
      /\ armed \subseteq Chats \X Nat \X Nat
      /\ fetches \subseteq Chats \X Nat
      /\ waiting \subseteq [message : FromMe, batch : Seq(Messages)]
      /\ posts \subseteq PostType
      /\ posted \in [Chats -> Seq(Seq(Messages))]
      /\ forwarded \subseteq Seq(Messages)
      /\ failed \subseteq Seq(Messages)
      /\ process \in {"up", "stopping", "down"}
      /\ flushing \in [chats : SUBSET Chats, batch : Seq(Messages), owed : SUBSET Messages]
  BY DEF TypeOK, BufferType, PostType
<1>1. ASSUME NEW m \in Messages, ReceiveFromMe(m) PROVE TypeOK'
  <2> DEFINE c == ChatOf[m]
             batch == IF Pending(c) THEN BatchOf(c) ELSE NoBatch
  <2>1. received' \in Seq(Messages) /\ c \in Chats
    BY <1>1, ArrivesTyped DEF ReceiveFromMe
  <2>2. Flush(c)
    BY <1>1 DEF ReceiveFromMe
  <2>3. batch \in Seq(Messages)
    BY <2>1, BatchIsTyped DEF NoBatch
  <2>4. waiting' = waiting \cup {[message |-> m, batch |-> batch]}
    BY <1>1 DEF ReceiveFromMe
  <2> HIDE DEF batch
  <2>5. waiting' \subseteq [message : FromMe, batch : Seq(Messages)]
    BY <1>0, <1>1, <2>3, <2>4 DEF ReceiveFromMe
  <2>6. UNCHANGED <<fetches, forwarded, failed, process, flushing>>
    BY <1>1 DEF ReceiveFromMe
  <2> HIDE DEF c
  <2>7. /\ buffers' \in [Chats -> BufferType]
        /\ armed' \subseteq Chats \X Nat \X Nat
        /\ posts' \subseteq PostType
        /\ posted' \in [Chats -> Seq(Seq(Messages))]
    BY <2>1, <2>2, FlushTyped
  <2> QED BY <1>0, <2>1, <2>5, <2>6, <2>7, TypedNext
<1>2. ASSUME NEW m \in Messages, ReceiveMore(m) PROVE TypeOK'
  <2> DEFINE c == ChatOf[m]
             t == buffers[c].timer
  <2>1. received' \in Seq(Messages) /\ c \in Chats
    BY <1>2, ArrivesTyped DEF ReceiveMore
  <2>2. t \in Nat /\ buffers[c].made \in Nat /\ buffers[c].messages \in Seq(Messages)
    BY <1>0, <2>1 DEF BufferType
  <2>3. buffers' = [buffers EXCEPT ![c].messages = Append(@, m),
                                   ![c].timer = IF t = 0 THEN 0 ELSE t + 1]
    BY <1>2 DEF ReceiveMore
  <2>4. armed' = IF t = 0 THEN armed
                 ELSE (armed \ {<<c, buffers[c].made, t>>})
                          \cup {<<c, buffers[c].made, t + 1>>}
    BY <1>2 DEF ReceiveMore
  <2>5. UNCHANGED <<fetches, waiting, posts, posted, forwarded, failed, process, flushing>>
    BY <1>2 DEF ReceiveMore
  <2> HIDE DEF c, t
  <2>6. Append(buffers[c].messages, m) \in Seq(Messages) /\ t + 1 \in Nat
    BY <2>2
  <2>7. buffers' \in [Chats -> BufferType]
    BY <1>0, <2>1, <2>2, <2>3, <2>6 DEF BufferType
  <2>8. armed' \subseteq Chats \X Nat \X Nat
    BY <1>0, <2>1, <2>2, <2>4, <2>6
  <2> QED BY <1>0, <2>1, <2>5, <2>7, <2>8, TypedNext
<1>3. ASSUME NEW m \in Messages, ReceiveFirst(m) PROVE TypeOK'
  <2> DEFINE c == ChatOf[m]
             n == buffers[c].made + 1
  <2>1. received' \in Seq(Messages) /\ c \in Chats
    BY <1>3, ArrivesTyped DEF ReceiveFirst
  <2>2. n \in Nat /\ <<m>> \in Seq(Messages)
    BY <1>0, <2>1 DEF BufferType
  <2>3. buffers' = [buffers EXCEPT ![c] = [made |-> n, messages |-> <<m>>, timer |-> 0]]
    BY <1>3 DEF ReceiveFirst
  <2>4. fetches' = fetches \cup {<<c, n>>}
    BY <1>3 DEF ReceiveFirst
  <2>5. UNCHANGED <<armed, waiting, posts, posted, forwarded, failed, process, flushing>>
    BY <1>3 DEF ReceiveFirst
  <2> HIDE DEF c, n
  <2>6. [made |-> n, messages |-> <<m>>, timer |-> 0] \in BufferType
    BY <2>2 DEF BufferType
  <2>7. buffers' \in [Chats -> BufferType]
    BY <1>0, <2>3, <2>6
  <2> QED BY <1>0, <2>1, <2>2, <2>4, <2>5, <2>7, TypedNext
<1>4. ASSUME NEW f \in fetches, FetchReturns(f) PROVE TypeOK'
  <2>1. f[1] \in Chats /\ f[2] \in Nat
    BY <1>0
  <2>2. fetches' \subseteq Chats \X Nat
    BY <1>0, <1>4 DEF FetchReturns
  <2>3. UNCHANGED <<received, waiting, forwarded, failed, process, flushing>>
    BY <1>4 DEF FetchReturns
  <2>4. CASE Flush(f[1])
    BY <1>0, <2>1, <2>2, <2>3, <2>4, FlushTyped, TypedNext
  <2>5. CASE /\ buffers' = [buffers EXCEPT ![f[1]].timer = 1]
             /\ armed' = armed \cup {<<f[1], f[2], 1>>}
             /\ UNCHANGED <<posts, posted>>
    <3>1. buffers' \in [Chats -> BufferType]
      BY <1>0, <2>1, <2>5 DEF BufferType
    <3>2. armed' \subseteq Chats \X Nat \X Nat
      BY <1>0, <2>1, <2>5
    <3> QED BY <1>0, <2>2, <2>3, <2>5, <3>1, <3>2, TypedNext
  <2>6. CASE UNCHANGED <<buffers, armed, posts, posted>>
    BY <1>0, <2>2, <2>3, <2>6, TypedNext
  <2> QED BY <1>4, <2>4, <2>5, <2>6 DEF FetchReturns
<1>5. ASSUME NEW t \in armed, TimerFires(t) PROVE TypeOK'
  <2>1. t[1] \in Chats
    BY <1>0
  <2>2. UNCHANGED <<received, fetches, waiting, forwarded, failed, process, flushing>>
    BY <1>5 DEF TimerFires
  <2>3. CASE Pending(t[1])
    <3>1. StartPost(t[1], BatchOf(t[1]))
      BY <1>5, <2>3 DEF TimerFires
    <3>2. posts' \subseteq PostType /\ posted' \in [Chats -> Seq(Seq(Messages))]
      BY <2>1, <3>1, StartPostTyped, BatchIsTyped
    <3>3. buffers' = [buffers EXCEPT ![t[1]].messages = << >>, ![t[1]].timer = 0]
      BY <1>5, <2>3 DEF TimerFires
    <3>4. << >> \in Seq(Messages)
      OBVIOUS
    <3>5. buffers' \in [Chats -> BufferType]
      BY <1>0, <2>1, <3>3, <3>4 DEF BufferType
    <3>6. armed' \subseteq Chats \X Nat \X Nat
      BY <1>0, <1>5, <2>3 DEF TimerFires
    <3> QED BY <1>0, <2>2, <3>2, <3>5, <3>6, TypedNext
  <2>4. CASE ~Pending(t[1])
    <3>1. armed' \subseteq armed /\ UNCHANGED <<buffers, posts, posted>>
      BY <1>5, <2>4 DEF TimerFires
    <3> QED BY <1>0, <2>2, <3>1, TypedNext
  <2> QED BY <2>3, <2>4
<1>6. ASSUME NEW w \in waiting, ForwardImmediate(w) PROVE TypeOK'
  <2>1. w.message \in Messages /\ ChatOf[w.message] \in Chats
    BY <1>0, BufferAssumption
  <2>2. StartPost(ChatOf[w.message], <<w.message>>)
    BY <1>6 DEF ForwardImmediate
  <2> DEFINE batch == <<w.message>>
  <2>5. batch \in Seq(Messages)
    BY <2>1
  <2> HIDE DEF batch
  <2>6. StartPost(ChatOf[w.message], batch)
    BY <2>2 DEF batch
  <2>3. posts' \subseteq PostType /\ posted' \in [Chats -> Seq(Seq(Messages))]
    BY <2>1, <2>5, <2>6, StartPostTyped
  <2>4. /\ waiting' \subseteq waiting
        /\ UNCHANGED <<received, buffers, armed, fetches, forwarded, failed, process, flushing>>
    BY <1>6 DEF ForwardImmediate
  <2> QED BY <1>0, <2>3, <2>4, TypedNext
<1>7. ASSUME NEW p \in posts, PostSucceeds(p) PROVE TypeOK'
  <2>1. p.batch \in Seq(Messages)
    BY <1>0 DEF PostType
  <2>2. /\ posts' \subseteq posts /\ forwarded' = forwarded \cup {p.batch}
        /\ UNCHANGED <<received, buffers, armed, fetches, waiting, posted, failed,
                       process, flushing>>
    BY <1>7 DEF PostSucceeds
  <2> QED BY <1>0, <2>1, <2>2, TypedNext
<1>8. ASSUME NEW p \in posts, AttemptFails(p) PROVE TypeOK'
  <2>1. p \in PostType /\ p.batch \in Seq(Messages) /\ p.tries \in 1..MaxTries
    BY <1>0 DEF PostType
  <2>2. UNCHANGED <<received, buffers, armed, fetches, waiting, posted, forwarded,
                    process, flushing>>
    BY <1>8 DEF AttemptFails
  <2>3. CASE p.tries < MaxTries
    <3> DEFINE q == [p EXCEPT !.tries = @ + 1]
    <3>1. p.tries + 1 \in 1..MaxTries
      BY <2>1, <2>3, BufferAssumption
    <3>2. q \in PostType
      BY <2>1, <3>1 DEF PostType
    <3>3. posts' = (posts \ {p}) \cup {q} /\ failed' = failed
      BY <1>8, <2>3 DEF AttemptFails
    <3> HIDE DEF q
    <3> QED BY <1>0, <2>2, <3>2, <3>3, TypedNext
  <2>4. CASE ~(p.tries < MaxTries)
    <3>1. posts' \subseteq posts /\ failed' = failed \cup {p.batch}
      BY <1>8, <2>4 DEF AttemptFails
    <3> QED BY <1>0, <2>1, <2>2, <3>1, TypedNext
  <2> QED BY <2>3, <2>4
<1>9. ASSUME Stop PROVE TypeOK'
  <2>1. \A c \in Chats : RangeOf(buffers[c].messages) \subseteq Messages
    <3>1. \A c \in Chats : buffers[c].messages \in Seq(Messages)
      BY <1>0 DEF BufferType
    <3> QED BY <3>1 DEF RangeOf
  <2> DEFINE chats == {c \in Chats : Pending(c)}
             owed == UNION {RangeOf(buffers[c].messages) : c \in Chats}
  <2>2. chats \subseteq Chats /\ owed \subseteq Messages /\ NoBatch \in Seq(Messages)
    BY <2>1 DEF NoBatch
  <2>3. flushing' = [chats |-> chats, batch |-> NoBatch, owed |-> owed]
    BY <1>9 DEF Stop
  <2>4. /\ process' = "stopping"
        /\ UNCHANGED <<received, buffers, armed, fetches, waiting, posts, posted,
                       forwarded, failed>>
    BY <1>9 DEF Stop
  <2> HIDE DEF chats, owed
  <2> QED BY <1>0, <2>2, <2>3, <2>4, TypedNext
<1>10. ASSUME FlushNext PROVE TypeOK'
  <2>1. PICK c \in flushing.chats :
            /\ Flush(c)
            /\ flushing' = [flushing EXCEPT !.chats = @ \ {c},
                               !.batch = IF Pending(c) THEN BatchOf(c) ELSE NoBatch]
    BY <1>10 DEF FlushNext
  <2>2. UNCHANGED <<received, fetches, waiting, forwarded, failed, process>>
    BY <1>10 DEF FlushNext
  <2>3. c \in Chats /\ flushing.chats \ {c} \in SUBSET Chats
    BY <1>0
  <2> DEFINE batch == IF Pending(c) THEN BatchOf(c) ELSE NoBatch
  <2>4. batch \in Seq(Messages)
    BY <2>3, BatchIsTyped DEF NoBatch
  <2> HIDE DEF batch
  <2>5. flushing' = [flushing EXCEPT !.chats = @ \ {c}, !.batch = batch]
    BY <2>1 DEF batch
  <2>6. flushing' \in [chats : SUBSET Chats, batch : Seq(Messages), owed : SUBSET Messages]
    BY <1>0, <2>3, <2>4, <2>5
  <2> QED BY <1>0, <2>1, <2>2, <2>3, <2>6, FlushTyped, TypedNext
<1>11. ASSUME Exit PROVE TypeOK'
  BY <1>0, <1>11, TypedNext DEF Exit
<1>12. ASSUME Rest \/ UNCHANGED vars PROVE TypeOK'
  BY <1>0, <1>12, TypedNext DEF Rest, vars
<1> QED BY <1>1, <1>2, <1>3, <1>4, <1>5, <1>6, <1>7, <1>8, <1>9, <1>10, <1>11, <1>12 DEF Next

\* Every variable keeps its type: whatever is posted, forwarded or given up is
\* a sequence of messages, and no post makes more attempts than it may.
THEOREM TypeCorrect == Spec => []TypeOK
BY InitTypeOK, NextTypeOK, PTL DEF Spec

(***************************************************************************)
(* Timers and buffers                                                      *)
(***************************************************************************)
LEMMA InitTimerInv == Init => TimerInv
BY DEF Init, TimerInv, TimersMatchBuffers, NoOrphanBuffer, NoStaleTimer, QuestionsAndTimers,
       Pending

\* Buffers and timers of a chat after a flush: none is left, and those of the
\* other chats are as they were.
LEMMA FlushClears ==
  ASSUME TypeOK, TimerInv, NEW c \in Chats, Flush(c)
  PROVE  /\ ~Pending(c)'
         /\ \A t \in armed' : t \in armed /\ t[1] # c
         /\ \A t \in armed : t[1] # c => t \in armed'
         /\ buffers'[c].made = buffers[c].made
         /\ \A d \in Chats \ {c} : buffers'[d] = buffers[d]
<1>1. \A t \in armed : t \in Chats \X Nat \X Nat /\ t = <<t[1], t[2], t[3]>>
  BY DEF TypeOK
<1>2. \A t \in armed : t[1] = c =>
          Pending(c) /\ t[2] = buffers[c].made /\ t[3] = buffers[c].timer
  BY DEF TimerInv, TimersMatchBuffers, NoStaleTimer
<1>3. CASE Pending(c)
  <2>1. buffers' = [buffers EXCEPT ![c].messages = << >>, ![c].timer = 0]
    BY <1>3 DEF Flush
  <2>2. armed' = armed \ {<<c, buffers[c].made, buffers[c].timer>>}
    BY <1>3 DEF Flush
  <2>3. \A t \in armed' : t \in armed /\ t[1] # c
    BY <1>1, <1>2, <2>2
  <2>4. \A t \in armed : t[1] # c => t \in armed'
    BY <2>2
  <2>5. ~Pending(c)' /\ buffers'[c].made = buffers[c].made
    BY <2>1 DEF TypeOK, Pending
  <2>6. \A d \in Chats \ {c} : buffers'[d] = buffers[d]
    BY <2>1 DEF TypeOK
  <2> QED BY <2>3, <2>4, <2>5, <2>6
<1>4. CASE ~Pending(c)
  <2>1. buffers' = buffers /\ armed' = armed
    BY <1>4 DEF Flush
  <2> QED BY <2>1, <1>4, <1>2 DEF Pending
<1> QED BY <1>3, <1>4

\* A flush keeps timers and buffers in step, also when it closes the question
\* that caused it.
LEMMA FlushKeepsTimerInv ==
  ASSUME TypeOK, TimerInv, NEW c \in Chats, Flush(c),
         fetches' \subseteq fetches,
         \A f \in fetches \ fetches' : f[1] = c \/ ~Pending(f[1]) \/ buffers[f[1]].made # f[2]
  PROVE  TimerInv'
<1>1. /\ ~Pending(c)'
      /\ \A t \in armed' : t \in armed /\ t[1] # c
      /\ \A t \in armed : t[1] # c => t \in armed'
      /\ buffers'[c].made = buffers[c].made
      /\ \A d \in Chats \ {c} : buffers'[d] = buffers[d]
  BY FlushClears
<1>2. \A f \in fetches : f[1] \in Chats
  BY DEF TypeOK
<1>3. NoOrphanBuffer'
  <2>1. ASSUME NEW d \in Chats, Pending(d)'
        PROVE  \/ <<d, buffers[d].made, buffers[d].timer>> \in armed'
               \/ <<d, buffers[d].made>> \in fetches'
    <3>1. d # c /\ Pending(d)
      BY <1>1, <2>1 DEF Pending
    <3>2. \/ <<d, buffers[d].made, buffers[d].timer>> \in armed
          \/ <<d, buffers[d].made>> \in fetches
      BY <3>1 DEF TimerInv, TimersMatchBuffers, NoOrphanBuffer
    <3> QED BY <3>1, <3>2, <1>1
  <2> QED BY <1>1, <2>1 DEF NoOrphanBuffer, Pending
<1>4. NoStaleTimer'
  <2>1. \A t \in armed' : t[1] \in Chats \ {c}
    BY <1>1 DEF TypeOK
  <2> QED BY <1>1, <2>1 DEF NoStaleTimer, Pending, TimerInv, TimersMatchBuffers
<1>5. QuestionsAndTimers'
  <2>1. \A d \in Chats : buffers'[d].made = buffers[d].made
    BY <1>1
  <2>2. \A t \in armed' : t[3] # 0
    BY <1>1 DEF TimerInv, QuestionsAndTimers
  <2>3. \A f \in fetches' : f[2] <= buffers'[f[1]].made
    BY <1>2, <2>1 DEF TimerInv, QuestionsAndTimers
  <2>4. ASSUME NEW d \in Chats, Pending(d)', <<d, buffers'[d].made>> \in fetches'
        PROVE  buffers'[d].timer = 0
    <3>1. d # c /\ Pending(d) /\ buffers'[d] = buffers[d]
      BY <1>1, <2>4 DEF Pending
    <3> QED BY <3>1, <2>4 DEF TimerInv, QuestionsAndTimers
  <2> QED BY <2>2, <2>3, <2>4 DEF QuestionsAndTimers
<1> QED BY <1>3, <1>4, <1>5 DEF TimerInv, TimersMatchBuffers

\* Timers and buffers only depend on the buffers, the timers and the questions.
LEMMA SameTimers ==
  ASSUME TimerInv, UNCHANGED <<buffers, armed, fetches>>
  PROVE  TimerInv'
BY DEF TimerInv, TimersMatchBuffers, NoOrphanBuffer, NoStaleTimer, QuestionsAndTimers, Pending

\* A later message of a burst replaces the timer of the buffer, if it has one.
LEMMA ReceiveMoreKeepsTimerInv ==
  ASSUME TypeOK, TimerInv, NEW m \in Messages, ReceiveMore(m)
  PROVE  TimerInv'
<1> DEFINE c == ChatOf[m]
           t == buffers[c].timer
<1>1. c \in Chats
  BY BufferAssumption
<1>2. t \in Nat /\ buffers[c].made \in Nat /\ buffers[c].messages \in Seq(Messages)
  BY <1>1 DEF TypeOK
<1>3. /\ Pending(c)
      /\ buffers' = [buffers EXCEPT ![c].messages = Append(@, m),
                                    ![c].timer = IF t = 0 THEN 0 ELSE t + 1]
      /\ armed' = IF t = 0 THEN armed
                  ELSE (armed \ {<<c, buffers[c].made, t>>})
                           \cup {<<c, buffers[c].made, t + 1>>}
      /\ fetches' = fetches
  BY DEF ReceiveMore
<1> HIDE DEF c
<1>4. /\ buffers'[c].made = buffers[c].made
      /\ buffers'[c].timer = IF t = 0 THEN 0 ELSE t + 1
      /\ buffers'[c].messages = Append(buffers[c].messages, m)
      /\ \A d \in Chats \ {c} : buffers'[d] = buffers[d]
  BY <1>1, <1>3 DEF TypeOK
<1> HIDE DEF t
<1>5. Pending(c)'
  BY <1>2, <1>4 DEF Pending
<1>6. /\ \A s \in armed : s \in Chats \X Nat \X Nat /\ s = <<s[1], s[2], s[3]>>
      /\ \A f \in fetches : f[1] \in Chats
  BY DEF TypeOK
<1>7. /\ \A s \in armed : Pending(s[1]) /\ buffers[s[1]].made = s[2] /\ buffers[s[1]].timer = s[3]
      /\ \A s \in armed : s[3] # 0
      /\ \A f \in fetches : f[2] <= buffers[f[1]].made
  BY DEF TimerInv, TimersMatchBuffers, NoStaleTimer, QuestionsAndTimers
<1>8. NoOrphanBuffer'
  <2>1. <<c, buffers[c].made, t>> \in armed \/ <<c, buffers[c].made>> \in fetches
    BY <1>1, <1>3 DEF TimerInv, TimersMatchBuffers, NoOrphanBuffer, t
  <2>2. CASE t = 0
    <3>1. <<c, buffers[c].made>> \in fetches
      BY <2>1, <2>2, <1>7
    <3>2. ASSUME NEW d \in Chats, Pending(d)'
          PROVE  \/ <<d, buffers'[d].made, buffers'[d].timer>> \in armed'
                 \/ <<d, buffers'[d].made>> \in fetches'
      <4>1. CASE d = c
        BY <4>1, <3>1, <1>3, <1>4
      <4>2. CASE d # c
        <5>1. Pending(d) /\ buffers'[d] = buffers[d]
          BY <4>2, <3>2, <1>4 DEF Pending
        <5> QED BY <5>1, <2>2, <1>3 DEF NoOrphanBuffer, TimerInv, TimersMatchBuffers
      <4> QED BY <4>1, <4>2
    <3> QED BY <3>2 DEF NoOrphanBuffer
  <2>3. CASE t # 0
    <3>1. <<c, buffers'[c].made, buffers'[c].timer>> \in armed'
      BY <2>3, <1>3, <1>4
    <3>2. ASSUME NEW d \in Chats \ {c}, Pending(d)'
          PROVE  \/ <<d, buffers'[d].made, buffers'[d].timer>> \in armed'
                 \/ <<d, buffers'[d].made>> \in fetches'
      <4>1. Pending(d) /\ buffers'[d] = buffers[d]
        BY <3>2, <1>4 DEF Pending
      <4>2. \/ <<d, buffers[d].made, buffers[d].timer>> \in armed
            \/ <<d, buffers[d].made>> \in fetches
        BY <4>1 DEF NoOrphanBuffer, TimerInv, TimersMatchBuffers
      <4>3. <<d, buffers[d].made, buffers[d].timer>> # <<c, buffers[c].made, t>>
        OBVIOUS
      <4> QED BY <4>1, <4>2, <4>3, <2>3, <1>3
    <3> QED BY <3>1, <3>2 DEF NoOrphanBuffer
  <2> QED BY <2>2, <2>3
<1>9. NoStaleTimer'
  <2>1. ASSUME NEW s \in armed'
        PROVE  Pending(s[1])' /\ buffers'[s[1]].made = s[2] /\ buffers'[s[1]].timer = s[3]
    <3>1. CASE s \in armed /\ s[1] = c
      <4>0. s = <<s[1], s[2], s[3]>>
        BY <3>1, <1>6
      <4>5. s[2] = buffers[c].made /\ s[3] = t
        BY <3>1, <1>7 DEF t
      <4>1. s = <<c, buffers[c].made, t>>
        BY <4>0, <4>5, <3>1
      <4>2. t = 0 \/ s = <<c, buffers[c].made, t + 1>>
        BY <4>1, <1>3
      <4> QED BY <4>1, <4>2, <1>2, <1>7, <3>1
    <3>2. CASE s \in armed /\ s[1] # c
      BY <3>2, <1>4, <1>6, <1>7 DEF Pending
    <3>3. CASE s \notin armed
      <4>1. t # 0 /\ s = <<c, buffers[c].made, t + 1>>
        BY <3>3, <1>3
      <4> QED BY <4>1, <1>4, <1>5
    <3> QED BY <3>1, <3>2, <3>3
  <2> QED BY <2>1 DEF NoStaleTimer
<1>10. QuestionsAndTimers'
  <2>1. \A s \in armed' : s[3] # 0
    <3>1. t + 1 # 0
      BY <1>2
    <3> QED BY <3>1, <1>3, <1>7
  <2>2. \A d \in Chats : buffers'[d].made = buffers[d].made
    BY <1>4
  <2>3. \A f \in fetches' : f[2] <= buffers'[f[1]].made
    BY <2>2, <1>3, <1>6, <1>7
  <2>4. ASSUME NEW d \in Chats, Pending(d)', <<d, buffers'[d].made>> \in fetches'
        PROVE  buffers'[d].timer = 0
    <3>3. Pending(d)
      BY <2>4, <1>3, <1>4 DEF Pending
    <3>4. buffers'[d].made = buffers[d].made
      BY <2>2
    <3>1. <<d, buffers[d].made>> \in fetches
      BY <3>4, <2>4, <1>3
    <3>2. buffers[d].timer = 0
      BY <3>1, <3>3 DEF TimerInv, QuestionsAndTimers
    <3> QED BY <3>2, <1>4 DEF t
  <2> QED BY <2>1, <2>3, <2>4 DEF QuestionsAndTimers
<1> QED BY <1>8, <1>9, <1>10 DEF TimerInv, TimersMatchBuffers

\* The first message makes a buffer no question and no timer is about yet.
LEMMA ReceiveFirstKeepsTimerInv ==
  ASSUME TypeOK, TimerInv, NEW m \in Messages, ReceiveFirst(m)
  PROVE  TimerInv'
<1> DEFINE c == ChatOf[m]
           n == buffers[c].made + 1
<1>1. c \in Chats
  BY BufferAssumption
<1>2. /\ ~Pending(c)
      /\ buffers' = [buffers EXCEPT ![c] = [made |-> n, messages |-> <<m>>, timer |-> 0]]
      /\ fetches' = fetches \cup {<<c, n>>}
      /\ armed' = armed
  BY DEF ReceiveFirst
<1>3. n \in Nat /\ n = buffers[c].made + 1 /\ buffers[c].made \in Nat
  BY <1>1 DEF TypeOK
<1> HIDE DEF c, n
<1>4. /\ buffers'[c].made = n /\ buffers'[c].timer = 0 /\ Pending(c)'
      /\ \A d \in Chats \ {c} : buffers'[d] = buffers[d]
  BY <1>1, <1>2 DEF TypeOK, Pending
<1>5. /\ \A s \in armed : s[1] \in Chats \ {c}
      /\ \A s \in armed : Pending(s[1]) /\ buffers[s[1]].made = s[2] /\ buffers[s[1]].timer = s[3]
      /\ \A s \in armed : s[3] # 0
  BY <1>2 DEF TypeOK, TimerInv, TimersMatchBuffers, NoStaleTimer, QuestionsAndTimers
<1>6. \A f \in fetches : f[1] \in Chats /\ f[2] \in Nat /\ f[2] <= buffers[f[1]].made
  BY DEF TypeOK, TimerInv, QuestionsAndTimers
<1>7. NoOrphanBuffer'
  <2>1. ASSUME NEW d \in Chats, Pending(d)'
        PROVE  \/ <<d, buffers'[d].made, buffers'[d].timer>> \in armed'
               \/ <<d, buffers'[d].made>> \in fetches'
    BY <2>1, <1>2, <1>4 DEF TimerInv, TimersMatchBuffers, NoOrphanBuffer, Pending
  <2> QED BY <2>1 DEF NoOrphanBuffer
<1>8. NoStaleTimer'
  BY <1>2, <1>4, <1>5 DEF NoStaleTimer, Pending
<1>9. QuestionsAndTimers'
  <2>1. \A s \in armed' : s[3] # 0
    BY <1>2, <1>5
  <2>2. ASSUME NEW f \in fetches' PROVE f[2] <= buffers'[f[1]].made
    <3>1. CASE f \in fetches /\ f[1] = c
      <4>1. f[2] <= buffers[c].made
        BY <3>1, <1>6
      <4> QED BY <4>1, <3>1, <1>3, <1>4, <1>6
    <3>2. CASE f \in fetches /\ f[1] # c
      BY <3>2, <1>4, <1>6
    <3>3. CASE f = <<c, n>>
      BY <3>3, <1>3, <1>4
    <3> QED BY <3>1, <3>2, <3>3, <1>2
  <2>3. ASSUME NEW d \in Chats, Pending(d)', <<d, buffers'[d].made>> \in fetches'
        PROVE  buffers'[d].timer = 0
    <3>1. CASE d = c
      BY <3>1, <1>4
    <3>2. CASE d # c
      <4>1. Pending(d) /\ <<d, buffers[d].made>> \in fetches /\ buffers'[d] = buffers[d]
        BY <3>2, <2>3, <1>2, <1>4 DEF Pending
      <4> QED BY <4>1 DEF TimerInv, QuestionsAndTimers
    <3> QED BY <3>1, <3>2
  <2> QED BY <2>1, <2>2, <2>3 DEF QuestionsAndTimers
<1> QED BY <1>7, <1>8, <1>9 DEF TimerInv, TimersMatchBuffers

\* An answer about the wait starts the timer of the buffer that asked, flushes
\* it, or is dropped.
LEMMA FetchReturnsKeepsTimerInv ==
  ASSUME TypeOK, TimerInv, NEW f \in fetches, FetchReturns(f)
  PROVE  TimerInv'
<1> DEFINE c == f[1]
<1>1. c \in Chats /\ f = <<c, f[2]>> /\ f[2] \in Nat
  BY DEF TypeOK
<1>2. fetches' = fetches \ {f}
  BY DEF FetchReturns
<1>3. CASE Flush(c)
  <2>1. \A g \in fetches \ fetches' : g[1] = c
    BY <1>2
  <2> QED BY <1>1, <1>2, <1>3, <2>1, FlushKeepsTimerInv
<1>4. CASE /\ Pending(c) /\ buffers[c].made = f[2]
           /\ buffers' = [buffers EXCEPT ![c].timer = 1]
           /\ armed' = armed \cup {<<c, f[2], 1>>}
  <2> HIDE DEF c
  <2>1. /\ buffers'[c].made = buffers[c].made /\ buffers'[c].timer = 1 /\ Pending(c)'
        /\ \A d \in Chats \ {c} : buffers'[d] = buffers[d]
    BY <1>1, <1>4 DEF TypeOK, Pending
  <2>2. /\ \A s \in armed : s[1] \in Chats
        /\ \A s \in armed : Pending(s[1]) /\ buffers[s[1]].made = s[2]
                            /\ buffers[s[1]].timer = s[3]
        /\ \A s \in armed : s[3] # 0
        /\ \A g \in fetches : g[1] \in Chats /\ g[2] \in Nat /\ g[2] <= buffers[g[1]].made
    BY DEF TypeOK, TimerInv, TimersMatchBuffers, NoStaleTimer, QuestionsAndTimers
  <2>3. <<c, buffers[c].made>> \in fetches
    BY <1>1, <1>4
  <2>4. buffers[c].timer = 0
    BY <1>1, <1>4, <2>3 DEF TimerInv, QuestionsAndTimers
  <2>5. \A s \in armed : s[1] # c
    BY <2>2, <2>4
  <2>6. NoOrphanBuffer'
    <3>1. ASSUME NEW d \in Chats, Pending(d)'
          PROVE  \/ <<d, buffers'[d].made, buffers'[d].timer>> \in armed'
                 \/ <<d, buffers'[d].made>> \in fetches'
      <4>1. CASE d = c
        BY <4>1, <1>4, <2>1
      <4>2. CASE d # c
        <5>1. buffers'[d] = buffers[d] /\ Pending(d)
          BY <4>2, <3>1, <2>1 DEF Pending
        <5>2. \/ <<d, buffers[d].made, buffers[d].timer>> \in armed
              \/ <<d, buffers[d].made>> \in fetches
          BY <5>1 DEF TimerInv, TimersMatchBuffers, NoOrphanBuffer
        <5>3. <<d, buffers[d].made>> # f
          BY <4>2, <1>1
        <5> QED BY <5>1, <5>2, <5>3, <1>2, <1>4
      <4> QED BY <4>1, <4>2
    <3> QED BY <3>1 DEF NoOrphanBuffer
  <2>7. NoStaleTimer'
    <3>1. ASSUME NEW s \in armed'
          PROVE  Pending(s[1])' /\ buffers'[s[1]].made = s[2] /\ buffers'[s[1]].timer = s[3]
      <4>1. CASE s \in armed
        BY <4>1, <2>1, <2>2, <2>5 DEF Pending
      <4>2. CASE s = <<c, f[2], 1>>
        BY <4>2, <2>1, <1>4
      <4> QED BY <4>1, <4>2, <1>4
    <3> QED BY <3>1 DEF NoStaleTimer
  <2>8. QuestionsAndTimers'
    <3>1. \A s \in armed' : s[3] # 0
      BY <2>2, <1>4
    <3>2. \A d \in Chats : buffers'[d].made = buffers[d].made
      BY <2>1
    <3>3. \A g \in fetches' : g[2] <= buffers'[g[1]].made
      BY <1>2, <2>2, <3>2
    <3>4. ASSUME NEW d \in Chats, Pending(d)', <<d, buffers'[d].made>> \in fetches'
          PROVE  buffers'[d].timer = 0
      <4>1. <<d, buffers[d].made>> \in fetches /\ <<d, buffers[d].made>> # f
        BY <3>2, <3>4, <1>2
      <4>2. d # c
        BY <4>1, <1>1, <1>4
      <4>3. Pending(d) /\ buffers'[d] = buffers[d]
        BY <4>2, <3>4, <2>1 DEF Pending
      <4> QED BY <4>1, <4>3 DEF TimerInv, QuestionsAndTimers
    <3> QED BY <3>1, <3>3, <3>4 DEF QuestionsAndTimers
  <2> QED BY <2>6, <2>7, <2>8 DEF TimerInv, TimersMatchBuffers
<1>5. CASE /\ ~(Pending(c) /\ buffers[c].made = f[2])
           /\ UNCHANGED <<buffers, armed>>
  <2> HIDE DEF c
  <2>1. NoOrphanBuffer'
    <3>1. ASSUME NEW d \in Chats, Pending(d)
          PROVE  \/ <<d, buffers[d].made, buffers[d].timer>> \in armed
                 \/ <<d, buffers[d].made>> \in fetches'
      <4>1. <<d, buffers[d].made>> # f
        BY <3>1, <1>1, <1>5
      <4> QED BY <4>1, <3>1, <1>2 DEF TimerInv, TimersMatchBuffers, NoOrphanBuffer
    <3> QED BY <3>1, <1>5 DEF NoOrphanBuffer, Pending
  <2>2. NoStaleTimer' /\ QuestionsAndTimers'
    BY <1>2, <1>5 DEF TimerInv, TimersMatchBuffers, NoStaleTimer, QuestionsAndTimers, Pending
  <2> QED BY <2>1, <2>2 DEF TimerInv, TimersMatchBuffers
<1> QED BY <1>3, <1>4, <1>5 DEF FetchReturns

\* A timer that fires is the one of the buffer it flushes, so a flush is all
\* it does.
LEMMA FiredTimerFlushes ==
  ASSUME TypeOK, TimerInv, NEW t \in armed, TimerFires(t)
  PROVE  t[1] \in Chats /\ Pending(t[1]) /\ Flush(t[1])
<1>1. t[1] \in Chats /\ t = <<t[1], t[2], t[3]>>
  BY DEF TypeOK
<1>2. Pending(t[1]) /\ buffers[t[1]].made = t[2] /\ buffers[t[1]].timer = t[3]
  BY DEF TimerInv, TimersMatchBuffers, NoStaleTimer
<1>3. {t, <<t[1], buffers[t[1]].made, buffers[t[1]].timer>>}
          = {<<t[1], buffers[t[1]].made, buffers[t[1]].timer>>}
  BY <1>1, <1>2
<1> QED BY <1>1, <1>2, <1>3 DEF TimerFires, Flush

\* Every step keeps timers and buffers in step.
LEMMA NextTimerInv == TypeOK /\ TimerInv /\ [Next]_vars => TimerInv'
<1> SUFFICES ASSUME TypeOK, TimerInv, [Next]_vars PROVE TimerInv'
  OBVIOUS
<1>1. ASSUME NEW m \in Messages, ReceiveFromMe(m) PROVE TimerInv'
  <2>1. ChatOf[m] \in Chats /\ Flush(ChatOf[m]) /\ fetches' = fetches
    BY <1>1, BufferAssumption DEF ReceiveFromMe
  <2> QED BY <2>1, FlushKeepsTimerInv
<1>2. ASSUME NEW t \in armed, TimerFires(t) PROVE TimerInv'
  <2>1. fetches' = fetches
    BY <1>2 DEF TimerFires
  <2> QED BY <1>2, <2>1, FiredTimerFlushes, FlushKeepsTimerInv
<1>3. ASSUME FlushNext PROVE TimerInv'
  <2>1. PICK c \in flushing.chats : Flush(c)
    BY <1>3 DEF FlushNext
  <2>2. c \in Chats /\ fetches' = fetches
    BY <1>3 DEF FlushNext, TypeOK
  <2> QED BY <2>1, <2>2, FlushKeepsTimerInv
<1>4. ASSUME \/ \E w \in waiting : ForwardImmediate(w)
             \/ \E p \in posts : PostSucceeds(p) \/ AttemptFails(p)
             \/ Stop \/ Exit \/ Rest \/ UNCHANGED vars
      PROVE  TimerInv'
  <2>1. UNCHANGED <<buffers, armed, fetches>>
    BY <1>4 DEF ForwardImmediate, PostSucceeds, AttemptFails, Stop, Exit, Rest, vars
  <2> QED BY <2>1, SameTimers
<1> QED BY <1>1, <1>2, <1>3, <1>4, ReceiveMoreKeepsTimerInv, ReceiveFirstKeepsTimerInv,
           FetchReturnsKeepsTimerInv DEF Next

\* Timers and buffers fit together: every buffered message has a timer that
\* runs or an open question that will start one, and no timer outlives the
\* buffer it was started for.
THEOREM TimersAndBuffers == Spec => []TimersMatchBuffers
<1>1. Init => TypeOK /\ TimerInv
  BY InitTypeOK, InitTimerInv
<1>2. TypeOK /\ TimerInv /\ [Next]_vars => (TypeOK /\ TimerInv)'
  BY NextTypeOK, NextTimerInv
<1>3. TimerInv => TimersMatchBuffers
  BY DEF TimerInv
<1> QED BY <1>1, <1>2, <1>3, PTL DEF Spec

(***************************************************************************)
(* The order of the messages                                               *)
(***************************************************************************)
\* What the arrival of a message changes of what was received before what.
LEMMA ArrivalOrder ==
  ASSUME TypeOK, NEW m \in Messages, Arrives(m)
  PROVE  /\ RangeOf(received)' = RangeOf(received) \cup {m}
         /\ m \notin RangeOf(received)
         /\ \A a, b : ReceivedBefore(a, b) => ReceivedBefore(a, b)'
         /\ \A a, b : b # m /\ ReceivedBefore(a, b)' => ReceivedBefore(a, b)
         /\ \A a \in RangeOf(received) : ReceivedBefore(a, m)'
         /\ (\A i, j \in DOMAIN received : received[i] = received[j] => i = j)
                => \A i, j \in DOMAIN received' : received'[i] = received'[j] => i = j
<1> DEFINE n == Len(received)
<1>1. n \in Nat /\ DOMAIN received = 1..n /\ received' = Append(received, m)
  BY DEF TypeOK, Arrives
<1>2. /\ DOMAIN received' = 1..(n + 1)
      /\ \A i \in 1..n : received'[i] = received[i]
      /\ received'[n + 1] = m
  BY <1>1 DEF TypeOK
<1>3. m \notin RangeOf(received)
  BY DEF Arrives
<1>4. \A i \in 1..n : received[i] \in RangeOf(received) /\ received[i] # m
  BY <1>1, <1>3 DEF RangeOf
<1> HIDE DEF n
<1>5. \A i \in 1..(n + 1) : i \in 1..n \/ i = n + 1
  BY <1>1
<1>6. RangeOf(received)' = RangeOf(received) \cup {m}
  <2>1. ASSUME NEW x \in RangeOf(received) PROVE x \in RangeOf(received)'
    <3>1. PICK i \in 1..n : x = received[i]
      BY <1>1 DEF RangeOf
    <3>2. i \in 1..(n + 1)
      BY <1>1
    <3> QED BY <3>1, <3>2, <1>2 DEF RangeOf
  <2>2. m \in RangeOf(received)'
    <3>1. n + 1 \in 1..(n + 1)
      BY <1>1
    <3> QED BY <3>1, <1>2 DEF RangeOf
  <2>3. ASSUME NEW x \in RangeOf(received)' PROVE x \in RangeOf(received) \cup {m}
    <3>1. PICK i \in 1..(n + 1) : x = received'[i]
      BY <1>2 DEF RangeOf
    <3> QED BY <3>1, <1>2, <1>4, <1>5
  <2> QED BY <2>1, <2>2, <2>3
<1>7. ASSUME NEW a, NEW b, ReceivedBefore(a, b) PROVE ReceivedBefore(a, b)'
  <2>1. PICK i, j \in 1..n : i < j /\ received[i] = a /\ received[j] = b
    BY <1>1, <1>7 DEF ReceivedBefore
  <2>2. i \in 1..(n + 1) /\ j \in 1..(n + 1)
    BY <1>1
  <2> QED BY <2>1, <2>2, <1>2 DEF ReceivedBefore
<1>8. ASSUME NEW a, NEW b, b # m, ReceivedBefore(a, b)' PROVE ReceivedBefore(a, b)
  <2>1. PICK i, j \in 1..(n + 1) : i < j /\ received'[i] = a /\ received'[j] = b
    BY <1>2, <1>8 DEF ReceivedBefore
  <2>2. j \in 1..n
    BY <2>1, <1>2, <1>5, <1>8
  <2>3. i \in 1..n
    BY <2>1, <2>2, <1>1
  <2> QED BY <2>1, <2>2, <2>3, <1>1, <1>2 DEF ReceivedBefore
<1>9. ASSUME NEW a \in RangeOf(received) PROVE ReceivedBefore(a, m)'
  <2>1. PICK i \in 1..n : received[i] = a
    BY <1>1 DEF RangeOf
  <2>2. i \in 1..(n + 1) /\ n + 1 \in 1..(n + 1) /\ i < n + 1
    BY <1>1
  <2> QED BY <2>1, <2>2, <1>2 DEF ReceivedBefore
<1>10. ASSUME \A i, j \in DOMAIN received : received[i] = received[j] => i = j
       PROVE  \A i, j \in DOMAIN received' : received'[i] = received'[j] => i = j
  BY <1>10, <1>1, <1>2, <1>4, <1>5
<1> QED BY <1>3, <1>6, <1>7, <1>8, <1>9, <1>10

\* What was received before a message was received.
LEMMA BeforeIsReceived ==
  ASSUME NEW a, NEW b, ReceivedBefore(a, b)
  PROVE  a \in RangeOf(received) /\ b \in RangeOf(received)
BY DEF ReceivedBefore, RangeOf

\* A post adds its batch to what the chat has posted.
LEMMA PostAppends ==
  ASSUME TypeOK, NEW c \in Chats, NEW batch \in Seq(Messages), StartPost(c, batch)
  PROVE  /\ posted'[c] = Append(posted[c], batch)
         /\ \A d \in Chats \ {c} : posted'[d] = posted[d]
         /\ PostedMessages(c)' = PostedMessages(c) \cup RangeOf(batch)
         /\ \A d \in Chats \ {c} : PostedMessages(d)' = PostedMessages(d)
<1>1. posted[c] \in Seq(Seq(Messages))
  BY DEF TypeOK
<1>2. /\ posted'[c] = Append(posted[c], batch)
      /\ \A d \in Chats \ {c} : posted'[d] = posted[d]
  BY DEF StartPost, TypeOK
<1> DEFINE n == Len(posted[c])
<1>3. /\ n \in Nat /\ DOMAIN posted[c] = 1..n /\ DOMAIN posted'[c] = 1..(n + 1)
      /\ \A i \in 1..n : posted'[c][i] = posted[c][i]
      /\ posted'[c][n + 1] = batch
  BY <1>1, <1>2
<1> HIDE DEF n
<1>4. PostedMessages(c)' = PostedMessages(c) \cup RangeOf(batch)
  <2>1. ASSUME NEW x \in PostedMessages(c)' PROVE x \in PostedMessages(c) \cup RangeOf(batch)
    <3>1. PICK i \in 1..(n + 1) : x \in RangeOf(posted'[c][i])
      BY <1>3 DEF PostedMessages
    <3>2. i \in 1..n \/ i = n + 1
      BY <1>3
    <3> QED BY <3>1, <3>2, <1>3 DEF PostedMessages
  <2>2. ASSUME NEW x \in PostedMessages(c) PROVE x \in PostedMessages(c)'
    <3>1. PICK i \in 1..n : x \in RangeOf(posted[c][i])
      BY <1>3 DEF PostedMessages
    <3>2. i \in 1..(n + 1)
      BY <1>3
    <3> QED BY <3>1, <3>2, <1>3 DEF PostedMessages
  <2>3. RangeOf(batch) \subseteq PostedMessages(c)'
    <3>1. n + 1 \in 1..(n + 1)
      BY <1>3
    <3> QED BY <3>1, <1>3 DEF PostedMessages
  <2> QED BY <2>1, <2>2, <2>3
<1>5. \A d \in Chats \ {c} : PostedMessages(d)' = PostedMessages(d)
  BY <1>2 DEF PostedMessages
<1> QED BY <1>2, <1>4, <1>5

\* A flush moves what the buffer has to the end of what the chat has posted.
LEMMA FlushMoves ==
  ASSUME TypeOK, NEW c \in Chats, Flush(c)
  PROVE  /\ Buffered(c)' = {}
         /\ \A d \in Chats \ {c} : Buffered(d)' = Buffered(d)
         /\ PostedMessages(c)' = PostedMessages(c) \cup Buffered(c)
         /\ \A d \in Chats \ {c} : PostedMessages(d)' = PostedMessages(d)
         /\ \/ posted' = posted
            \/ /\ posted'[c] = Append(posted[c], BatchOf(c))
               /\ \A d \in Chats \ {c} : posted'[d] = posted[d]
         /\ BatchOf(c) \in Seq(Messages) /\ RangeOf(BatchOf(c)) = Buffered(c)
<1>0. BatchOf(c) \in Seq(Messages) /\ RangeOf(BatchOf(c)) = Buffered(c)
  BY BatchIsTyped DEF Buffered
<1>1. CASE Pending(c)
  <2>1. StartPost(c, BatchOf(c))
    BY <1>1 DEF Flush
  <2>2. buffers' = [buffers EXCEPT ![c].messages = << >>, ![c].timer = 0]
    BY <1>1 DEF Flush
  <2>3. buffers'[c].messages = << >> /\ \A d \in Chats \ {c} : buffers'[d] = buffers[d]
    BY <2>2 DEF TypeOK
  <2>4. Buffered(c)' = {} /\ \A d \in Chats \ {c} : Buffered(d)' = Buffered(d)
    BY <2>3 DEF Buffered, RangeOf
  <2> QED BY <1>0, <2>1, <2>4, PostAppends
<1>2. CASE ~Pending(c)
  <2>1. Buffered(c) = {}
    BY <1>2 DEF Pending, Buffered, RangeOf
  <2>2. buffers' = buffers /\ posted' = posted
    BY <1>2 DEF Flush
  <2> QED BY <1>0, <2>1, <2>2 DEF Buffered, PostedMessages
<1> QED BY <1>1, <1>2

\* A batch at the end of what a chat has posted keeps the messages in order
\* when its own messages fit: the tenant's come after what was posted, and
\* what came before the operator's was posted.
LEMMA AppendKeepsOrder ==
  ASSUME TypeOK, PostedInOrder, NEW c \in Chats, NEW batch \in Seq(Messages),
         posted'[c] = Append(posted[c], batch),
         \A d \in Chats \ {c} : posted'[d] = posted[d],
         \A a, b : ReceivedBefore(a, b) => ReceivedBefore(a, b)',
         \A d \in Chats : \A h \in PostedMessages(d) : \A a :
             ReceivedBefore(a, h)' => ReceivedBefore(a, h),
         \A a \in PostedMessages(c) \ FromMe, b \in RangeOf(batch) \ FromMe :
             ReceivedBefore(a, b)',
         \A h \in RangeOf(batch) \cap FromMe : \A a \in Messages \ FromMe :
             ChatOf[a] = c /\ ReceivedBefore(a, h)' => a \in PostedMessages(c),
         received' \in Seq(Messages)
  PROVE  PostedInOrder'
<1>1. posted \in [Chats -> Seq(Seq(Messages))] /\ posted[c] \in Seq(Seq(Messages))
  BY DEF TypeOK
<1> DEFINE n == Len(posted[c])
<1>2. /\ n \in Nat /\ DOMAIN posted[c] = 1..n /\ DOMAIN posted'[c] = 1..(n + 1)
      /\ \A i \in 1..n : posted'[c][i] = posted[c][i]
      /\ posted'[c][n + 1] = batch
  BY <1>1
<1> HIDE DEF n
<1>3. \A i \in 1..(n + 1) : i \in 1..n \/ i = n + 1
  BY <1>2
<1>4. \A d \in Chats : \A i \in DOMAIN posted[d] : RangeOf(posted[d][i]) \subseteq PostedMessages(d)
  BY DEF PostedMessages
<1>5. \A x \in RangeOf(received)' : x \in Messages
  BY DEF RangeOf
<1>6. ASSUME NEW d \in Chats, NEW i \in DOMAIN posted[d], NEW h \in RangeOf(posted[d][i]) \cap FromMe,
             NEW m \in Messages \ FromMe, ChatOf[m] = d, ReceivedBefore(m, h)'
      PROVE  \E k \in 1..(i - 1) : m \in RangeOf(posted[d][k])
  <2>1. ReceivedBefore(m, h)
    BY <1>4, <1>6
  <2>2. m \in RangeOf(received) \ FromMe
    BY <2>1, BeforeIsReceived
  <2> QED BY <1>6, <2>1, <2>2 DEF PostedInOrder, TenantBeforeOperator
<1>7. TenantBeforeOperator'
  <2>1. ASSUME NEW d \in Chats, NEW i \in DOMAIN posted'[d],
               NEW h \in RangeOf(posted'[d][i]) \cap FromMe,
               NEW m \in RangeOf(received)' \ FromMe, ChatOf[m] = d, ReceivedBefore(m, h)'
        PROVE  \E k \in 1..(i - 1) : m \in RangeOf(posted'[d][k])
    <3>1. CASE d # c
      <4>1. posted'[d] = posted[d]
        BY <3>1
      <4> QED BY <4>1, <2>1, <1>5, <1>6
    <3>2. CASE d = c /\ i \in 1..n
      <4>1. posted'[c][i] = posted[c][i] /\ i \in DOMAIN posted[c]
        BY <3>2, <1>2
      <4>2. PICK k \in 1..(i - 1) : m \in RangeOf(posted[c][k])
        BY <4>1, <3>2, <2>1, <1>5, <1>6
      <4>3. k \in 1..n
        BY <3>2, <1>2
      <4> QED BY <4>2, <4>3, <3>2, <1>2
    <3>3. CASE d = c /\ i = n + 1
      <4>1. m \in PostedMessages(c)
        BY <3>3, <2>1, <1>2, <1>5
      <4>2. PICK k \in 1..n : m \in RangeOf(posted[c][k])
        BY <4>1, <1>2 DEF PostedMessages
      <4>3. k \in 1..(i - 1)
        BY <3>3, <1>2
      <4> QED BY <4>2, <4>3, <3>3, <1>2
    <3> QED BY <3>1, <3>2, <3>3, <1>2, <1>3
  <2> QED BY <2>1 DEF TenantBeforeOperator
<1>8. BatchesInOrder'
  <2>1. ASSUME NEW d \in Chats, NEW i \in DOMAIN posted'[d], NEW j \in DOMAIN posted'[d], i < j,
               NEW a \in RangeOf(posted'[d][i]) \ FromMe, NEW b \in RangeOf(posted'[d][j]) \ FromMe
        PROVE  ReceivedBefore(a, b)'
    <3>1. CASE d # c
      <4>1. posted'[d] = posted[d]
        BY <3>1
      <4>2. ReceivedBefore(a, b)
        BY <4>1, <2>1 DEF PostedInOrder, BatchesInOrder
      <4> QED BY <4>2
    <3>2. CASE d = c /\ j \in 1..n
      <4>1. i \in 1..n
        BY <3>2, <2>1, <1>2
      <4>2. ReceivedBefore(a, b)
        BY <4>1, <3>2, <2>1, <1>2 DEF PostedInOrder, BatchesInOrder
      <4> QED BY <4>2
    <3>3. CASE d = c /\ j = n + 1
      <4>1. i \in 1..n
        BY <3>3, <2>1, <1>2
      <4>2. a \in PostedMessages(c) \ FromMe
        BY <4>1, <3>3, <1>2 DEF PostedMessages
      <4>3. b \in RangeOf(batch) \ FromMe
        BY <3>3, <1>2
      <4> QED BY <4>2, <4>3
    <3> QED BY <3>1, <3>2, <3>3, <1>2, <1>3
  <2> QED BY <2>1 DEF BatchesInOrder
<1> QED BY <1>7, <1>8 DEF PostedInOrder

\* Without a post the messages stay in order.
LEMMA SameOrder ==
  ASSUME TypeOK, PostedInOrder, posted' = posted,
         \A a, b : ReceivedBefore(a, b) => ReceivedBefore(a, b)',
         \A d \in Chats : \A h \in PostedMessages(d) : \A a :
             ReceivedBefore(a, h)' => ReceivedBefore(a, h)
  PROVE  PostedInOrder'
<1>1. \A d \in Chats : \A i \in DOMAIN posted[d] : RangeOf(posted[d][i]) \subseteq PostedMessages(d)
  BY DEF PostedMessages
<1>2. TenantBeforeOperator'
  <2>1. ASSUME NEW d \in Chats, NEW i \in DOMAIN posted[d],
               NEW h \in RangeOf(posted[d][i]) \cap FromMe,
               NEW m \in RangeOf(received)' \ FromMe, ChatOf[m] = d, ReceivedBefore(m, h)'
        PROVE  \E k \in 1..(i - 1) : m \in RangeOf(posted[d][k])
    <3>1. ReceivedBefore(m, h)
      BY <2>1, <1>1
    <3>2. m \in RangeOf(received) \ FromMe
      BY <3>1, BeforeIsReceived
    <3> QED BY <2>1, <3>1, <3>2 DEF PostedInOrder, TenantBeforeOperator
  <2> QED BY <2>1 DEF TenantBeforeOperator
<1>3. BatchesInOrder'
  BY DEF PostedInOrder, BatchesInOrder
<1> QED BY <1>2, <1>3 DEF PostedInOrder

\* No message is anywhere at first, so none is out of order.
LEMMA InitOrderInv == Init => OrderInv
<1> SUFFICES ASSUME Init PROVE OrderInv
  OBVIOUS
<1>1. /\ received = << >> /\ RangeOf(received) = {} /\ waiting = {}
      /\ \A c \in Chats : posted[c] = << >> /\ Buffered(c) = {} /\ PostedMessages(c) = {}
  BY DEF Init, RangeOf, Buffered, PostedMessages
<1>2. Contents /\ PostedFirst /\ WaitingIsNext
  BY <1>1 DEF Contents, PostedFirst, WaitingIsNext
<1>3. PostedInOrder
  BY <1>1 DEF PostedInOrder, TenantBeforeOperator, BatchesInOrder
<1> QED BY <1>2, <1>3 DEF OrderInv

\* Only messages are received.
LEMMA ReceivedAreMessages == TypeOK => RangeOf(received) \subseteq Messages
<1> SUFFICES ASSUME TypeOK, NEW i \in DOMAIN received PROVE received[i] \in Messages
  BY DEF RangeOf
<1>1. received \in Seq(Messages)
  BY DEF TypeOK
<1> QED BY <1>1

\* The order only depends on what was received and posted, waits and is buffered.
LEMMA SameOrderInv ==
  ASSUME TypeOK, OrderInv, UNCHANGED <<received, waiting, posted>>,
         \A c \in Chats : Buffered(c)' = Buffered(c)
  PROVE  OrderInv'
<1>1. /\ RangeOf(received)' = RangeOf(received)
      /\ \A c : PostedMessages(c)' = PostedMessages(c)
      /\ \A a, b : ReceivedBefore(a, b)' <=> ReceivedBefore(a, b)
  BY DEF RangeOf, PostedMessages, ReceivedBefore
<1>2. \A m \in RangeOf(received) : ChatOf[m] \in Chats
  BY BufferAssumption, ReceivedAreMessages
<1>3. Contents' /\ PostedFirst' /\ WaitingIsNext'
  BY <1>1, <1>2 DEF OrderInv, Contents, PostedFirst, WaitingIsNext
<1>4. PostedInOrder'
  BY <1>1, SameOrder DEF OrderInv
<1> QED BY <1>3, <1>4 DEF OrderInv

\* A flush keeps the messages in order; so does one that an operator message
\* makes when it arrives.
LEMMA FlushKeepsOrder ==
  ASSUME TypeOK, OrderInv, NEW c \in Chats, Flush(c),
         \/ received' = received /\ waiting' = waiting
         \/ \E m \in FromMe : \E b : /\ ChatOf[m] = c
                                      /\ Arrives(m)
                                      /\ waiting' = waiting \cup {[message |-> m, batch |-> b]}
  PROVE  OrderInv'
<1> USE DEF OrderInv
<1>1. /\ Buffered(c)' = {}
      /\ \A d \in Chats \ {c} : Buffered(d)' = Buffered(d)
      /\ PostedMessages(c)' = PostedMessages(c) \cup Buffered(c)
      /\ \A d \in Chats \ {c} : PostedMessages(d)' = PostedMessages(d)
      /\ \/ posted' = posted
         \/ /\ posted'[c] = Append(posted[c], BatchOf(c))
            /\ \A d \in Chats \ {c} : posted'[d] = posted[d]
      /\ BatchOf(c) \in Seq(Messages) /\ RangeOf(BatchOf(c)) = Buffered(c)
  BY FlushMoves
<1>2. /\ \A d \in Chats : Buffered(d) \subseteq {m \in RangeOf(received) \ FromMe : ChatOf[m] = d}
      /\ \A d \in Chats : PostedMessages(d) \subseteq {m \in RangeOf(received) : ChatOf[m] = d}
      /\ \A w \in waiting : w.message \in RangeOf(received)
      /\ \A m \in RangeOf(received) \ FromMe :
             m \in Buffered(ChatOf[m]) \cup PostedMessages(ChatOf[m])
  BY DEF Contents
<1>3. \A m \in Messages : ChatOf[m] \in Chats
  BY BufferAssumption
<1>4. RangeOf(received) \subseteq Messages /\ FromMe \subseteq Messages
  BY BufferAssumption, ReceivedAreMessages
\* What is received and what comes before what, in the next state.
<1> DEFINE After ==
      /\ RangeOf(received) \subseteq RangeOf(received)'
      /\ RangeOf(received)' \ FromMe = RangeOf(received) \ FromMe
      /\ received' \in Seq(Messages)
      /\ \A a, b : ReceivedBefore(a, b) => ReceivedBefore(a, b)'
      /\ \A a, b : b \in RangeOf(received) /\ ReceivedBefore(a, b)' => ReceivedBefore(a, b)
      /\ \A i, j \in DOMAIN received' : received'[i] = received'[j] => i = j
      /\ \A w \in waiting' : \/ w \in waiting
                             \/ /\ ChatOf[w.message] = c
                                /\ w.message \in RangeOf(received)'
<1>5. After
  <2>1. CASE received' = received /\ waiting' = waiting
    <3>1. \A a, b : ReceivedBefore(a, b)' <=> ReceivedBefore(a, b)
      BY <2>1 DEF ReceivedBefore
    <3>2. RangeOf(received)' = RangeOf(received)
      BY <2>1 DEF RangeOf
    <3> QED BY <2>1, <3>1, <3>2 DEF TypeOK, Contents
  <2>2. ASSUME NEW m \in FromMe, NEW b, ChatOf[m] = c, Arrives(m),
               waiting' = waiting \cup {[message |-> m, batch |-> b]}
        PROVE  After
    <3>1. m \in Messages
      BY <1>4
    <3>2. received' \in Seq(Messages)
      BY <2>2, <3>1, ArrivesTyped
    <3>3. /\ RangeOf(received)' = RangeOf(received) \cup {m}
          /\ m \notin RangeOf(received)
          /\ \A x, y : ReceivedBefore(x, y) => ReceivedBefore(x, y)'
          /\ \A x, y : y # m /\ ReceivedBefore(x, y)' => ReceivedBefore(x, y)
      BY <2>2, <3>1, ArrivalOrder
    <3>4. \A i, j \in DOMAIN received' : received'[i] = received'[j] => i = j
      BY <2>2, <3>1, ArrivalOrder DEF Contents
    <3> QED BY <2>2, <3>2, <3>3, <3>4
  <2> QED BY <2>1, <2>2
<1> HIDE DEF OrderInv
<1>6. Contents'
  <2>1. ASSUME NEW d \in Chats
        PROVE  /\ Buffered(d)' \subseteq {m \in RangeOf(received)' \ FromMe : ChatOf[m] = d}
               /\ PostedMessages(d)' \subseteq {m \in RangeOf(received)' : ChatOf[m] = d}
    BY <1>1, <1>2, <1>5
  <2>2. \A w \in waiting' : w.message \in RangeOf(received)'
    BY <1>2, <1>5
  <2>3. ASSUME NEW m \in RangeOf(received)' \ FromMe
        PROVE  m \in Buffered(ChatOf[m])' \cup PostedMessages(ChatOf[m])'
    <3>1. ChatOf[m] \in Chats /\ m \in Buffered(ChatOf[m]) \cup PostedMessages(ChatOf[m])
      BY <1>2, <1>3, <1>4, <1>5
    <3> QED BY <3>1, <1>1
  <2> QED BY <2>1, <2>2, <2>3, <1>5 DEF Contents
<1>7. PostedFirst'
  <2>1. ASSUME NEW d \in Chats, NEW a \in PostedMessages(d)' \ FromMe, NEW b \in Buffered(d)'
        PROVE  ReceivedBefore(a, b)'
    <3>1. d # c
      BY <1>1
    <3>2. ReceivedBefore(a, b)
      BY <3>1, <1>1 DEF OrderInv, PostedFirst
    <3> QED BY <3>2, <1>5
  <2> QED BY <2>1 DEF PostedFirst
<1>8. WaitingIsNext'
  <2>1. ASSUME NEW w \in waiting', NEW m \in RangeOf(received)' \ FromMe,
               ChatOf[m] = ChatOf[w.message], ReceivedBefore(m, w.message)'
        PROVE  m \in PostedMessages(ChatOf[m])'
    <3>0. m \in RangeOf(received) \ FromMe /\ ChatOf[m] \in Chats
      BY <1>3, <1>4, <1>5
    <3>1. CASE w \in waiting
      <4>1. w.message \in RangeOf(received)
        BY <3>1, <1>2
      <4>2. ReceivedBefore(m, w.message)
        BY <2>1, <4>1, <1>5
      <4>3. m \in PostedMessages(ChatOf[m])
        BY <2>1, <3>0, <3>1, <4>2 DEF OrderInv, WaitingIsNext
      <4> QED BY <4>3, <3>0, <1>1
    <3>2. CASE w \notin waiting
      <4>1. ChatOf[m] = c
        BY <2>1, <3>2, <1>5
      <4> QED BY <4>1, <3>0, <1>1, <1>2
    <3> QED BY <3>1, <3>2
  <2> QED BY <2>1 DEF WaitingIsNext
<1>9. PostedInOrder'
  <2>1. \A d \in Chats : \A h \in PostedMessages(d) : \A a :
            ReceivedBefore(a, h)' => ReceivedBefore(a, h)
    BY <1>2, <1>5
  <2>2. CASE posted' = posted
    BY <2>1, <2>2, <1>5, SameOrder DEF OrderInv
  <2>3. CASE posted'[c] = Append(posted[c], BatchOf(c))
             /\ \A d \in Chats \ {c} : posted'[d] = posted[d]
    <3>1. \A a \in PostedMessages(c) \ FromMe, b \in RangeOf(BatchOf(c)) \ FromMe :
              ReceivedBefore(a, b)'
      BY <1>1, <1>5 DEF OrderInv, PostedFirst
    <3>2. RangeOf(BatchOf(c)) \cap FromMe = {}
      BY <1>1, <1>2
    <3> QED BY <2>1, <2>3, <3>1, <3>2, <1>1, <1>5, AppendKeepsOrder DEF OrderInv
  <2> QED BY <2>2, <2>3, <1>1
<1> QED BY <1>6, <1>7, <1>8, <1>9 DEF OrderInv

\* A message of the tenant comes after everything that was received.
LEMMA ArrivalKeepsOrder ==
  ASSUME TypeOK, OrderInv, NEW m \in Messages \ FromMe, NEW c \in Chats, ChatOf[m] = c,
         Arrives(m), UNCHANGED <<posted, waiting>>,
         Buffered(c)' = Buffered(c) \cup {m},
         \A d \in Chats \ {c} : Buffered(d)' = Buffered(d)
  PROVE  OrderInv'
<1>1. /\ RangeOf(received)' = RangeOf(received) \cup {m}
      /\ m \notin RangeOf(received)
      /\ \A a, b : ReceivedBefore(a, b) => ReceivedBefore(a, b)'
      /\ \A a, b : b # m /\ ReceivedBefore(a, b)' => ReceivedBefore(a, b)
      /\ \A a \in RangeOf(received) : ReceivedBefore(a, m)'
  BY ArrivalOrder
<1>2. \A i, j \in DOMAIN received' : received'[i] = received'[j] => i = j
  BY ArrivalOrder DEF OrderInv, Contents
<1>3. /\ \A d \in Chats : Buffered(d) \subseteq {x \in RangeOf(received) \ FromMe : ChatOf[x] = d}
      /\ \A d \in Chats : PostedMessages(d) \subseteq {x \in RangeOf(received) : ChatOf[x] = d}
      /\ \A w \in waiting : w.message \in RangeOf(received)
      /\ \A x \in RangeOf(received) \ FromMe :
             x \in Buffered(ChatOf[x]) \cup PostedMessages(ChatOf[x])
  BY DEF OrderInv, Contents
<1>4. \A d \in Chats : PostedMessages(d)' = PostedMessages(d)
  BY DEF PostedMessages
<1>5. RangeOf(received) \subseteq Messages /\ \A x \in Messages : ChatOf[x] \in Chats
  BY BufferAssumption, ReceivedAreMessages
<1>6. Contents'
  <2>1. ASSUME NEW d \in Chats
        PROVE  /\ Buffered(d)' \subseteq {x \in RangeOf(received)' \ FromMe : ChatOf[x] = d}
               /\ PostedMessages(d)' \subseteq {x \in RangeOf(received)' : ChatOf[x] = d}
    BY <1>1, <1>3, <1>4
  <2>2. \A w \in waiting' : w.message \in RangeOf(received)'
    BY <1>1, <1>3
  <2>3. ASSUME NEW x \in RangeOf(received)' \ FromMe
        PROVE  x \in Buffered(ChatOf[x])' \cup PostedMessages(ChatOf[x])'
    <3>1. CASE x = m
      BY <3>1
    <3>2. CASE x # m
      <4>1. x \in RangeOf(received) \ FromMe /\ ChatOf[x] \in Chats
        BY <3>2, <1>1, <1>5
      <4>2. x \in Buffered(ChatOf[x]) \cup PostedMessages(ChatOf[x])
        BY <4>1, <1>3
      <4> QED BY <4>1, <4>2, <1>4
    <3> QED BY <3>1, <3>2
  <2> QED BY <2>1, <2>2, <2>3, <1>2 DEF Contents
<1>7. PostedFirst'
  <2>1. ASSUME NEW d \in Chats, NEW a \in PostedMessages(d)' \ FromMe, NEW b \in Buffered(d)'
        PROVE  ReceivedBefore(a, b)'
    <3>1. a \in PostedMessages(d) \ FromMe /\ a \in RangeOf(received)
      BY <1>3, <1>4
    <3>2. CASE b = m
      BY <3>1, <3>2, <1>1
    <3>3. CASE b # m
      <4>1. b \in Buffered(d)
        BY <3>3
      <4>2. ReceivedBefore(a, b)
        BY <3>1, <4>1 DEF OrderInv, PostedFirst
      <4> QED BY <4>2, <1>1
    <3> QED BY <3>2, <3>3
  <2> QED BY <2>1 DEF PostedFirst
<1>8. WaitingIsNext'
  <2>1. ASSUME NEW w \in waiting, NEW x \in RangeOf(received)' \ FromMe,
               ChatOf[x] = ChatOf[w.message], ReceivedBefore(x, w.message)'
        PROVE  x \in PostedMessages(ChatOf[x])'
    <3>1. w.message \in RangeOf(received) /\ w.message # m
      BY <1>1, <1>3
    <3>2. ReceivedBefore(x, w.message)
      BY <2>1, <3>1, <1>1
    <3>3. x \in RangeOf(received) \ FromMe /\ ChatOf[x] \in Chats
      BY <2>1, <3>2, <1>5, BeforeIsReceived
    <3>4. x \in PostedMessages(ChatOf[x])
      BY <2>1, <3>2, <3>3 DEF OrderInv, WaitingIsNext
    <3> QED BY <3>3, <3>4, <1>4
  <2> QED BY <2>1 DEF WaitingIsNext
<1>9. PostedInOrder'
  <2>1. \A d \in Chats : \A h \in PostedMessages(d) : \A a :
            ReceivedBefore(a, h)' => ReceivedBefore(a, h)
    BY <1>1, <1>3
  <2> QED BY <2>1, <1>1, SameOrder DEF OrderInv
<1> QED BY <1>6, <1>7, <1>8, <1>9 DEF OrderInv

\* An operator message that waited is posted on its own, after what came
\* before it.
LEMMA ForwardKeepsOrder ==
  ASSUME TypeOK, OrderInv, NEW w \in waiting, ForwardImmediate(w)
  PROVE  OrderInv'
<1> DEFINE c == ChatOf[w.message]
           batch == <<w.message>>
<1>1. w.message \in FromMe /\ w.message \in Messages /\ c \in Chats
  BY BufferAssumption DEF TypeOK
<1>2. batch \in Seq(Messages) /\ RangeOf(batch) = {w.message}
  BY <1>1 DEF RangeOf
<1>3. StartPost(c, batch) /\ waiting' \subseteq waiting /\ UNCHANGED <<received, buffers>>
  BY DEF ForwardImmediate
<1> HIDE DEF c, batch
<1>4. /\ posted'[c] = Append(posted[c], batch)
      /\ \A d \in Chats \ {c} : posted'[d] = posted[d]
      /\ PostedMessages(c)' = PostedMessages(c) \cup {w.message}
      /\ \A d \in Chats \ {c} : PostedMessages(d)' = PostedMessages(d)
  BY <1>1, <1>2, <1>3, PostAppends
<1>5. /\ RangeOf(received)' = RangeOf(received)
      /\ \A a, b : ReceivedBefore(a, b)' <=> ReceivedBefore(a, b)
      /\ \A d \in Chats : Buffered(d)' = Buffered(d)
  BY <1>3 DEF RangeOf, ReceivedBefore, Buffered
<1>6. \A x \in RangeOf(received) : ChatOf[x] \in Chats /\ x \in Messages
  BY BufferAssumption DEF TypeOK, RangeOf
<1>7. Contents'
  <2>1. /\ \A d \in Chats : Buffered(d)' \subseteq
               {x \in RangeOf(received)' \ FromMe : ChatOf[x] = d}
        /\ \A x \in waiting' : x.message \in RangeOf(received)'
        /\ \A i, j \in DOMAIN received' : received'[i] = received'[j] => i = j
    BY <1>3, <1>5 DEF OrderInv, Contents
  <2>2. ASSUME NEW d \in Chats
        PROVE  PostedMessages(d)' \subseteq {x \in RangeOf(received)' : ChatOf[x] = d}
    BY <1>4, <1>5 DEF OrderInv, Contents, c
  <2>3. ASSUME NEW x \in RangeOf(received)' \ FromMe
        PROVE  x \in Buffered(ChatOf[x])' \cup PostedMessages(ChatOf[x])'
    <3>1. x \in Buffered(ChatOf[x]) \cup PostedMessages(ChatOf[x]) /\ ChatOf[x] \in Chats
      BY <1>5, <1>6 DEF OrderInv, Contents
    <3> QED BY <3>1, <1>4, <1>5
  <2> QED BY <2>1, <2>2, <2>3 DEF Contents
<1>8. PostedFirst'
  <2>1. ASSUME NEW d \in Chats, NEW a \in PostedMessages(d)' \ FromMe, NEW b \in Buffered(d)'
        PROVE  ReceivedBefore(a, b)'
    <3>1. a \in PostedMessages(d) \ FromMe /\ b \in Buffered(d)
      BY <1>1, <1>4, <1>5
    <3> QED BY <3>1, <1>5 DEF OrderInv, PostedFirst
  <2> QED BY <2>1 DEF PostedFirst
<1>9. WaitingIsNext'
  <2>1. ASSUME NEW x \in waiting', NEW m \in RangeOf(received)' \ FromMe,
               ChatOf[m] = ChatOf[x.message], ReceivedBefore(m, x.message)'
        PROVE  m \in PostedMessages(ChatOf[m])'
    <3>1. m \in PostedMessages(ChatOf[m]) /\ ChatOf[m] \in Chats
      BY <2>1, <1>3, <1>5, <1>6 DEF OrderInv, WaitingIsNext
    <3> QED BY <3>1, <1>4
  <2> QED BY <2>1 DEF WaitingIsNext
<1>10. PostedInOrder'
  <2>1. \A h \in RangeOf(batch) \cap FromMe : \A a \in Messages \ FromMe :
            ChatOf[a] = c /\ ReceivedBefore(a, h)' => a \in PostedMessages(c)
    <3>1. ASSUME NEW a \in Messages \ FromMe, ChatOf[a] = c, ReceivedBefore(a, w.message)
          PROVE  a \in PostedMessages(c)
      <4>1. a \in RangeOf(received) \ FromMe
        BY <3>1, BeforeIsReceived
      <4> QED BY <3>1, <4>1 DEF OrderInv, WaitingIsNext, c
    <3> QED BY <3>1, <1>2, <1>5
  <2>2. RangeOf(batch) \ FromMe = {}
    BY <1>1, <1>2
  <2>3. received' \in Seq(Messages)
    BY <1>3 DEF TypeOK
  <2> QED BY <2>1, <2>2, <2>3, <1>1, <1>2, <1>4, <1>5, AppendKeepsOrder DEF OrderInv
<1> QED BY <1>7, <1>8, <1>9, <1>10 DEF OrderInv

\* What a message of the tenant adds to the buffer of its chat.
LEMMA ReceiveBuffers ==
  ASSUME TypeOK, NEW m \in Messages, ReceiveMore(m) \/ ReceiveFirst(m)
  PROVE  /\ m \notin FromMe /\ ChatOf[m] \in Chats /\ Arrives(m)
         /\ UNCHANGED <<posted, waiting, posts, forwarded, failed, process, flushing>>
         /\ Buffered(ChatOf[m])' = Buffered(ChatOf[m]) \cup {m}
         /\ \A d \in Chats \ {ChatOf[m]} : Buffered(d)' = Buffered(d)
<1> DEFINE c == ChatOf[m]
<1>1. c \in Chats
  BY BufferAssumption
<1>2. m \notin FromMe /\ Arrives(m)
      /\ UNCHANGED <<posted, waiting, posts, forwarded, failed, process, flushing>>
  BY DEF ReceiveMore, ReceiveFirst
<1>3. buffers[c].messages \in Seq(Messages)
  BY <1>1 DEF TypeOK
<1>4. /\ buffers'[c].messages = Append(buffers[c].messages, m)
      /\ \A d \in Chats \ {c} : buffers'[d] = buffers[d]
  <2>1. CASE ReceiveMore(m)
    BY <1>1, <2>1 DEF ReceiveMore, TypeOK
  <2>2. CASE ReceiveFirst(m)
    <3>1. buffers[c].messages = << >> /\ <<m>> = Append(<< >>, m)
      BY <2>2 DEF ReceiveFirst, Pending
    <3>2. buffers'[c].messages = <<m>> /\ \A d \in Chats \ {c} : buffers'[d] = buffers[d]
      BY <1>1, <2>2 DEF ReceiveFirst, TypeOK
    <3> QED BY <3>1, <3>2
  <2> QED BY <2>1, <2>2
<1> HIDE DEF c
<1>5. RangeOf(Append(buffers[c].messages, m)) = RangeOf(buffers[c].messages) \cup {m}
  <2> DEFINE s == buffers[c].messages
             n == Len(s)
  <2>1. /\ n \in Nat /\ DOMAIN s = 1..n /\ DOMAIN Append(s, m) = 1..(n + 1)
        /\ \A i \in 1..n : Append(s, m)[i] = s[i]
        /\ Append(s, m)[n + 1] = m
    BY <1>3
  <2>2. \A i : i \in 1..(n + 1) <=> i \in 1..n \/ i = n + 1
    BY <2>1
  <2> HIDE DEF n, s
  <2>3. RangeOf(Append(s, m)) = RangeOf(s) \cup {m}
    BY <2>1, <2>2 DEF RangeOf
  <2> QED BY <2>3 DEF s
<1>6. Buffered(c)' = Buffered(c) \cup {m} /\ \A d \in Chats \ {c} : Buffered(d)' = Buffered(d)
  BY <1>4, <1>5 DEF Buffered
<1> QED BY <1>1, <1>2, <1>6 DEF c

\* Every step keeps the messages in order.
LEMMA NextOrderInv == TypeOK /\ TimerInv /\ OrderInv /\ [Next]_vars => OrderInv'
<1> SUFFICES ASSUME TypeOK, TimerInv, OrderInv, [Next]_vars PROVE OrderInv'
  OBVIOUS
<1>1. ASSUME NEW m \in Messages, ReceiveFromMe(m) PROVE OrderInv'
  <2> DEFINE b == IF Pending(ChatOf[m]) THEN BatchOf(ChatOf[m]) ELSE NoBatch
  <2>1. /\ m \in FromMe /\ Arrives(m) /\ Flush(ChatOf[m])
        /\ waiting' = waiting \cup {[message |-> m, batch |-> b]}
    BY <1>1 DEF ReceiveFromMe
  <2> HIDE DEF b
  <2>2. ChatOf[m] \in Chats
    BY BufferAssumption
  <2> QED BY <2>1, <2>2, FlushKeepsOrder
<1>2. ASSUME NEW m \in Messages, ReceiveMore(m) \/ ReceiveFirst(m) PROVE OrderInv'
  BY <1>2, ReceiveBuffers, ArrivalKeepsOrder
<1>3. ASSUME NEW f \in fetches, FetchReturns(f) PROVE OrderInv'
  <2>1. UNCHANGED <<received, waiting>> /\ f[1] \in Chats
    BY <1>3 DEF FetchReturns, TypeOK
  <2>2. CASE Flush(f[1])
    BY <2>1, <2>2, FlushKeepsOrder
  <2>3. CASE UNCHANGED posted /\ \A d \in Chats : Buffered(d)' = Buffered(d)
    BY <2>1, <2>3, SameOrderInv
  <2>4. CASE buffers' = [buffers EXCEPT ![f[1]].timer = 1] /\ UNCHANGED posted
    <3>1. \A d \in Chats : buffers'[d].messages = buffers[d].messages
      BY <2>1, <2>4 DEF TypeOK
    <3> QED BY <2>3, <2>4, <3>1 DEF Buffered
  <2>5. CASE UNCHANGED <<buffers, posted>>
    BY <2>3, <2>5 DEF Buffered
  <2> QED BY <1>3, <2>2, <2>4, <2>5 DEF FetchReturns
<1>4. ASSUME NEW t \in armed, TimerFires(t) PROVE OrderInv'
  <2>1. UNCHANGED <<received, waiting>>
    BY <1>4 DEF TimerFires
  <2> QED BY <1>4, <2>1, FiredTimerFlushes, FlushKeepsOrder
<1>5. ASSUME FlushNext PROVE OrderInv'
  <2>1. PICK c \in flushing.chats : Flush(c)
    BY <1>5 DEF FlushNext
  <2>2. c \in Chats /\ UNCHANGED <<received, waiting>>
    BY <1>5 DEF FlushNext, TypeOK
  <2> QED BY <2>1, <2>2, FlushKeepsOrder
<1>6. ASSUME \/ \E p \in posts : PostSucceeds(p) \/ AttemptFails(p)
             \/ Stop \/ Exit \/ Rest \/ UNCHANGED vars
      PROVE  OrderInv'
  <2>1. UNCHANGED <<received, waiting, posted, buffers>>
    BY <1>6 DEF PostSucceeds, AttemptFails, Stop, Exit, Rest, vars
  <2>2. \A d \in Chats : Buffered(d)' = Buffered(d)
    BY <2>1 DEF Buffered
  <2> QED BY <2>1, <2>2, SameOrderInv
<1> QED BY <1>1, <1>2, <1>3, <1>4, <1>5, <1>6, ForwardKeepsOrder DEF Next

\* The messages of a chat are handed to the poster in an order in which each of
\* the tenant's comes before what was received after it in a later batch, for
\* any number of messages, timers, lookups and attempts in any order.
THEOREM PostsKeepOrder == Spec => []PostedInOrder
<1>1. Init => TypeOK /\ TimerInv /\ OrderInv
  BY InitTypeOK, InitTimerInv, InitOrderInv
<1>2. TypeOK /\ TimerInv /\ OrderInv /\ [Next]_vars => (TypeOK /\ TimerInv /\ OrderInv)'
  BY NextTypeOK, NextTimerInv, NextOrderInv
<1>3. OrderInv => PostedInOrder
  BY DEF OrderInv
<1> QED BY <1>1, <1>2, <1>3, PTL DEF Spec

(***************************************************************************)
(* Shutdown                                                                *)
(***************************************************************************)
LEMMA InitShutdownInv == Init => ShutdownInv
BY DEF Init, ShutdownInv, OwedOrPosted

\* What is owed is settled as before when nothing posted is forgotten and a
\* message only leaves a buffer to be posted.
LEMMA OwedKept ==
  ASSUME TypeOK, ShutdownInv, UNCHANGED process, flushing'.owed = flushing.owed,
         \A c \in Chats : PostedMessages(c) \subseteq PostedMessages(c)',
         \A c \in Chats : Buffered(c) \subseteq Buffered(c)' \cup PostedMessages(c)',
         flushing'.chats \subseteq flushing.chats,
         \A c \in flushing.chats \ flushing'.chats : Buffered(c)' = {}
  PROVE  ShutdownInv'
<1>1. flushing.chats \subseteq Chats
  BY DEF TypeOK
<1>2. OwedOrPosted'
  <2>1. ASSUME process # "up", NEW m \in flushing.owed
        PROVE  \/ \E c \in Chats : m \in PostedMessages(c)'
               \/ \E c \in flushing'.chats : m \in Buffered(c)'
    <3>1. CASE \E c \in Chats : m \in PostedMessages(c)
      BY <3>1
    <3>2. CASE \E c \in flushing.chats : m \in Buffered(c)
      BY <3>2, <1>1
    <3> QED BY <2>1, <3>1, <3>2 DEF ShutdownInv, OwedOrPosted
  <2> QED BY <2>1 DEF OwedOrPosted
<1> QED BY <1>2 DEF ShutdownInv

\* A flush posts what leaves the buffer.
LEMMA FlushKeepsOwed ==
  ASSUME TypeOK, ShutdownInv, NEW c \in Chats, Flush(c), UNCHANGED process,
         \/ UNCHANGED flushing
         \/ flushing'.chats = flushing.chats \ {c} /\ flushing'.owed = flushing.owed
  PROVE  ShutdownInv'
<1>1. /\ Buffered(c)' = {}
      /\ \A d \in Chats \ {c} : Buffered(d)' = Buffered(d)
      /\ PostedMessages(c)' = PostedMessages(c) \cup Buffered(c)
      /\ \A d \in Chats \ {c} : PostedMessages(d)' = PostedMessages(d)
  BY FlushMoves
<1>2. /\ \A d \in Chats : PostedMessages(d) \subseteq PostedMessages(d)'
      /\ \A d \in Chats : Buffered(d) \subseteq Buffered(d)' \cup PostedMessages(d)'
  BY <1>1
<1>3. /\ flushing'.owed = flushing.owed /\ flushing'.chats \subseteq flushing.chats
      /\ \A d \in flushing.chats \ flushing'.chats : Buffered(d)' = {}
  BY <1>1
<1> QED BY <1>2, <1>3, OwedKept

\* Every step keeps what the shutdown owes.
LEMMA NextShutdownInv == TypeOK /\ TimerInv /\ ShutdownInv /\ [Next]_vars => ShutdownInv'
<1> SUFFICES ASSUME TypeOK, TimerInv, ShutdownInv, [Next]_vars PROVE ShutdownInv'
  OBVIOUS
<1>1. ASSUME NEW m \in Messages, ReceiveFromMe(m) PROVE ShutdownInv'
  <2>1. ChatOf[m] \in Chats /\ Flush(ChatOf[m]) /\ UNCHANGED <<process, flushing>>
    BY <1>1, BufferAssumption DEF ReceiveFromMe
  <2> QED BY <2>1, FlushKeepsOwed
<1>2. ASSUME NEW m \in Messages, ReceiveMore(m) \/ ReceiveFirst(m) PROVE ShutdownInv'
  <2>1. /\ ChatOf[m] \in Chats /\ UNCHANGED <<posted, process, flushing>>
        /\ Buffered(ChatOf[m])' = Buffered(ChatOf[m]) \cup {m}
        /\ \A d \in Chats \ {ChatOf[m]} : Buffered(d)' = Buffered(d)
    BY <1>2, ReceiveBuffers
  <2>2. /\ \A d \in Chats : PostedMessages(d)' = PostedMessages(d)
        /\ \A d \in Chats : Buffered(d) \subseteq Buffered(d)'
    BY <2>1 DEF PostedMessages
  <2> QED BY <2>1, <2>2, OwedKept
<1>3. ASSUME NEW f \in fetches, FetchReturns(f) PROVE ShutdownInv'
  <2>1. UNCHANGED <<process, flushing>> /\ f[1] \in Chats
    BY <1>3 DEF FetchReturns, TypeOK
  <2>2. CASE Flush(f[1])
    BY <2>1, <2>2, FlushKeepsOwed
  <2>3. CASE UNCHANGED posted /\ \A d \in Chats : Buffered(d)' = Buffered(d)
    <3>1. \A d \in Chats : PostedMessages(d)' = PostedMessages(d)
      BY <2>3 DEF PostedMessages
    <3> QED BY <2>1, <2>3, <3>1, OwedKept
  <2>4. CASE buffers' = [buffers EXCEPT ![f[1]].timer = 1] /\ UNCHANGED posted
    <3>1. \A d \in Chats : buffers'[d].messages = buffers[d].messages
      BY <2>1, <2>4 DEF TypeOK
    <3> QED BY <2>3, <2>4, <3>1 DEF Buffered
  <2>5. CASE UNCHANGED <<buffers, posted>>
    BY <2>3, <2>5 DEF Buffered
  <2> QED BY <1>3, <2>2, <2>4, <2>5 DEF FetchReturns
<1>4. ASSUME NEW t \in armed, TimerFires(t) PROVE ShutdownInv'
  <2>1. UNCHANGED <<process, flushing>>
    BY <1>4 DEF TimerFires
  <2> QED BY <1>4, <2>1, FiredTimerFlushes, FlushKeepsOwed
<1>5. ASSUME NEW w \in waiting, ForwardImmediate(w) PROVE ShutdownInv'
  <2> DEFINE c == ChatOf[w.message]
             batch == <<w.message>>
  <2>1. c \in Chats /\ batch \in Seq(Messages)
    BY BufferAssumption DEF TypeOK
  <2>2. StartPost(c, batch) /\ UNCHANGED <<buffers, process, flushing>>
    BY <1>5 DEF ForwardImmediate
  <2> HIDE DEF c, batch
  <2>3. /\ \A d \in Chats : PostedMessages(d) \subseteq PostedMessages(d)'
        /\ \A d \in Chats : Buffered(d)' = Buffered(d)
    BY <2>1, <2>2, PostAppends DEF Buffered
  <2> QED BY <2>2, <2>3, OwedKept
<1>6. ASSUME Stop PROVE ShutdownInv'
  <2>1. /\ process' = "stopping" /\ UNCHANGED buffers
        /\ flushing'.chats = {c \in Chats : Pending(c)}
        /\ flushing'.owed = UNION {RangeOf(buffers[c].messages) : c \in Chats}
    BY <1>6 DEF Stop
  <2>2. ASSUME NEW m \in flushing'.owed
        PROVE  \E c \in flushing'.chats : m \in Buffered(c)'
    <3>1. PICK c \in Chats : m \in RangeOf(buffers[c].messages)
      BY <2>1, <2>2
    <3>2. Pending(c)
      BY <3>1 DEF Pending, RangeOf
    <3> QED BY <3>1, <3>2, <2>1 DEF Buffered
  <2> QED BY <2>1, <2>2 DEF ShutdownInv, OwedOrPosted
<1>7. ASSUME FlushNext PROVE ShutdownInv'
  <2>1. PICK c \in flushing.chats :
            /\ Flush(c)
            /\ flushing' = [flushing EXCEPT !.chats = @ \ {c},
                               !.batch = IF Pending(c) THEN BatchOf(c) ELSE NoBatch]
    BY <1>7 DEF FlushNext
  <2>2. c \in Chats /\ UNCHANGED process
    BY <1>7 DEF FlushNext, TypeOK
  <2>3. flushing'.chats = flushing.chats \ {c} /\ flushing'.owed = flushing.owed
    BY <2>1 DEF TypeOK
  <2> QED BY <2>1, <2>2, <2>3, FlushKeepsOwed
<1>8. ASSUME Exit PROVE ShutdownInv'
  <2>1. flushing' = flushing /\ flushing.chats = {} /\ process = "stopping"
        /\ UNCHANGED <<posted, buffers>>
    BY <1>8 DEF Exit
  <2> QED BY <2>1 DEF ShutdownInv, OwedOrPosted, PostedMessages, Buffered
<1>9. ASSUME \/ \E p \in posts : PostSucceeds(p) \/ AttemptFails(p)
             \/ Rest \/ UNCHANGED vars
      PROVE  ShutdownInv'
  <2>1. UNCHANGED <<posted, buffers, process, flushing>>
    BY <1>9 DEF PostSucceeds, AttemptFails, Rest, vars
  <2> QED BY <2>1 DEF ShutdownInv, OwedOrPosted, PostedMessages, Buffered
<1> QED BY <1>1, <1>2, <1>3, <1>4, <1>5, <1>6, <1>7, <1>8, <1>9 DEF Next

\* Every message that is in a buffer at the signal has been posted when the
\* process exits, although timers fire, answers return and messages arrive
\* while flushAll goes through the chats.
THEOREM ShutdownPosts == Spec => []ShutdownPostsBuffers
<1>1. Init => TypeOK /\ TimerInv /\ ShutdownInv
  BY InitTypeOK, InitTimerInv, InitShutdownInv
<1>2. TypeOK /\ TimerInv /\ ShutdownInv /\ [Next]_vars => (TypeOK /\ TimerInv /\ ShutdownInv)'
  BY NextTypeOK, NextTimerInv, NextShutdownInv
<1>3. ShutdownInv => ShutdownPostsBuffers
  <2> SUFFICES ASSUME ShutdownInv, process = "down"
               PROVE  \A m \in flushing.owed : \E c \in Chats : m \in PostedMessages(c)
    BY DEF ShutdownPostsBuffers
  <2> QED BY DEF ShutdownInv, OwedOrPosted
<1> QED BY <1>1, <1>2, <1>3, PTL DEF Spec

(***************************************************************************)
(* The place of a message                                                  *)
(***************************************************************************)
\* What has a message.
Waits(m) == {w \in waiting : w.message = m}
PostsOf(m) == {p \in posts : m \in RangeOf(p.batch)}
Delivered(m) == {b \in forwarded : m \in RangeOf(b)}
GivenUp(m) == {b \in failed : m \in RangeOf(b)}
Buffering(m) == {c \in Chats : m \in Buffered(c)}

\* The places of a message by what has it.
LEMMA PlacesOf ==
  ASSUME NEW m
  PROVE  Places(m) =
               {<<"buffer", c>> : c \in Buffering(m)} \cup {<<"waiting", w>> : w \in Waits(m)}
          \cup {<<"post", p.batch>> : p \in PostsOf(m)}
          \cup {<<"forwarded", b>> : b \in Delivered(m)} \cup {<<"failed", b>> : b \in GivenUp(m)}
BY DEF Places, Buffering, Buffered, Waits, PostsOf, Delivered, GivenUp

\* The same for the next state.
LEMMA NextPlacesOf ==
  ASSUME NEW m
  PROVE  Places(m)' =
               {<<"buffer", c>> : c \in Buffering(m)'} \cup {<<"waiting", w>> : w \in Waits(m)'}
          \cup {<<"post", p.batch>> : p \in PostsOf(m)'}
          \cup {<<"forwarded", b>> : b \in Delivered(m)'} \cup {<<"failed", b>> : b \in GivenUp(m)'}
BY DEF Places, Buffering, Buffered, Waits, PostsOf, Delivered, GivenUp

\* A message that is not received is nowhere; one that is has one place, so
\* what has it is the only thing that has it.
LEMMA OneHolder ==
  ASSUME TypeOK, PlaceInv, NEW m \in Messages
  PROVE  /\ m \notin RangeOf(received) =>
               /\ Buffering(m) = {} /\ Waits(m) = {} /\ PostsOf(m) = {}
               /\ Delivered(m) = {} /\ GivenUp(m) = {}
         /\ \A c \in Buffering(m) :
               /\ Buffering(m) = {c} /\ Waits(m) = {} /\ PostsOf(m) = {}
               /\ Delivered(m) = {} /\ GivenUp(m) = {}
         /\ \A w \in Waits(m) :
               /\ Buffering(m) = {} /\ Waits(m) = {w} /\ PostsOf(m) = {}
               /\ Delivered(m) = {} /\ GivenUp(m) = {}
         /\ \A p \in PostsOf(m) :
               /\ Buffering(m) = {} /\ Waits(m) = {} /\ PostsOf(m) = {p}
               /\ Delivered(m) = {} /\ GivenUp(m) = {}
<1>1. Places(m) = {} \/ \E x : Places(m) = {x}
  BY DEF PlaceInv
<1>2. m \notin RangeOf(received) => Places(m) = {}
  BY DEF PlaceInv
<1>3. /\ \A c \in Buffering(m) : <<"buffer", c>> \in Places(m)
      /\ \A w \in Waits(m) : <<"waiting", w>> \in Places(m)
      /\ \A p \in PostsOf(m) : <<"post", p.batch>> \in Places(m)
      /\ \A b \in Delivered(m) : <<"forwarded", b>> \in Places(m)
      /\ \A b \in GivenUp(m) : <<"failed", b>> \in Places(m)
  BY PlacesOf
<1>4. \A x, y \in Places(m) : x = y
  BY <1>1
<1>5. \A p, q \in PostsOf(m) : p = q
  <2>1. \A p, q \in PostsOf(m) : p \in posts /\ q \in posts
                                 /\ m \in RangeOf(p.batch) \cap RangeOf(q.batch)
    BY DEF PostsOf
  <2> QED BY <2>1 DEF PlaceInv
<1>6. m \notin RangeOf(received) =>
               /\ Buffering(m) = {} /\ Waits(m) = {} /\ PostsOf(m) = {}
               /\ Delivered(m) = {} /\ GivenUp(m) = {}
  BY <1>2, <1>3
<1>7. ASSUME NEW c \in Buffering(m)
      PROVE  /\ Buffering(m) = {c} /\ Waits(m) = {} /\ PostsOf(m) = {}
             /\ Delivered(m) = {} /\ GivenUp(m) = {}
  <2>1. \A x \in Places(m) : x = <<"buffer", c>>
    BY <1>3, <1>4
  <2> QED BY <2>1, <1>3
<1>8. ASSUME NEW w \in Waits(m)
      PROVE  /\ Buffering(m) = {} /\ Waits(m) = {w} /\ PostsOf(m) = {}
             /\ Delivered(m) = {} /\ GivenUp(m) = {}
  <2>1. \A x \in Places(m) : x = <<"waiting", w>>
    BY <1>3, <1>4
  <2> QED BY <2>1, <1>3
<1>9. ASSUME NEW p \in PostsOf(m)
      PROVE  /\ Buffering(m) = {} /\ Waits(m) = {} /\ PostsOf(m) = {p}
             /\ Delivered(m) = {} /\ GivenUp(m) = {}
  <2>1. \A x \in Places(m) : x = <<"post", p.batch>>
    BY <1>3, <1>4
  <2> QED BY <2>1, <1>3, <1>5
<1> QED BY <1>6, <1>7, <1>8, <1>9

\* Nothing about a message changes when nothing that has it does.
SameHolders(m) ==
    /\ Buffering(m)' = Buffering(m) /\ Waits(m)' = Waits(m) /\ PostsOf(m)' = PostsOf(m)
    /\ Delivered(m)' = Delivered(m) /\ GivenUp(m)' = GivenUp(m)

\* The places of a message depend on these variables alone.
LEMMA SamePlaces ==
  ASSUME NEW m, SameHolders(m)
  PROVE  Places(m)' = Places(m)
BY PlacesOf, NextPlacesOf DEF SameHolders

\* No message has arrived at first.
LEMMA InitPlaceInv == Init => PlaceInv
<1> SUFFICES ASSUME Init PROVE PlaceInv
  OBVIOUS
<1>1. \A m \in Messages :
          /\ Buffering(m) = {} /\ Waits(m) = {} /\ PostsOf(m) = {}
          /\ Delivered(m) = {} /\ GivenUp(m) = {}
  BY DEF Init, Buffering, Buffered, RangeOf, Waits, PostsOf, Delivered, GivenUp
<1>2. \A m \in Messages : Places(m) = {}
  BY <1>1, PlacesOf
<1> QED BY <1>2 DEF Init, PlaceInv, RangeOf

\* A flush moves the messages of the buffer into a post; an operator message
\* that makes it when it arrives waits.
LEMMA FlushKeepsPlaces ==
  ASSUME TypeOK, OrderInv, PlaceInv, NEW c \in Chats, Flush(c), UNCHANGED <<forwarded, failed>>,
         \/ received' = received /\ waiting' = waiting
         \/ \E m \in FromMe : \E b : /\ Arrives(m)
                                      /\ waiting' = waiting \cup {[message |-> m, batch |-> b]}
  PROVE  PlaceInv'
<1> DEFINE batch == BatchOf(c)
           post == [chat |-> c, batch |-> batch, tries |-> 1]
<1>1. /\ Buffered(c)' = {}
      /\ \A d \in Chats \ {c} : Buffered(d)' = Buffered(d)
      /\ RangeOf(batch) = Buffered(c)
  BY FlushMoves
<1>2. \/ posts' = posts \cup {post}
      \/ posts' = posts /\ Buffered(c) = {}
  BY DEF Flush, StartPost, Pending, Buffered, RangeOf
<1>3. RangeOf(received) \subseteq Messages /\ FromMe \subseteq Messages
  BY ReceivedAreMessages, BufferAssumption
<1>4. Buffered(c) \subseteq RangeOf(received)
  BY DEF OrderInv, Contents
<1>5. post.batch = batch
  OBVIOUS
<1> HIDE DEF batch, post
<1>6. \A m : Delivered(m)' = Delivered(m) /\ GivenUp(m)' = GivenUp(m)
  BY DEF Delivered, GivenUp
<1>7. ASSUME NEW m \in Buffered(c), Waits(m)' = Waits(m)
      PROVE  Places(m)' = {<<"post", batch>>}
  <2>1. m \in Messages /\ c \in Buffering(m)
    BY <1>3, <1>4 DEF Buffering
  <2>2. /\ Buffering(m) = {c} /\ Waits(m) = {} /\ PostsOf(m) = {}
        /\ Delivered(m) = {} /\ GivenUp(m) = {}
    BY <2>1, OneHolder
  <2>3. posts' = posts \cup {post}
    BY <1>2
  <2>4. PostsOf(m)' = {post}
    BY <2>2, <2>3, <1>1, <1>5 DEF PostsOf
  <2>5. Buffering(m)' = {}
    BY <2>2, <1>1 DEF Buffering
  <2> QED BY <2>2, <2>4, <2>5, <1>5, <1>6, <1>7, NextPlacesOf
<1>8. ASSUME NEW m, m \notin Buffered(c), Waits(m)' = Waits(m)
      PROVE  Places(m)' = Places(m)
  <2>1. Buffering(m)' = Buffering(m)
    BY <1>1, <1>8 DEF Buffering
  <2>2. PostsOf(m)' = PostsOf(m)
    BY <1>1, <1>2, <1>5, <1>8 DEF PostsOf
  <2> QED BY <2>1, <2>2, <1>6, <1>8, SamePlaces DEF SameHolders
<1>9. \A p, q \in posts' : RangeOf(p.batch) \cap RangeOf(q.batch) # {} => p = q
  <2>1. ASSUME NEW p \in posts, NEW x \in RangeOf(p.batch), x \in Buffered(c)
        PROVE  FALSE
    <3>1. x \in Messages /\ p \in PostsOf(x) /\ c \in Buffering(x)
      BY <2>1, <1>3, <1>4 DEF PostsOf, Buffering
    <3> QED BY <3>1, OneHolder
  <2>2. \A p, q \in posts : RangeOf(p.batch) \cap RangeOf(q.batch) # {} => p = q
    BY DEF PlaceInv
  <2> QED BY <2>1, <2>2, <1>1, <1>2, <1>5
<1>10. CASE received' = received /\ waiting' = waiting
  <2>1. \A m : Waits(m)' = Waits(m)
    BY <1>10 DEF Waits
  <2>2. RangeOf(received)' = RangeOf(received)
    BY <1>10 DEF RangeOf
  <2>3. \A m \in Messages \ RangeOf(received) : Places(m)' = {}
    BY <2>1, <1>4, <1>8 DEF PlaceInv
  <2>4. ASSUME NEW m \in RangeOf(received) PROVE \E x : Places(m)' = {x}
    BY <2>1, <1>7, <1>8 DEF PlaceInv
  <2> QED BY <2>2, <2>3, <2>4, <1>9 DEF PlaceInv
<1>11. ASSUME NEW h \in FromMe, NEW b, Arrives(h),
              waiting' = waiting \cup {[message |-> h, batch |-> b]}
       PROVE  PlaceInv'
  <2> DEFINE w == [message |-> h, batch |-> b]
  <2>1. /\ RangeOf(received)' = RangeOf(received) \cup {h} /\ h \notin RangeOf(received)
        /\ h \in Messages
    BY <1>3, <1>11, ArrivalOrder
  <2>2. w.message = h
    OBVIOUS
  <2>3. waiting' = waiting \cup {w}
    BY <1>11
  <2> HIDE DEF w
  <2>4. \A m : m # h => Waits(m)' = Waits(m)
    BY <2>2, <2>3 DEF Waits
  <2>5. Places(h)' = {<<"waiting", w>>}
    <3>1. /\ Buffering(h) = {} /\ Waits(h) = {} /\ PostsOf(h) = {}
          /\ Delivered(h) = {} /\ GivenUp(h) = {}
      BY <2>1, OneHolder
    <3>2. Waits(h)' = {w}
      BY <3>1, <2>2, <2>3 DEF Waits
    <3>3. h \notin Buffered(c)
      BY <2>1, <1>4
    <3>4. Buffering(h)' = {}
      BY <3>1, <1>1 DEF Buffering
    <3>5. PostsOf(h)' = {}
      BY <3>1, <3>3, <1>1, <1>2, <1>5 DEF PostsOf
    <3> QED BY <3>1, <3>2, <3>4, <3>5, <1>6, NextPlacesOf
  <2>6. \A m \in Messages \ RangeOf(received)' : Places(m)' = {}
    BY <2>1, <2>4, <1>4, <1>8 DEF PlaceInv
  <2>7. ASSUME NEW m \in RangeOf(received)' PROVE \E x : Places(m)' = {x}
    <3>1. CASE m = h
      BY <3>1, <2>5
    <3>2. CASE m # h
      <4>1. m \in RangeOf(received) /\ Waits(m)' = Waits(m)
        BY <3>2, <2>1, <2>4
      <4> QED BY <4>1, <1>7, <1>8 DEF PlaceInv
    <3> QED BY <3>1, <3>2
  <2> QED BY <2>6, <2>7, <1>9 DEF PlaceInv
<1> QED BY <1>10, <1>11

\* A message of the tenant is in the buffer of its chat.
LEMMA ArrivalKeepsPlaces ==
  ASSUME TypeOK, PlaceInv, NEW m \in Messages, NEW c \in Chats, Arrives(m),
         UNCHANGED <<waiting, posts, forwarded, failed>>,
         Buffered(c)' = Buffered(c) \cup {m},
         \A d \in Chats \ {c} : Buffered(d)' = Buffered(d)
  PROVE  PlaceInv'
<1>1. RangeOf(received)' = RangeOf(received) \cup {m} /\ m \notin RangeOf(received)
  BY ArrivalOrder
<1>2. \A x : /\ Waits(x)' = Waits(x) /\ PostsOf(x)' = PostsOf(x)
             /\ Delivered(x)' = Delivered(x) /\ GivenUp(x)' = GivenUp(x)
  BY DEF Waits, PostsOf, Delivered, GivenUp
<1>3. ASSUME NEW x, x # m PROVE Places(x)' = Places(x)
  <2>1. Buffering(x)' = Buffering(x)
    BY <1>3 DEF Buffering
  <2> QED BY <2>1, <1>2, SamePlaces DEF SameHolders
<1>4. Places(m)' = {<<"buffer", c>>}
  <2>1. /\ Buffering(m) = {} /\ Waits(m) = {} /\ PostsOf(m) = {}
        /\ Delivered(m) = {} /\ GivenUp(m) = {}
    BY <1>1, OneHolder
  <2>2. Buffering(m)' = {c}
    BY <2>1 DEF Buffering
  <2> QED BY <2>1, <2>2, <1>2, NextPlacesOf
<1>5. \A x \in Messages \ RangeOf(received)' : Places(x)' = {}
  BY <1>1, <1>3 DEF PlaceInv
<1>6. ASSUME NEW x \in RangeOf(received)' PROVE \E y : Places(x)' = {y}
  BY <1>1, <1>3, <1>4 DEF PlaceInv
<1> QED BY <1>5, <1>6 DEF PlaceInv

\* An operator message that waited is in a post of its own.
LEMMA ForwardKeepsPlaces ==
  ASSUME TypeOK, PlaceInv, NEW w \in waiting, ForwardImmediate(w)
  PROVE  PlaceInv'
<1> DEFINE h == w.message
           batch == <<h>>
           post == [chat |-> ChatOf[h], batch |-> batch, tries |-> 1]
<1>1. h \in Messages
  BY BufferAssumption DEF TypeOK
<1>2. /\ posts' = posts \cup {post} /\ waiting' = waiting \ {w}
      /\ UNCHANGED <<received, buffers, forwarded, failed>>
  BY DEF ForwardImmediate, StartPost
<1>3. post.batch = batch /\ RangeOf(batch) = {h}
  BY DEF RangeOf
<1> HIDE DEF post, batch
<1>4. w \in Waits(h)
  BY DEF Waits
<1>5. /\ Buffering(h) = {} /\ Waits(h) = {w} /\ PostsOf(h) = {}
      /\ Delivered(h) = {} /\ GivenUp(h) = {}
  BY <1>1, <1>4, OneHolder
<1>6. \A x : /\ Buffering(x)' = Buffering(x)
             /\ Delivered(x)' = Delivered(x) /\ GivenUp(x)' = GivenUp(x)
  BY <1>2 DEF Buffering, Buffered, Delivered, GivenUp
<1>7. ASSUME NEW x, x # h PROVE Places(x)' = Places(x)
  <2>1. Waits(x)' = Waits(x)
    BY <1>2, <1>7 DEF Waits
  <2>2. PostsOf(x)' = PostsOf(x)
    BY <1>2, <1>3, <1>7 DEF PostsOf
  <2> QED BY <2>1, <2>2, <1>6, SamePlaces DEF SameHolders
<1>8. Places(h)' = {<<"post", batch>>}
  <2>1. Waits(h)' = {}
    BY <1>2, <1>5 DEF Waits
  <2>2. PostsOf(h)' = {post}
    BY <1>2, <1>3, <1>5 DEF PostsOf
  <2> QED BY <2>1, <2>2, <1>3, <1>5, <1>6, NextPlacesOf
<1>9. RangeOf(received)' = RangeOf(received)
  BY <1>2 DEF RangeOf
<1>10. h \in RangeOf(received)
  BY <1>1, <1>4, OneHolder
<1>11. \A p, q \in posts' : RangeOf(p.batch) \cap RangeOf(q.batch) # {} => p = q
  <2>1. \A p \in posts : h \notin RangeOf(p.batch)
    BY <1>5 DEF PostsOf
  <2>2. \A p, q \in posts : RangeOf(p.batch) \cap RangeOf(q.batch) # {} => p = q
    BY DEF PlaceInv
  <2> QED BY <2>1, <2>2, <1>2, <1>3
<1>12. \A x \in Messages \ RangeOf(received)' : Places(x)' = {}
  BY <1>7, <1>9, <1>10 DEF PlaceInv
<1>13. \A x \in RangeOf(received)' : \E y : Places(x)' = {y}
  BY <1>7, <1>8, <1>9 DEF PlaceInv
<1> QED BY <1>11, <1>12, <1>13 DEF PlaceInv

\* A post that ends leaves its messages with what was delivered or given up;
\* one that is tried again keeps them.
LEMMA PostKeepsPlaces ==
  ASSUME TypeOK, PlaceInv, NEW p \in posts, PostSucceeds(p) \/ AttemptFails(p)
  PROVE  PlaceInv'
<1>1. UNCHANGED <<received, buffers, waiting>>
  BY DEF PostSucceeds, AttemptFails
<1>2. /\ \A x : Buffering(x)' = Buffering(x) /\ Waits(x)' = Waits(x)
      /\ RangeOf(received)' = RangeOf(received)
  BY <1>1 DEF Buffering, Buffered, Waits, RangeOf
<1>3. \A q \in posts : \A m \in RangeOf(q.batch) : m \in Messages
  <2>1. \A q \in posts : q.batch \in Seq(Messages)
    BY DEF TypeOK
  <2> QED BY <2>1 DEF RangeOf
<1>4. ASSUME NEW m \in RangeOf(p.batch)
      PROVE  /\ m \in RangeOf(received)
             /\ Buffering(m) = {} /\ Waits(m) = {} /\ PostsOf(m) = {p}
             /\ Delivered(m) = {} /\ GivenUp(m) = {}
  <2>1. m \in Messages /\ p \in PostsOf(m)
    BY <1>3 DEF PostsOf
  <2> QED BY <2>1, OneHolder
<1>5. \A q, r \in posts : RangeOf(q.batch) \cap RangeOf(r.batch) # {} => q = r
  BY DEF PlaceInv
\* The post is over: its batch joins one of the two sets.
<1>6. ASSUME posts' = posts \ {p},
             \/ forwarded' = forwarded \cup {p.batch} /\ failed' = failed
             \/ forwarded' = forwarded /\ failed' = failed \cup {p.batch}
      PROVE  PlaceInv'
  <2>1. ASSUME NEW x, x \notin RangeOf(p.batch) PROVE Places(x)' = Places(x)
    <3>1. /\ PostsOf(x)' = PostsOf(x) /\ Delivered(x)' = Delivered(x)
          /\ GivenUp(x)' = GivenUp(x)
      BY <1>6, <2>1 DEF PostsOf, Delivered, GivenUp
    <3> QED BY <3>1, <1>2, SamePlaces DEF SameHolders
  <2>2. ASSUME NEW x \in RangeOf(p.batch) PROVE \E y : Places(x)' = {y}
    <3>1. PostsOf(x)' = {}
      BY <1>4, <1>6 DEF PostsOf
    <3>2. CASE forwarded' = forwarded \cup {p.batch} /\ failed' = failed
      <4>1. Delivered(x)' = {p.batch} /\ GivenUp(x)' = {}
        BY <3>2, <1>4 DEF Delivered, GivenUp
      <4>2. Places(x)' = {<<"forwarded", p.batch>>}
        BY <4>1, <3>1, <1>2, <1>4, NextPlacesOf
      <4> QED BY <4>2
    <3>3. CASE forwarded' = forwarded /\ failed' = failed \cup {p.batch}
      <4>1. Delivered(x)' = {} /\ GivenUp(x)' = {p.batch}
        BY <3>3, <1>4 DEF Delivered, GivenUp
      <4>2. Places(x)' = {<<"failed", p.batch>>}
        BY <4>1, <3>1, <1>2, <1>4, NextPlacesOf
      <4> QED BY <4>2
    <3> QED BY <3>2, <3>3, <1>6
  <2>3. \A x \in Messages \ RangeOf(received)' : Places(x)' = {}
    BY <2>1, <1>2, <1>4 DEF PlaceInv
  <2>4. \A x \in RangeOf(received)' : \E y : Places(x)' = {y}
    BY <2>1, <2>2, <1>2 DEF PlaceInv
  <2> QED BY <2>3, <2>4, <1>5, <1>6 DEF PlaceInv
\* The post is tried again: it is another record with the same batch.
<1>7. ASSUME NEW q, q.batch = p.batch, posts' = (posts \ {p}) \cup {q},
             UNCHANGED <<forwarded, failed>>
      PROVE  PlaceInv'
  <2>1. \A x : Delivered(x)' = Delivered(x) /\ GivenUp(x)' = GivenUp(x)
    BY <1>7 DEF Delivered, GivenUp
  <2>2. ASSUME NEW x PROVE Places(x)' = Places(x)
    <3>1. {<<"post", r.batch>> : r \in PostsOf(x)'} = {<<"post", r.batch>> : r \in PostsOf(x)}
      <4>1. CASE x \in RangeOf(p.batch)
        <5>1. PostsOf(x)' = {q} /\ PostsOf(x) = {p}
          BY <4>1, <1>4, <1>7 DEF PostsOf
        <5> QED BY <5>1, <1>7
      <4>2. CASE x \notin RangeOf(p.batch)
        <5>1. PostsOf(x)' = PostsOf(x)
          BY <4>2, <1>7 DEF PostsOf
        <5> QED BY <5>1
      <4> QED BY <4>1, <4>2
    <3> QED BY <3>1, <2>1, <1>2, PlacesOf, NextPlacesOf
  <2>3. \A r, s \in posts' : RangeOf(r.batch) \cap RangeOf(s.batch) # {} => r = s
    BY <1>5, <1>7
  <2> QED BY <2>2, <2>3, <1>2 DEF PlaceInv
<1>8. CASE PostSucceeds(p)
  BY <1>6, <1>8 DEF PostSucceeds
<1>9. CASE AttemptFails(p)
  <2>1. CASE p.tries < MaxTries
    <3> DEFINE q == [p EXCEPT !.tries = @ + 1]
    <3>1. q.batch = p.batch
      BY DEF TypeOK
    <3>2. posts' = (posts \ {p}) \cup {q} /\ UNCHANGED <<forwarded, failed>>
      BY <1>9, <2>1 DEF AttemptFails
    <3> HIDE DEF q
    <3> QED BY <3>1, <3>2, <1>7
  <2>2. CASE ~(p.tries < MaxTries)
    BY <1>6, <1>9, <2>2 DEF AttemptFails
  <2> QED BY <2>1, <2>2
<1> QED BY <1>8, <1>9

\* Places only depend on what was received, is buffered, waits, is posted and
\* has ended.
LEMMA UnchangedPlaces ==
  ASSUME PlaceInv, UNCHANGED <<received, waiting, posts, forwarded, failed>>,
         \A c \in Chats : Buffered(c)' = Buffered(c)
  PROVE  PlaceInv'
<1>1. ASSUME NEW m PROVE SameHolders(m)
  BY DEF SameHolders, Buffering, Waits, PostsOf, Delivered, GivenUp
<1>2. \A m : Places(m)' = Places(m)
  BY <1>1, SamePlaces
<1>3. RangeOf(received)' = RangeOf(received)
  BY DEF RangeOf
<1> QED BY <1>2, <1>3 DEF PlaceInv

\* Every step keeps a message in one place.
LEMMA NextPlaceInv ==
  TypeOK /\ TimerInv /\ OrderInv /\ PlaceInv /\ [Next]_vars => PlaceInv'
<1> SUFFICES ASSUME TypeOK, TimerInv, OrderInv, PlaceInv, [Next]_vars PROVE PlaceInv'
  OBVIOUS
<1>1. ASSUME NEW m \in Messages, ReceiveFromMe(m) PROVE PlaceInv'
  <2> DEFINE b == IF Pending(ChatOf[m]) THEN BatchOf(ChatOf[m]) ELSE NoBatch
  <2>1. /\ m \in FromMe /\ Arrives(m) /\ Flush(ChatOf[m])
        /\ waiting' = waiting \cup {[message |-> m, batch |-> b]}
        /\ UNCHANGED <<forwarded, failed>>
    BY <1>1 DEF ReceiveFromMe
  <2> HIDE DEF b
  <2>2. ChatOf[m] \in Chats
    BY BufferAssumption
  <2> QED BY <2>1, <2>2, FlushKeepsPlaces
<1>2. ASSUME NEW m \in Messages, ReceiveMore(m) \/ ReceiveFirst(m) PROVE PlaceInv'
  BY <1>2, ReceiveBuffers, ArrivalKeepsPlaces
<1>3. ASSUME NEW f \in fetches, FetchReturns(f) PROVE PlaceInv'
  <2>1. UNCHANGED <<received, waiting, forwarded, failed>> /\ f[1] \in Chats
    BY <1>3 DEF FetchReturns, TypeOK
  <2>2. CASE Flush(f[1])
    BY <2>1, <2>2, FlushKeepsPlaces
  <2>3. CASE buffers' = [buffers EXCEPT ![f[1]].timer = 1] /\ UNCHANGED posts
    <3>1. \A d \in Chats : buffers'[d].messages = buffers[d].messages
      BY <2>1, <2>3 DEF TypeOK
    <3>2. \A d \in Chats : Buffered(d)' = Buffered(d)
      BY <3>1 DEF Buffered
    <3> QED BY <2>1, <2>3, <3>2, UnchangedPlaces
  <2>4. CASE UNCHANGED <<buffers, posts>>
    <3>1. \A d \in Chats : Buffered(d)' = Buffered(d)
      BY <2>4 DEF Buffered
    <3> QED BY <2>1, <2>4, <3>1, UnchangedPlaces
  <2> QED BY <1>3, <2>2, <2>3, <2>4 DEF FetchReturns
<1>4. ASSUME NEW t \in armed, TimerFires(t) PROVE PlaceInv'
  <2>1. UNCHANGED <<received, waiting, forwarded, failed>>
    BY <1>4 DEF TimerFires
  <2> QED BY <1>4, <2>1, FiredTimerFlushes, FlushKeepsPlaces
<1>5. ASSUME FlushNext PROVE PlaceInv'
  <2>1. PICK c \in flushing.chats : Flush(c)
    BY <1>5 DEF FlushNext
  <2>2. c \in Chats /\ UNCHANGED <<received, waiting, forwarded, failed>>
    BY <1>5 DEF FlushNext, TypeOK
  <2> QED BY <2>1, <2>2, FlushKeepsPlaces
<1>6. ASSUME Stop \/ Exit \/ Rest \/ UNCHANGED vars PROVE PlaceInv'
  <2>1. UNCHANGED <<received, waiting, buffers, posts, forwarded, failed>>
    BY <1>6 DEF Stop, Exit, Rest, vars
  <2>2. \A d \in Chats : Buffered(d)' = Buffered(d)
    BY <2>1 DEF Buffered
  <2> QED BY <2>1, <2>2, UnchangedPlaces
<1> QED BY <1>1, <1>2, <1>3, <1>4, <1>5, <1>6, ForwardKeepsPlaces, PostKeepsPlaces DEF Next

\* A received message is in exactly one place at any time: in a buffer,
\* waiting, in one post, delivered or given up.
THEOREM OnePlaceEach == Spec => []OnePlace
<1>1. Init => TypeOK /\ TimerInv /\ OrderInv /\ PlaceInv
  BY InitTypeOK, InitTimerInv, InitOrderInv, InitPlaceInv
<1>2. TypeOK /\ TimerInv /\ OrderInv /\ PlaceInv /\ [Next]_vars
          => (TypeOK /\ TimerInv /\ OrderInv /\ PlaceInv)'
  BY NextTypeOK, NextTimerInv, NextOrderInv, NextPlaceInv
<1>3. PlaceInv => OnePlace
  <2>1. ASSUME PlaceInv, NEW m \in RangeOf(received) PROVE Cardinality(Places(m)) = 1
    <3>1. PICK x : Places(m) = {x}
      BY <2>1 DEF PlaceInv
    <3> QED BY <3>1, FS_Singleton
  <2> QED BY <2>1 DEF OnePlace
<1> QED BY <1>1, <1>2, <1>3, PTL DEF Spec

=============================================================================

-------------------------- MODULE SimulatorProofs --------------------------
(***************************************************************************)
(* Proofs about the rows of the simulator and of the tenants, for any      *)
(* number of chats, requests, batches, overlapping resets and row ids: the *)
(* types, that rows belong together in spite of ids that come again, and   *)
(* that a reset which no other overtook leaves what was said over WhatsApp *)
(* alone.                                                                  *)
(***************************************************************************)
EXTENDS Simulator, WellFoundedInduction, TLAPS

-----------------------------------------------------------------------------
(***************************************************************************)
(* Rows.  Without deletions one set of rows extends another: rows stay     *)
(* what they are, except that conversations may close.                     *)
(***************************************************************************)
WellFormed(d) ==
    /\ d \in Rows
    /\ \A j \in ConvIds(d) : d.conv[j].contact \in Ids
    /\ \A m \in MessageIds(d) : d.message[m].conv \in Ids /\ d.message[m].chat \in Chats

Closed(row) == [row EXCEPT !.open = FALSE]

Extends(d, e) ==
    /\ \A i \in ContactIds(d) : e.contact[i] = d.contact[i]
    /\ \A j \in ConvIds(d) : e.conv[j] \in {d.conv[j], Closed(d.conv[j])}
    /\ \A m \in MessageIds(d) : e.message[m] = d.message[m]

\* A chat id that is not shared has conversations of one side only.
Side(c, source) ==
    /\ c \in Fakes \ Tenants => source = "fake_chat"
    /\ c \in Tenants \ Fakes => source = "whatsapp"

\* Every row is under its parent, of its own chat and on its own side.
Belongs(d) ==
    /\ \A j \in ConvIds(d) : /\ d.conv[j].contact \in ContactIds(d)
                             /\ Side(d.contact[d.conv[j].contact], d.conv[j].source)
    /\ \A m \in MessageIds(d) :
           /\ d.message[m].conv \in ConvIds(d)
           /\ d.contact[d.conv[d.message[m].conv].contact] = d.message[m].chat

(***************************************************************************)
(* The inductive invariant.                                                *)
(***************************************************************************)

\* A writer that is a request adds rows; a reset takes away what it has read.
WorkInv ==
    /\ WellFormed(db) /\ WellFormed(work)
    /\ writer = NoOne => work = db
    /\ writer \in Requests => Extends(db, work)
    /\ \A r \in Resets : writer = r =>
           reset[r].pc \in {"deleted", "contacts"} /\ work = WithoutFakeRows(r, db)

\* Whose chat a request is for, and that what it holds are ids.
Fits(q) ==
    /\ q.pc \notin {"idle", "over"} =>
           q.chat \in (IF q.kind \in {"inbound", "run"} THEN Fakes ELSE Tenants)
    /\ q.pc \in {"contact", "closing", "conversation", "match"} => q.contact \in Ids
    /\ q.pc \in {"closing", "conversation", "match"} => q.conv \in Ids
    /\ q.pc = "closing" => q.kind \in {"batch", "quiet"}

RequestInv == \A s \in Requests : Fits(request[s])

\* What a reset has read are conversations of the simulator and their messages,
\* and stays so until another reset is committed.
Reads(d, q) ==
    q.pc \notin {"idle", "over"} /\ ~q.overtaken =>
        /\ \A j \in q.convs : j \in ConvIds(d) /\ d.conv[j].source = "fake_chat"
        /\ \A m \in q.messages : m \in MessageIds(d) /\ d.message[m].conv \in q.convs

\* A reset that has deleted conversations is the writer, and as the writer it
\* deletes no contact that has one left.
Keeps(r, q) ==
    /\ Reads(db, q)
    /\ q.pc \in {"idle", "conversations", "names"} \/ q.convs = {} => q.messages = {}
    /\ q.pc \in {"deleted", "contacts"} /\ q.convs # {} => writer = r
    /\ q.pc = "contacts" /\ writer = r => q.gone \cap Protected(work) = {}

ResetInv == \A r \in Resets : Keeps(r, reset[r])

\* The ids a request holds are those of rows of its chat.
LookedUp(d, q) ==
    /\ q.pc \in {"contact", "closing", "conversation", "match"} => d.contact[q.contact] = q.chat
    /\ q.pc \in {"closing", "conversation", "match"} =>
           q.conv \in ConvIds(d) /\ d.contact[d.conv[q.conv].contact] = q.chat

BelongInv ==
    ~crossed => /\ Belongs(db)
                /\ writer \in Requests => Belongs(work)
                /\ \A s \in Requests : LookedUp(View(s), request[s])

SimulatorInv == TypeOK /\ WorkInv /\ RequestInv /\ ResetInv /\ BelongInv

-----------------------------------------------------------------------------
(***************************************************************************)
(* Ids                                                                     *)
(***************************************************************************)

\* Of the ids in use one is the largest.
LEMMA LargestId ==
    ASSUME NEW S \in SUBSET Ids, S # {}
    PROVE  \E m \in S : \A y \in S : m >= y
<1> DEFINE R == {p \in Nat \X Nat : p[1] < p[2]}
           T == {MaxId - x : x \in S}
<1>1. \A x \in S : x \in Nat /\ x <= MaxId /\ MaxId - x \in Nat
  BY SimulatorAssumption DEF Ids
<1>2. T \subseteq Nat /\ T # {}
  BY <1>1
<1>3. IsWellFoundedOn(R, Nat)
  <2>1. R = OpToRel(<, Nat)
    BY DEF OpToRel
  <2> HIDE DEF R
  <2>2. QED
    BY <2>1, NatLessThanWellFounded
<1>4. PICK t \in T : \A u \in T : ~(<<u, t>> \in R)
  <2> HIDE DEF R, T
  <2>1. QED
    BY <1>2, <1>3, WFMin
<1>5. PICK m \in S : t = MaxId - m
  OBVIOUS
<1>6. ASSUME NEW y \in S PROVE m >= y
  <2>1. MaxId - y \in T /\ MaxId - y \in Nat /\ t \in Nat
    BY <1>1, <1>5
  <2>2. ~(MaxId - y < t)
    BY <1>4, <2>1
  <2>3. QED
    BY <1>1, <1>5, <2>2, SimulatorAssumption
<1>7. QED
  BY <1>6

\* The id of a new row is not in use.
LEMMA NextIdIsNew ==
    ASSUME NEW S \in SUBSET Ids
    PROVE  NextId(S) \notin S
<1>1. CASE S = {}
  BY <1>1
<1>2. CASE S # {}
  <2>1. Max(S) \in S /\ \A y \in S : Max(S) >= y
    BY <1>2, LargestId DEF Max
  <2>2. \A y \in S : y \in Nat
    BY DEF Ids
  <2>3. NextId(S) = Max(S) + 1
    BY <1>2 DEF NextId
  <2>4. QED
    BY <2>1, <2>2, <2>3
<1>3. QED
  BY <1>1, <1>2

-----------------------------------------------------------------------------
(***************************************************************************)
(* What one set of rows says of one that extends it.                       *)
(***************************************************************************)

\* Rows extend themselves.
LEMMA ExtendsItself == ASSUME NEW d PROVE Extends(d, d)
BY DEF Extends

\* The rows of an extension: none is gone, and conversations keep their contact
\* and their source.
LEMMA ExtendedRows ==
    ASSUME NEW d, NEW e, WellFormed(d), e \in Rows, Extends(d, e)
    PROVE  /\ ContactIds(d) \subseteq ContactIds(e)
           /\ MessageIds(d) \subseteq MessageIds(e)
           /\ \A j \in ConvIds(d) : /\ j \in ConvIds(e)
                                    /\ e.conv[j].contact = d.conv[j].contact
                                    /\ e.conv[j].source = d.conv[j].source
<1>1. \A j \in ConvIds(d) : j \in Ids /\ d.conv[j] \in ConversationRow /\ d.conv[j].contact \in Ids
  BY DEF WellFormed, ConvIds, Rows
<1>2. \A j \in ConvIds(d) : e.conv[j].contact = d.conv[j].contact
                            /\ e.conv[j].source = d.conv[j].source
  BY <1>1 DEF Extends, Closed, ConversationRow
<1>3. NoRow.contact = 0 /\ 0 \notin Ids
  BY SimulatorAssumption DEF NoRow, Ids
<1>4. \A j \in ConvIds(d) : j \in ConvIds(e)
  BY <1>1, <1>2, <1>3 DEF ConvIds
<1>5. QED
  BY <1>2, <1>4 DEF Extends, ContactIds, MessageIds

\* Extending twice is extending.
LEMMA ExtendsTwice ==
    ASSUME NEW d, NEW e, NEW f, WellFormed(d), WellFormed(e), Extends(d, e), Extends(e, f)
    PROVE  Extends(d, f)
<1>1. /\ ContactIds(d) \subseteq ContactIds(e) /\ MessageIds(d) \subseteq MessageIds(e)
      /\ \A j \in ConvIds(d) : j \in ConvIds(e)
  BY ExtendedRows DEF WellFormed
<1>2. \A j \in ConvIds(d) : d.conv[j] \in ConversationRow
  BY DEF WellFormed, ConvIds, Rows
<1>3. \A row \in ConversationRow : Closed(Closed(row)) = Closed(row)
  BY DEF Closed, ConversationRow
<1>4. ASSUME NEW j \in ConvIds(d) PROVE f.conv[j] \in {d.conv[j], Closed(d.conv[j])}
  <2>1. f.conv[j] \in {e.conv[j], Closed(e.conv[j])} /\ e.conv[j] \in {d.conv[j], Closed(d.conv[j])}
    BY <1>1 DEF Extends
  <2>2. QED
    BY <1>2, <1>3, <2>1
<1>5. QED
  BY <1>1, <1>4 DEF Extends

\* What a request holds stays true in an extension.
LEMMA LookedUpStays ==
    ASSUME NEW d, NEW e, WellFormed(d), e \in Rows, Extends(d, e), NEW q \in Request, Fits(q),
           LookedUp(d, q)
    PROVE  LookedUp(e, q)
<1>1. q.chat # NoChat
  BY SimulatorAssumption DEF Request
<1>2. q.pc \in {"contact", "closing", "conversation", "match"} => q.contact \in ContactIds(d)
  BY <1>1 DEF Fits, LookedUp, ContactIds
<1>3. q.pc \in {"closing", "conversation", "match"} => d.conv[q.conv].contact \in ContactIds(d)
  BY <1>1 DEF LookedUp, ContactIds, WellFormed
<1>4. QED
  BY <1>2, <1>3, ExtendedRows DEF LookedUp, Extends

\* What a reset has read stays true in an extension.
LEMMA ReadsStays ==
    ASSUME NEW d, NEW e, WellFormed(d), e \in Rows, Extends(d, e), NEW q, Reads(d, q)
    PROVE  Reads(e, q)
BY ExtendedRows DEF Reads, Extends

-----------------------------------------------------------------------------
(***************************************************************************)
(* The row operations extend the rows and keep them together.              *)
(***************************************************************************)

\* The contact that is found or made.
LEMMA WithContactRows ==
    ASSUME NEW d, WellFormed(d), NEW c \in Chats, WithContact(d, c).id \in Ids
    PROVE  /\ WellFormed(WithContact(d, c).rows)
           /\ Extends(d, WithContact(d, c).rows)
           /\ WithContact(d, c).rows.contact[WithContact(d, c).id] = c
           /\ Belongs(d) => Belongs(WithContact(d, c).rows)
<1> DEFINE e == WithContact(d, c).rows
           i == WithContact(d, c).id
<1>1. d \in Rows
  BY DEF WellFormed
<1>2. CASE ContactsOf(d, c) # {}
  <2>1. e = d /\ i \in ContactsOf(d, c)
    BY <1>2 DEF WithContact
  <2>2. d.contact[i] = c
    BY <2>1 DEF ContactsOf
  <2>3. QED
    BY <2>1, <2>2, ExtendsItself
<1>3. CASE ContactsOf(d, c) = {}
  <2>1. i = NextId(ContactIds(d)) /\ e = [d EXCEPT !.contact[i] = c]
    BY <1>3 DEF WithContact
  <2>2. i \in Ids /\ i \notin ContactIds(d)
    BY <2>1, NextIdIsNew DEF ContactIds
  <2> HIDE DEF e, i
  <2>3. /\ e \in Rows /\ e.contact = [d.contact EXCEPT ![i] = c]
        /\ e.conv = d.conv /\ e.message = d.message
    BY <1>1, <2>1, <2>2 DEF Rows
  <2>4. /\ e.contact[i] = c
        /\ \A x \in Ids : x # i => e.contact[x] = d.contact[x]
    BY <1>1, <2>2, <2>3 DEF Rows
  <2>5. ConvIds(e) = ConvIds(d) /\ MessageIds(e) = MessageIds(d)
    BY <2>3 DEF ConvIds, MessageIds
  <2>6. WellFormed(e)
    BY <2>3, <2>5 DEF WellFormed
  <2>7. \A x \in ContactIds(d) : x \in ContactIds(e) /\ e.contact[x] = d.contact[x]
    BY <2>2, <2>4 DEF ContactIds
  <2>8. Extends(d, e)
    BY <2>3, <2>7 DEF Extends
  <2>9. ASSUME Belongs(d) PROVE Belongs(e)
    BY <2>3, <2>5, <2>7, <2>9 DEF Belongs
  <2>10. QED
    BY <2>4, <2>6, <2>8, <2>9 DEF e, i
<1>4. QED
  BY <1>2, <1>3

\* The open conversation that is taken, or the one that is made.
LEMMA WithConversationRows ==
    ASSUME NEW d, WellFormed(d), NEW i \in Ids, NEW source \in Source,
           WithConversation(d, i, source).id \in Ids
    PROVE  /\ WellFormed(WithConversation(d, i, source).rows)
           /\ Extends(d, WithConversation(d, i, source).rows)
           /\ WithConversation(d, i, source).id \in ConvIds(WithConversation(d, i, source).rows)
           /\ WithConversation(d, i, source).rows.conv[WithConversation(d, i, source).id].contact = i
           /\ WithConversation(d, i, source).rows.contact = d.contact
           /\ Belongs(d) /\ i \in ContactIds(d) /\ Side(d.contact[i], source)
                 => Belongs(WithConversation(d, i, source).rows)
<1> DEFINE e == WithConversation(d, i, source).rows
           j == WithConversation(d, i, source).id
<1>1. d \in Rows /\ \A x \in ConvIds(d) : d.conv[x].contact \in Ids
  BY DEF WellFormed
<1>2. CASE OpenConvs(d, i) # {}
  <2>1. e = d /\ j \in OpenConvs(d, i)
    BY <1>2 DEF WithConversation
  <2>2. j \in ConvIds(d) /\ d.conv[j].contact = i
    BY <2>1 DEF OpenConvs, ConvsOf
  <2>3. QED
    BY <2>1, <2>2, ExtendsItself
<1>3. CASE OpenConvs(d, i) = {}
  <2> DEFINE made == [contact |-> i, source |-> source, open |-> TRUE]
  <2>1. j = NextId(ConvIds(d)) /\ e = [d EXCEPT !.conv[j] = made]
    BY <1>3 DEF WithConversation
  <2>2. j \in Ids /\ j \notin ConvIds(d)
    BY <2>1, NextIdIsNew DEF ConvIds
  <2>3. made \in ConversationRow /\ made.contact = i /\ made.source = source /\ made # NoRow
    BY SimulatorAssumption DEF ConversationRow, Ids, NoRow
  <2> HIDE DEF e, j, made
  <2>4. /\ e \in Rows /\ e.conv = [d.conv EXCEPT ![j] = made]
        /\ e.contact = d.contact /\ e.message = d.message
    BY <1>1, <2>1, <2>2, <2>3 DEF Rows
  <2>5. /\ e.conv[j] = made
        /\ \A x \in Ids : x # j => e.conv[x] = d.conv[x]
    BY <1>1, <2>2, <2>4 DEF Rows
  <2>6. /\ ConvIds(e) = ConvIds(d) \cup {j} /\ ContactIds(e) = ContactIds(d)
        /\ MessageIds(e) = MessageIds(d)
    BY <2>2, <2>3, <2>4, <2>5 DEF ConvIds, ContactIds, MessageIds
  <2>7. \A x \in ConvIds(d) : x \in Ids /\ x # j
    BY <2>2 DEF ConvIds
  <2>8. WellFormed(e)
    BY <1>1, <2>3, <2>4, <2>5, <2>6, <2>7 DEF WellFormed
  <2>9. Extends(d, e)
    BY <2>4, <2>5, <2>6, <2>7 DEF Extends
  <2>10. ASSUME Belongs(d), i \in ContactIds(d), Side(d.contact[i], source) PROVE Belongs(e)
    BY <2>3, <2>4, <2>5, <2>6, <2>7, <2>10 DEF Belongs
  <2>11. QED
    BY <2>3, <2>4, <2>5, <2>6, <2>8, <2>9, <2>10 DEF e, j
<1>4. QED
  BY <1>2, <1>3

\* A message is stored.
LEMMA WithMessageRows ==
    ASSUME NEW d, WellFormed(d), NEW c \in Chats, NEW j \in Ids, WithMessage(d, c, j).id \in Ids
    PROVE  /\ WellFormed(WithMessage(d, c, j).rows)
           /\ Extends(d, WithMessage(d, c, j).rows)
           /\ Belongs(d) /\ j \in ConvIds(d) /\ d.contact[d.conv[j].contact] = c
                 => Belongs(WithMessage(d, c, j).rows)
<1> DEFINE e   == WithMessage(d, c, j).rows
           m   == WithMessage(d, c, j).id
           new == [chat |-> c, conv |-> j]
<1>1. d \in Rows
  BY DEF WellFormed
<1>2. m = NextId(MessageIds(d)) /\ e = [d EXCEPT !.message[m] = new]
  BY DEF WithMessage
<1>3. m \in Ids /\ m \notin MessageIds(d)
  BY <1>2, NextIdIsNew DEF MessageIds
<1>4. new \in MessageRow /\ new.conv = j /\ new.chat = c /\ new # NoMessage
  BY SimulatorAssumption DEF MessageRow, NoMessage, Ids
<1> HIDE DEF e, m, new
<1>5. /\ e \in Rows /\ e.contact = d.contact /\ e.conv = d.conv
      /\ e.message = [d.message EXCEPT ![m] = new]
  BY <1>1, <1>2, <1>3, <1>4 DEF Rows
<1>6. e.message[m] = new /\ \A x \in Ids : x # m => e.message[x] = d.message[x]
  BY <1>1, <1>3, <1>5 DEF Rows
<1>7. /\ ConvIds(e) = ConvIds(d) /\ ContactIds(e) = ContactIds(d)
      /\ MessageIds(e) = MessageIds(d) \cup {m}
  BY <1>3, <1>4, <1>5, <1>6 DEF ConvIds, ContactIds, MessageIds
<1>8. \A x \in MessageIds(d) : x \in Ids /\ x # m
  BY <1>3 DEF MessageIds
<1>9. WellFormed(e) /\ Extends(d, e)
  BY <1>4, <1>5, <1>6, <1>7, <1>8 DEF WellFormed, Extends
<1>10. Belongs(d) /\ j \in ConvIds(d) /\ d.contact[d.conv[j].contact] = c => Belongs(e)
  BY <1>4, <1>5, <1>6, <1>7, <1>8 DEF Belongs
<1>11. QED
  BY <1>9, <1>10 DEF e, m, new

\* A conversation is closed.
LEMMA ClosedRows ==
    ASSUME NEW d, WellFormed(d), NEW j \in ConvIds(d)
    PROVE  /\ WellFormed([d EXCEPT !.conv[j].open = FALSE])
           /\ Extends(d, [d EXCEPT !.conv[j].open = FALSE])
           /\ [d EXCEPT !.conv[j].open = FALSE].contact = d.contact
           /\ Belongs(d) => Belongs([d EXCEPT !.conv[j].open = FALSE])
<1> DEFINE e == [d EXCEPT !.conv[j].open = FALSE]
<1>1. d \in Rows /\ j \in Ids /\ d.conv[j] \in ConversationRow /\ d.conv[j].contact \in Ids
  BY DEF WellFormed, ConvIds, Rows
<1>2. /\ Closed(d.conv[j]) \in ConversationRow
      /\ Closed(d.conv[j]).contact = d.conv[j].contact
      /\ Closed(d.conv[j]).source = d.conv[j].source
  BY <1>1 DEF Closed, ConversationRow
<1>3. Closed(d.conv[j]) # NoRow
  BY <1>1, <1>2, SimulatorAssumption DEF NoRow, Ids
<1>4. e = [d EXCEPT !.conv[j] = Closed(d.conv[j])]
  BY <1>1 DEF Closed, Rows
<1> HIDE DEF e
<1>5. /\ e \in Rows /\ e.contact = d.contact /\ e.message = d.message
      /\ e.conv = [d.conv EXCEPT ![j] = Closed(d.conv[j])]
  BY <1>1, <1>2, <1>4 DEF Rows
<1>6. e.conv[j] = Closed(d.conv[j]) /\ \A x \in Ids : x # j => e.conv[x] = d.conv[x]
  BY <1>1, <1>5 DEF Rows
<1>7. /\ ContactIds(e) = ContactIds(d) /\ MessageIds(e) = MessageIds(d)
      /\ ConvIds(e) = ConvIds(d)
  BY <1>1, <1>3, <1>5, <1>6 DEF ContactIds, MessageIds, ConvIds
<1>8. \A x \in ConvIds(d) : x \in Ids /\ e.conv[x].contact = d.conv[x].contact
                            /\ e.conv[x].source = d.conv[x].source
                            /\ e.conv[x] \in {d.conv[x], Closed(d.conv[x])}
  BY <1>2, <1>6 DEF ConvIds
<1>9. WellFormed(e) /\ Extends(d, e)
  BY <1>5, <1>7, <1>8 DEF WellFormed, Extends
<1>10. ASSUME Belongs(d) PROVE Belongs(e)
  BY <1>5, <1>7, <1>8, <1>10 DEF Belongs
<1>11. QED
  BY <1>5, <1>9, <1>10 DEF e

-----------------------------------------------------------------------------
(***************************************************************************)
(* Sessions                                                                *)
(***************************************************************************)

\* What a request sees extends what is committed, and belongs together.
LEMMA ViewRows ==
    ASSUME SimulatorInv, NEW s \in Requests
    PROVE  /\ WellFormed(View(s)) /\ WellFormed(db) /\ Extends(db, View(s))
           /\ ~crossed => Belongs(View(s)) /\ LookedUp(View(s), request[s])
BY ExtendsItself DEF SimulatorInv, WorkInv, BelongInv, View

\* A request goes on, or is committed, with more rows: its first change makes
\* it the writer, and what others hold and have read stays true.
LEMMA GoesOn ==
    ASSUME SimulatorInv, NEW s \in Requests, NEW d, NEW h \in Request, Fits(h),
           WellFormed(d), Extends(View(s), d),
           ~crossed => Belongs(d) /\ LookedUp(d, h),
           Continue(s, d) \/ Commit(s, d), Step(s, h)
    PROVE  SimulatorInv' /\ Extends(db, db')
<1>1. /\ WellFormed(db) /\ WellFormed(View(s)) /\ WellFormed(work) /\ Extends(db, View(s))
      /\ d \in Rows /\ db \in Rows /\ work \in Rows
  BY ViewRows DEF SimulatorInv, WorkInv, WellFormed
<1>2. Extends(db, d)
  BY <1>1, ExtendsTwice
<1>3. s \notin Resets /\ s # NoOne /\ NoOne \notin Resets /\ \A r \in Resets : r \notin Requests
  BY SimulatorAssumption
<1>4. /\ \A r \in Resets : reset'[r] = reset[r]
      /\ UNCHANGED <<reset, crossed>>
      /\ request' \in [Requests -> Request]
      /\ request'[s] = h /\ \A t \in Requests \ {s} : request'[t] = request[t]
  BY DEF Step, SimulatorInv, TypeOK
<1>5. \/ UNCHANGED <<db, work, writer>> /\ d = View(s)
      \/ writer \in {NoOne, s} /\ writer' = s /\ work' = d /\ db' = db
      \/ writer \in {NoOne, s} /\ writer' = NoOne /\ work' = d /\ db' = d
  BY DEF Continue, Commit
<1>6. WellFormed(db') /\ WellFormed(work') /\ Extends(db, db') /\ View(s)' = d
      /\ db' \in Rows /\ work' \in Rows
  BY <1>1, <1>2, <1>3, <1>5, ExtendsItself DEF View
<1>7. TypeOK'
  BY <1>4, <1>5, <1>6 DEF SimulatorInv, TypeOK
<1>8. \A r \in Resets : writer' = r <=> writer = r
  BY <1>3, <1>5
<1>9. \A r \in Resets : writer = r => UNCHANGED <<db, work>>
  BY <1>3, <1>5
<1>10. WorkInv'
  <2>1. writer' = NoOne => work' = db'
    BY <1>3, <1>5 DEF SimulatorInv, WorkInv
  <2>2. writer' \in Requests => Extends(db', work')
    <3>1. CASE UNCHANGED <<db, work, writer>>
      BY <3>1 DEF SimulatorInv, WorkInv
    <3>2. CASE work' = d /\ db' = db
      BY <1>2, <3>2
    <3>3. CASE writer' = NoOne
      BY <3>3, SimulatorAssumption
    <3>4. QED
      BY <1>5, <3>1, <3>2, <3>3
  <2>3. \A r \in Resets : writer' = r =>
            reset'[r].pc \in {"deleted", "contacts"} /\ work' = WithoutFakeRows(r, db)'
    BY <1>4, <1>8, <1>9 DEF SimulatorInv, WorkInv, WithoutFakeRows
  <2>4. QED
    BY <1>6, <2>1, <2>2, <2>3 DEF WorkInv, WellFormed
<1>11. RequestInv'
  BY <1>4 DEF RequestInv, SimulatorInv
<1>12. ResetInv'
  <2> SUFFICES ASSUME NEW r \in Resets PROVE Keeps(r, reset[r])'
    BY DEF ResetInv
  <2>1. Keeps(r, reset[r])
    BY DEF SimulatorInv, ResetInv
  <2>2. Reads(db', reset[r])
    BY <1>1, <1>6, <2>1, ReadsStays DEF Keeps
  <2>3. reset'[r] = reset[r] /\ (writer' = r <=> writer = r) /\ (writer = r => work' = work)
    BY <1>4, <1>8, <1>9
  <2>4. Reads(db', reset'[r])
    BY <2>2, <2>3
  <2>5. QED
    BY <2>1, <2>3, <2>4 DEF Keeps, Reads
<1>13. BelongInv'
  <2> SUFFICES ASSUME ~crossed
               PROVE  /\ Belongs(db') /\ (writer' \in Requests => Belongs(work'))
                      /\ \A t \in Requests : LookedUp(View(t)', request'[t])
    BY <1>4 DEF BelongInv, View, LookedUp, Belongs
  <2>1. Belongs(d) /\ LookedUp(d, h)
    OBVIOUS
  <2>2. Belongs(db') /\ (writer' \in Requests => Belongs(work'))
    BY <1>5, <2>1 DEF SimulatorInv, BelongInv
  <2>3. ASSUME NEW t \in Requests \ {s} PROVE LookedUp(View(t)', request'[t])
    <3>1. LookedUp(View(t), request[t]) /\ Fits(request[t]) /\ request[t] \in Request
      BY DEF SimulatorInv, BelongInv, RequestInv, TypeOK
    <3>2. CASE View(t)' = View(t)
      BY <1>4, <3>1, <3>2
    <3>3. CASE View(t) = db /\ View(t)' = db'
      BY <1>1, <1>4, <1>6, <3>1, <3>3, LookedUpStays
    <3>4. QED
      BY <1>5, <3>2, <3>3, SimulatorAssumption DEF View
  <2>4. QED
    BY <1>4, <1>6, <2>1, <2>2, <2>3
<1>14. QED
  BY <1>6, <1>7, <1>10, <1>11, <1>12, <1>13 DEF SimulatorInv

\* A request that is over holds nothing.
LEMMA OverHoldsNothing ==
    /\ NoRequest \in Request /\ NoRequest.pc = "idle"
    /\ Over \in Request /\ Over.pc = "over" /\ Fits(Over)
    /\ \A d : LookedUp(d, Over)
<1>1. 0 \in 0..MaxId
  BY SimulatorAssumption
<1>2. (CHOOSE c \in Chats : TRUE) \in Chats
  BY SimulatorAssumption
<1>3. NoRequest \in Request /\ NoRequest.pc = "idle"
  BY <1>1, <1>2 DEF NoRequest, Request, Kind
<1>4. Over \in Request /\ Over.pc = "over"
  BY <1>3 DEF Over, Request
<1>5. QED
  BY <1>3, <1>4 DEF Fits, LookedUp

\* A request that fails takes back what it wrote.
LEMMA RolledBack ==
    ASSUME SimulatorInv, NEW s \in Requests, FailRequest(s)
    PROVE  SimulatorInv' /\ Extends(db, db')
<1>1. /\ WellFormed(db) /\ db \in Rows /\ s \notin Resets /\ s # NoOne /\ NoOne \notin Resets
      /\ NoOne \notin Requests
  BY ViewRows, SimulatorAssumption DEF WellFormed
<1>2. /\ UNCHANGED <<db, reset, crossed>>
      /\ request' \in [Requests -> Request] /\ request'[s] = Over
      /\ \A t \in Requests \ {s} : request'[t] = request[t]
  BY OverHoldsNothing DEF FailRequest, Rollback, Step, SimulatorInv, TypeOK
<1>3. Over.pc = "over"
  BY OverHoldsNothing
<1>4. \/ UNCHANGED <<work, writer>> /\ writer # s
      \/ writer = s /\ writer' = NoOne /\ work' = db
  BY DEF FailRequest, Rollback
<1>5. TypeOK'
  BY <1>1, <1>2, <1>4 DEF SimulatorInv, TypeOK
<1>6. WorkInv'
  BY <1>1, <1>2, <1>4 DEF SimulatorInv, WorkInv, WithoutFakeRows, WellFormed
<1>7. RequestInv'
  BY <1>2, <1>3 DEF SimulatorInv, RequestInv, Fits
<1>8. ResetInv'
  BY <1>1, <1>2, <1>4 DEF SimulatorInv, ResetInv, Keeps, Reads
<1>9. \A t \in Requests \ {s} : View(t)' = View(t)
  BY <1>1, <1>2, <1>4 DEF View
<1>10. ASSUME ~crossed
       PROVE  /\ Belongs(db') /\ (writer' \in Requests => Belongs(work'))
              /\ \A t \in Requests : LookedUp(View(t)', request'[t])
  <2>1. \A t \in Requests \ {s} : LookedUp(View(t)', request'[t])
    BY <1>2, <1>9, <1>10 DEF SimulatorInv, BelongInv
  <2>2. LookedUp(View(s)', request'[s])
    BY <1>2, <1>3 DEF LookedUp
  <2>3. QED
    BY <1>1, <1>2, <1>4, <1>10, <2>1, <2>2 DEF SimulatorInv, BelongInv
<1>11. BelongInv'
  BY <1>2, <1>10 DEF BelongInv, View, LookedUp, Belongs
<1>12. QED
  BY <1>2, <1>5, <1>6, <1>7, <1>8, <1>11, ExtendsItself DEF SimulatorInv

\* After a message: committed, waiting for the model, or at the next message.
LEMMA MessageDone ==
    ASSUME SimulatorInv, NEW s \in Requests, NEW d, NEW h \in Request, Fits(h),
           h.pc \in {"contact", "closing", "match"},
           WellFormed(d), Extends(View(s), d), ~crossed => Belongs(d),
           ~crossed /\ h.pc = "match" => LookedUp(d, h),
           AfterMessage(s, h, d)
    PROVE  SimulatorInv' /\ Extends(db, db')
<1>1. Over \in Request /\ Fits(Over) /\ LookedUp(d, Over)
  BY OverHoldsNothing
<1>2. CASE Commit(s, d) /\ Step(s, Over)
  BY <1>1, <1>2, GoesOn
<1>3. CASE h.pc = "match" /\ Continue(s, d) /\ Step(s, h)
  BY <1>3, GoesOn
<1>4. CASE /\ h.kind \in {"batch", "quiet"} /\ Continue(s, d)
           /\ Step(s, [h EXCEPT !.pc = "start", !.contact = 0, !.conv = 0])
  <2> DEFINE g == [h EXCEPT !.pc = "start", !.contact = 0, !.conv = 0]
  <2>1. 0 \in 0..MaxId
    BY SimulatorAssumption
  <2>2. g \in Request /\ g.pc = "start" /\ g.kind = h.kind /\ g.chat = h.chat
    BY <2>1 DEF Request
  <2> HIDE DEF g
  <2>3. Fits(g) /\ LookedUp(d, g)
    BY <1>4, <2>2 DEF Fits, LookedUp
  <2>4. Step(s, g)
    BY <1>4 DEF g
  <2>5. QED
    BY <1>4, <2>2, <2>3, <2>4, GoesOn
<1>5. QED
  BY <1>2, <1>3, <1>4 DEF AfterMessage

-----------------------------------------------------------------------------
(***************************************************************************)
(* The steps of a request.                                                 *)
(***************************************************************************)

\* A step that changes no rows.
LEMMA OnlyLooks ==
    ASSUME SimulatorInv, NEW s \in Requests, NEW h \in Request, Fits(h),
           ~crossed => LookedUp(View(s), h), UNCHANGED <<db, work, writer>>, Step(s, h)
    PROVE  SimulatorInv' /\ Extends(db, db')
<1>1. Continue(s, View(s))
  BY DEF Continue
<1>2. WellFormed(View(s)) /\ (~crossed => Belongs(View(s)))
  BY ViewRows
<1>3. QED
  BY <1>1, <1>2, ExtendsItself, GoesOn

\* Begin keeps the invariant.
LEMMA BeginInv ==
    ASSUME SimulatorInv, NEW s \in Requests, Begin(s)
    PROVE  SimulatorInv' /\ Extends(db, db')
<1>1. PICK kind \in Kind, c \in Chats, pc \in {"start", "triage"} :
          /\ c \in (IF kind \in {"inbound", "run"} THEN Fakes ELSE Tenants)
          /\ Step(s, [request[s] EXCEPT !.pc = pc, !.kind = kind, !.chat = c])
  BY DEF Begin
<1> DEFINE h == [request[s] EXCEPT !.pc = pc, !.kind = kind, !.chat = c]
<1>2. request[s] \in Request
  BY DEF SimulatorInv, TypeOK
<1>3. h \in Request /\ h.pc = pc /\ h.kind = kind /\ h.chat = c
  BY <1>2 DEF Request
<1> HIDE DEF h
<1>4. Fits(h) /\ LookedUp(View(s), h)
  BY <1>1, <1>3 DEF Fits, LookedUp
<1>5. Step(s, h) /\ UNCHANGED <<db, work, writer>>
  BY <1>1 DEF Begin, h
<1>6. QED
  BY <1>3, <1>4, <1>5, OnlyLooks

\* TriageRejects keeps the invariant.
LEMMA TriageRejectsInv ==
    ASSUME SimulatorInv, NEW s \in Requests, TriageRejects(s)
    PROVE  SimulatorInv' /\ Extends(db, db')
<1> DEFINE found == WithContact(View(s), request[s].chat)
<1>1. found.id \in Ids /\ Commit(s, found.rows) /\ Step(s, Over)
  BY DEF TriageRejects
<1>2. request[s].chat \in Chats
  BY DEF SimulatorInv, TypeOK, Request
<1>3. /\ WellFormed(found.rows) /\ Extends(View(s), found.rows)
      /\ ~crossed => Belongs(found.rows)
  BY <1>1, <1>2, ViewRows, WithContactRows
<1> HIDE DEF found
<1>4. QED
  BY <1>1, <1>3, OverHoldsNothing, GoesOn

\* TriageReturns keeps the invariant.
LEMMA TriageReturnsInv ==
    ASSUME SimulatorInv, NEW s \in Requests, TriageReturns(s)
    PROVE  SimulatorInv' /\ Extends(db, db')
<1> DEFINE h == [request[s] EXCEPT !.pc = "start"]
<1>1. request[s] \in Request /\ Fits(request[s])
  BY DEF SimulatorInv, TypeOK, RequestInv
<1>2. h \in Request /\ h.pc = "start" /\ h.kind = request[s].kind /\ h.chat = request[s].chat
  BY <1>1 DEF Request
<1>3. Step(s, h) /\ UNCHANGED <<db, work, writer>> /\ request[s].pc = "triage"
  BY DEF TriageReturns
<1> HIDE DEF h
<1>4. Fits(h) /\ LookedUp(View(s), h)
  BY <1>1, <1>2, <1>3 DEF Fits, LookedUp
<1>5. QED
  BY <1>2, <1>3, <1>4, OnlyLooks

\* FindContact keeps the invariant.
LEMMA FindContactInv ==
    ASSUME SimulatorInv, NEW s \in Requests, FindContact(s)
    PROVE  SimulatorInv' /\ Extends(db, db')
<1> DEFINE found == WithContact(View(s), request[s].chat)
           h == [request[s] EXCEPT !.pc = "contact", !.contact = found.id]
<1>1. found.id \in Ids /\ Continue(s, found.rows) /\ Step(s, h) /\ request[s].pc = "start"
  BY DEF FindContact
<1>2. request[s] \in Request /\ request[s].chat \in Chats /\ Fits(request[s])
  BY DEF SimulatorInv, TypeOK, Request, RequestInv
<1>3. /\ WellFormed(found.rows) /\ Extends(View(s), found.rows)
      /\ ~crossed => Belongs(found.rows)
      /\ found.rows.contact[found.id] = request[s].chat
  BY <1>1, <1>2, ViewRows, WithContactRows
<1> HIDE DEF found
<1>4. found.id \in 0..MaxId
  BY <1>1, SimulatorAssumption DEF Ids
<1>5. /\ h \in Request /\ h.pc = "contact" /\ h.kind = request[s].kind
      /\ h.chat = request[s].chat /\ h.contact = found.id
  BY <1>2, <1>4 DEF Request
<1> HIDE DEF h
<1>6. Fits(h) /\ LookedUp(found.rows, h)
  BY <1>1, <1>2, <1>3, <1>5 DEF Fits, LookedUp
<1>7. QED
  BY <1>1, <1>3, <1>5, <1>6, GoesOn

\* A request is on the side of its chat.
LEMMA OwnSide ==
    ASSUME NEW s \in Requests, Fits(request[s]), request[s].pc \notin {"idle", "over"}
    PROVE  Side(request[s].chat, SourceOf(s)) /\ SourceOf(s) \in Source
BY DEF Fits, Side, SourceOf, Source

\* FindConversation keeps the invariant.
LEMMA FindConversationInv ==
    ASSUME SimulatorInv, NEW s \in Requests, FindConversation(s)
    PROVE  SimulatorInv' /\ Extends(db, db')
<1> DEFINE i == request[s].contact
           found == WithConversation(View(s), i, SourceOf(s))
           h == [request[s] EXCEPT !.pc = "conversation", !.conv = found.id]
<1>1. found.id \in Ids /\ Continue(s, found.rows) /\ Step(s, h) /\ request[s].pc = "contact"
  BY DEF FindConversation
<1>2. /\ request[s] \in Request /\ request[s].chat \in Chats /\ Fits(request[s]) /\ i \in Ids
      /\ request[s].chat # NoChat
  BY <1>1, SimulatorAssumption DEF SimulatorInv, TypeOK, Request, RequestInv, Fits
<1>3. Side(request[s].chat, SourceOf(s)) /\ SourceOf(s) \in Source
  BY <1>1, <1>2, OwnSide
<1>4. WellFormed(View(s)) /\ (~crossed => Belongs(View(s)) /\ LookedUp(View(s), request[s]))
  BY ViewRows
<1>5. ~crossed => i \in ContactIds(View(s)) /\ View(s).contact[i] = request[s].chat
  BY <1>1, <1>2, <1>4 DEF LookedUp, ContactIds
<1>6. /\ WellFormed(found.rows) /\ Extends(View(s), found.rows)
      /\ found.id \in ConvIds(found.rows) /\ found.rows.conv[found.id].contact = i
      /\ found.rows.contact = View(s).contact
      /\ ~crossed => Belongs(found.rows)
  BY <1>1, <1>2, <1>3, <1>4, <1>5, WithConversationRows
<1> HIDE DEF found
<1>7. found.id \in 0..MaxId
  BY <1>1, SimulatorAssumption DEF Ids
<1>8. /\ h \in Request /\ h.pc = "conversation" /\ h.kind = request[s].kind
      /\ h.chat = request[s].chat /\ h.contact = i /\ h.conv = found.id
  BY <1>2, <1>7 DEF Request
<1> HIDE DEF h, i
<1>9. Fits(h) /\ (~crossed => LookedUp(found.rows, h))
  BY <1>1, <1>2, <1>5, <1>6, <1>8 DEF Fits, LookedUp
<1>10. QED
  BY <1>1, <1>6, <1>8, <1>9, GoesOn

\* FindQuietly and FindToClose keep the invariant: a conversation of the contact
\* is taken.
LEMMA TakeConversationInv ==
    ASSUME SimulatorInv, NEW s \in Requests, FindQuietly(s) \/ FindToClose(s)
    PROVE  SimulatorInv' /\ Extends(db, db')
<1> DEFINE i == request[s].contact
           h(pc, j) == [request[s] EXCEPT !.pc = pc, !.conv = j, !.kind = "quiet"]
<1>1. /\ request[s].pc = "contact" /\ request[s].kind \in {"batch", "quiet"}
      /\ UNCHANGED <<db, work, writer>>
  BY DEF FindQuietly, FindToClose
<1>2. PICK j \in ConvsOf(View(s), i), pc \in {"conversation", "closing"} : Step(s, h(pc, j))
  <2>1. CASE FindQuietly(s)
    BY <2>1 DEF FindQuietly
  <2>2. CASE FindToClose(s)
    BY <2>2 DEF FindToClose, OpenConvs
  <2>3. QED
    BY <2>1, <2>2
<1>3. j \in ConvIds(View(s)) /\ View(s).conv[j].contact = i /\ j \in Ids /\ j \in 0..MaxId
  BY <1>2, SimulatorAssumption DEF ConvsOf, ConvIds, Ids
<1>4. request[s] \in Request /\ Fits(request[s])
  BY DEF SimulatorInv, TypeOK, RequestInv
<1> DEFINE g == h(pc, j)
<1>5. /\ g \in Request /\ g.pc = pc /\ g.kind = "quiet" /\ g.chat = request[s].chat
      /\ g.contact = i /\ g.conv = j
  BY <1>3, <1>4 DEF Request, Kind
<1>6. Step(s, g)
  BY <1>2
<1> HIDE DEF g, h
<1>7. ~crossed => LookedUp(View(s), request[s])
  BY ViewRows
<1>8. Fits(g) /\ (~crossed => LookedUp(View(s), g))
  BY <1>1, <1>3, <1>4, <1>5, <1>7 DEF Fits, LookedUp
<1>9. QED
  BY <1>1, <1>5, <1>6, <1>8, OnlyLooks

\* FindNothing keeps the invariant.
LEMMA FindNothingInv ==
    ASSUME SimulatorInv, NEW s \in Requests, FindNothing(s)
    PROVE  SimulatorInv' /\ Extends(db, db')
<1> DEFINE h == [request[s] EXCEPT !.kind = "quiet"]
<1>1. /\ request[s].pc = "contact" /\ request[s].kind \in {"batch", "quiet"}
      /\ AfterMessage(s, h, View(s))
  BY DEF FindNothing
<1>2. request[s] \in Request /\ Fits(request[s])
  BY DEF SimulatorInv, TypeOK, RequestInv
<1>3. /\ h \in Request /\ h.pc = "contact" /\ h.kind = "quiet" /\ h.chat = request[s].chat
      /\ h.contact = request[s].contact
  BY <1>1, <1>2 DEF Request, Kind
<1> HIDE DEF h
<1>4. Fits(h)
  BY <1>1, <1>2, <1>3 DEF Fits
<1>5. WellFormed(View(s)) /\ (~crossed => Belongs(View(s)))
  BY ViewRows
<1>6. QED
  BY <1>1, <1>3, <1>4, <1>5, ExtendsItself, MessageDone

\* CloseAndReopen keeps the invariant.
LEMMA CloseAndReopenInv ==
    ASSUME SimulatorInv, NEW s \in Requests, CloseAndReopen(s)
    PROVE  SimulatorInv' /\ Extends(db, db')
<1> DEFINE d == View(s)
           i == request[s].contact
           rest  == IF request[s].pc = "contact" THEN d
                    ELSE [d EXCEPT !.conv[request[s].conv].open = FALSE]
           other == WithConversation(rest, i, "whatsapp")
           h == [request[s] EXCEPT !.kind = "quiet"]
<1>1. /\ \/ request[s].pc = "closing" /\ request[s].conv \in ConvIds(d)
         \/ request[s].pc = "contact" /\ request[s].kind \in {"batch", "quiet"}
      /\ other.id \in Ids /\ AfterMessage(s, h, other.rows)
  BY DEF CloseAndReopen
<1>2. /\ request[s] \in Request /\ request[s].chat # NoChat /\ Fits(request[s]) /\ i \in Ids
      /\ request[s].kind \in {"batch", "quiet"} /\ request[s].chat \in Tenants
  BY <1>1, SimulatorAssumption DEF SimulatorInv, TypeOK, Request, RequestInv, Fits
<1>3. /\ h \in Request /\ h.pc = request[s].pc /\ h.kind = "quiet" /\ h.chat = request[s].chat
      /\ h.contact = i /\ h.conv = request[s].conv
  BY <1>2 DEF Request, Kind
<1>4. Fits(h)
  <2> HIDE DEF h
  <2>1. QED
    BY <1>1, <1>2, <1>3 DEF Fits
<1>5. WellFormed(d) /\ (~crossed => Belongs(d) /\ LookedUp(d, request[s]))
  BY ViewRows
<1>6. /\ WellFormed(rest) /\ Extends(d, rest) /\ rest.contact = d.contact
      /\ Belongs(d) => Belongs(rest)
  BY <1>1, <1>5, ClosedRows, ExtendsItself
<1>7. ~crossed => i \in ContactIds(rest) /\ rest.contact[i] = request[s].chat
  <2> HIDE DEF rest
  <2>1. QED
    BY <1>1, <1>2, <1>5, <1>6 DEF LookedUp, ContactIds
<1>8. "whatsapp" \in Source /\ Side(request[s].chat, "whatsapp")
  BY <1>2 DEF Source, Side
<1> HIDE DEF rest, d, h
<1>9. /\ WellFormed(other.rows) /\ Extends(rest, other.rows)
      /\ ~crossed => Belongs(other.rows)
  BY <1>1, <1>2, <1>5, <1>6, <1>7, <1>8, WithConversationRows
<1> HIDE DEF other
<1>10. Extends(d, other.rows)
  BY <1>5, <1>6, <1>9, ExtendsTwice
<1>11. Extends(View(s), other.rows)
  BY <1>10 DEF d
<1>12. h.pc \in {"contact", "closing"}
  BY <1>1, <1>3
<1>13. QED
  BY <1>1, <1>3, <1>4, <1>9, <1>11, <1>12, MessageDone

\* StoreMessage keeps the invariant.
LEMMA StoreMessageInv ==
    ASSUME SimulatorInv, NEW s \in Requests, StoreMessage(s)
    PROVE  SimulatorInv' /\ Extends(db, db')
<1> DEFINE d == View(s)
           h == [request[s] EXCEPT !.pc = "match"]
           stored == WithMessage(d, request[s].chat, request[s].conv)
<1>1. /\ request[s].pc = "conversation"
      /\ \/ stored.id \in Ids /\ AfterMessage(s, h, stored.rows)
         \/ \E m \in MessageIds(d) :
                /\ d.message[m].chat = request[s].chat
                /\ \/ AfterMessage(s, h, d)
                   \/ AfterMessage(s, [h EXCEPT !.conv = d.message[m].conv], d)
  BY DEF StoreMessage
<1>2. /\ request[s] \in Request /\ request[s].chat \in Chats /\ Fits(request[s])
      /\ request[s].contact \in Ids /\ request[s].conv \in Ids
  BY <1>1 DEF SimulatorInv, TypeOK, Request, RequestInv, Fits
<1>3. WellFormed(d) /\ (~crossed => Belongs(d) /\ LookedUp(d, request[s]))
  BY ViewRows
<1>4. /\ h \in Request /\ h.pc = "match" /\ h.kind = request[s].kind /\ h.chat = request[s].chat
      /\ h.contact = request[s].contact /\ h.conv = request[s].conv
  BY <1>2 DEF Request
<1>5. \A j \in Ids : LET g == [h EXCEPT !.conv = j]
                     IN  /\ g \in Request /\ g.pc = "match" /\ g.kind = h.kind
                         /\ g.chat = h.chat /\ g.contact = h.contact /\ g.conv = j
  <2>1. \A j \in Ids : j \in 0..MaxId
    BY SimulatorAssumption DEF Ids
  <2> HIDE DEF h
  <2>2. QED
    BY <1>4, <2>1 DEF Request
<1>6. Fits(h) /\ (~crossed => LookedUp(d, h))
  <2> HIDE DEF h, d
  <2>1. QED
    BY <1>1, <1>2, <1>3, <1>4 DEF Fits, LookedUp
<1> HIDE DEF h
<1>7. CASE stored.id \in Ids /\ AfterMessage(s, h, stored.rows)
  <2>1. ~crossed => /\ request[s].conv \in ConvIds(d)
                    /\ d.contact[d.conv[request[s].conv].contact] = request[s].chat
    BY <1>1, <1>3 DEF LookedUp
  <2> HIDE DEF d
  <2>2. /\ WellFormed(stored.rows) /\ Extends(d, stored.rows)
        /\ ~crossed => Belongs(stored.rows)
    BY <1>2, <1>3, <1>7, <2>1, WithMessageRows
  <2> HIDE DEF stored
  <2>3. ~crossed => LookedUp(stored.rows, h)
    BY <1>3, <1>4, <1>6, <2>2, LookedUpStays DEF WellFormed
  <2>4. Extends(View(s), stored.rows)
    BY <2>2 DEF d
  <2>5. QED
    BY <1>4, <1>6, <1>7, <2>2, <2>3, <2>4, MessageDone
<1>8. CASE AfterMessage(s, h, d)
  BY <1>3, <1>4, <1>6, <1>8, ExtendsItself, MessageDone
<1>9. ASSUME NEW m \in MessageIds(d), d.message[m].chat = request[s].chat,
             AfterMessage(s, [h EXCEPT !.conv = d.message[m].conv], d)
      PROVE  SimulatorInv' /\ Extends(db, db')
  <2> DEFINE j == d.message[m].conv
             g == [h EXCEPT !.conv = j]
  <2>1. j \in Ids
    BY <1>3 DEF WellFormed
  <2>2. /\ g \in Request /\ g.pc = "match" /\ g.kind = h.kind
        /\ g.chat = h.chat /\ g.contact = h.contact /\ g.conv = j
    BY <1>5, <2>1
  <2>3. ~crossed => j \in ConvIds(d) /\ d.contact[d.conv[j].contact] = request[s].chat
    BY <1>3, <1>9 DEF Belongs
  <2>4. AfterMessage(s, g, d)
    BY <1>9
  <2> HIDE DEF g
  <2>5. Fits(g) /\ (~crossed => LookedUp(d, g))
    <3> HIDE DEF j, d
    <3>1. QED
      BY <1>4, <1>6, <2>1, <2>2, <2>3 DEF Fits, LookedUp
  <2>6. QED
    BY <1>3, <2>2, <2>4, <2>5, ExtendsItself, MessageDone
<1>10. QED
  BY <1>1, <1>7, <1>8, <1>9

\* FinishRun keeps the invariant.
LEMMA FinishRunInv ==
    ASSUME SimulatorInv, NEW s \in Requests, FinishRun(s)
    PROVE  SimulatorInv' /\ Extends(db, db')
<1> DEFINE d == View(s)
           reply == WithMessage(d, request[s].chat, request[s].conv)
<1>1. /\ request[s].pc = "match" /\ Step(s, Over)
      /\ Commit(s, d) \/ (reply.id \in Ids /\ Commit(s, reply.rows))
  BY DEF FinishRun
<1>2. request[s].chat \in Chats /\ request[s].conv \in Ids
  BY <1>1 DEF SimulatorInv, TypeOK, Request, RequestInv, Fits
<1>3. WellFormed(d) /\ (~crossed => Belongs(d) /\ LookedUp(d, request[s]))
  BY ViewRows
<1>4. CASE Commit(s, d)
  BY <1>1, <1>3, <1>4, OverHoldsNothing, ExtendsItself, GoesOn
<1>5. CASE reply.id \in Ids /\ Commit(s, reply.rows)
  <2>1. ~crossed => /\ request[s].conv \in ConvIds(d)
                    /\ d.contact[d.conv[request[s].conv].contact] = request[s].chat
    BY <1>1, <1>3 DEF LookedUp
  <2> HIDE DEF d
  <2>2. /\ WellFormed(reply.rows) /\ Extends(d, reply.rows)
        /\ ~crossed => Belongs(reply.rows)
    BY <1>2, <1>3, <1>5, <2>1, WithMessageRows
  <2> HIDE DEF reply
  <2>3. Extends(View(s), reply.rows)
    BY <2>2 DEF d
  <2>4. QED
    BY <1>1, <1>5, <2>2, <2>3, OverHoldsNothing, GoesOn
<1>6. QED
  BY <1>1, <1>4, <1>5

-----------------------------------------------------------------------------
(***************************************************************************)
(* The steps of a reset.                                                   *)
(***************************************************************************)

\* A reset looks: rows and writer stay.
LEMMA ResetLooks ==
    ASSUME SimulatorInv, NEW r \in Resets, NEW q \in Reset,
           ResetStep(r, q), UNCHANGED <<db, work, writer>>, Keeps(r, q),
           writer = r => /\ q.pc \in {"deleted", "contacts"}
                         /\ q.convs = reset[r].convs /\ q.messages = reset[r].messages
    PROVE  SimulatorInv'
<1>1. /\ UNCHANGED <<request, crossed>> /\ reset' \in [Resets -> Reset]
      /\ reset'[r] = q /\ \A p \in Resets \ {r} : reset'[p] = reset[p]
  BY DEF ResetStep, SimulatorInv, TypeOK
<1>2. TypeOK'
  BY <1>1 DEF SimulatorInv, TypeOK
<1>3. WorkInv'
  <2>1. \A p \in Resets : writer' = p =>
            reset'[p].pc \in {"deleted", "contacts"} /\ work' = WithoutFakeRows(p, db)'
    <3>1. ASSUME NEW p \in Resets, writer' = p
          PROVE  /\ reset'[p].convs = reset[p].convs /\ reset'[p].messages = reset[p].messages
                 /\ reset'[p].pc \in {"deleted", "contacts"} /\ work = WithoutFakeRows(p, db)
      <4>1. writer = p
        BY <3>1
      <4>2. CASE p = r
        BY <1>1, <4>1, <4>2 DEF SimulatorInv, WorkInv
      <4>3. CASE p # r
        BY <1>1, <4>1, <4>3 DEF SimulatorInv, WorkInv
      <4>4. QED
        BY <4>2, <4>3
    <3>2. QED
      BY <3>1 DEF WithoutFakeRows
  <2>2. QED
    BY <2>1 DEF SimulatorInv, WorkInv, WellFormed
<1>4. RequestInv'
  BY <1>1 DEF SimulatorInv, RequestInv
<1>5. ResetInv'
  BY <1>1 DEF SimulatorInv, ResetInv, Keeps, Reads
<1>6. BelongInv'
  BY <1>1 DEF SimulatorInv, BelongInv, View, LookedUp, Belongs
<1>7. QED
  BY <1>2, <1>3, <1>4, <1>5, <1>6 DEF SimulatorInv

\* ReadFakeConversations keeps the invariant.
LEMMA ReadFakeConversationsInv ==
    ASSUME SimulatorInv, NEW r \in Resets, ReadFakeConversations(r)
    PROVE  SimulatorInv'
<1> DEFINE convs == FakeConversations(db)
           q == [reset[r] EXCEPT !.pc = "conversations", !.convs = convs,
                                 !.contacts = {db.conv[j].contact : j \in convs}]
<1>1. /\ reset[r].pc = "idle" /\ ResetStep(r, q) /\ UNCHANGED <<db, work, writer>>
  BY DEF ReadFakeConversations
<1>2. /\ reset[r] \in Reset /\ Keeps(r, reset[r]) /\ WellFormed(db) /\ writer # r
  BY <1>1 DEF SimulatorInv, TypeOK, ResetInv, WorkInv
<1>3. /\ convs \subseteq Ids /\ {db.conv[j].contact : j \in convs} \subseteq Ids
      /\ \A j \in convs : j \in ConvIds(db) /\ db.conv[j].source = "fake_chat"
  BY <1>2 DEF FakeConversations, ConvIds, WellFormed
<1> HIDE DEF convs
<1>4. q \in Reset /\ q.pc = "conversations" /\ q.convs = convs /\ q.messages = reset[r].messages
  BY <1>2, <1>3 DEF Reset
<1> HIDE DEF q
<1>5. Keeps(r, q)
  BY <1>1, <1>2, <1>3, <1>4 DEF Keeps, Reads
<1>6. QED
  BY <1>1, <1>2, <1>4, <1>5, ResetLooks

\* ReadFakeContacts keeps the invariant.
LEMMA ReadFakeContactsInv ==
    ASSUME SimulatorInv, NEW r \in Resets, ReadFakeContacts(r)
    PROVE  SimulatorInv'
<1> DEFINE q == [reset[r] EXCEPT !.pc = "names",
                     !.contacts = @ \cup {i \in Ids : db.contact[i] \in FakeNamed}]
<1>1. /\ reset[r].pc = "conversations" /\ ResetStep(r, q) /\ UNCHANGED <<db, work, writer>>
  BY DEF ReadFakeContacts
<1>2. /\ reset[r] \in Reset /\ Keeps(r, reset[r]) /\ writer # r
  BY <1>1 DEF SimulatorInv, TypeOK, ResetInv, WorkInv
<1>3. /\ q \in Reset /\ q.pc = "names" /\ q.convs = reset[r].convs
      /\ q.messages = reset[r].messages /\ q.overtaken = reset[r].overtaken
  BY <1>2 DEF Reset
<1> HIDE DEF q
<1>4. Keeps(r, q)
  BY <1>1, <1>2, <1>3 DEF Keeps, Reads
<1>5. QED
  BY <1>1, <1>2, <1>3, <1>4, ResetLooks

\* LookAtMessages keeps the invariant.
LEMMA LookAtMessagesInv ==
    ASSUME SimulatorInv, NEW r \in Resets, LookAtMessages(r)
    PROVE  SimulatorInv'
<1> DEFINE seen == {m \in MessageIds(db) : db.message[m].conv \in reset[r].convs}
           q == [reset[r] EXCEPT !.pc = "messages", !.messages = seen]
<1>1. /\ reset[r].pc = "names" /\ ResetStep(r, q) /\ UNCHANGED <<db, work, writer>>
  BY DEF LookAtMessages
<1>2. /\ reset[r] \in Reset /\ Keeps(r, reset[r]) /\ writer # r
  BY <1>1 DEF SimulatorInv, TypeOK, ResetInv, WorkInv
<1>3. /\ seen \subseteq Ids
      /\ \A m \in seen : m \in MessageIds(db) /\ db.message[m].conv \in reset[r].convs
  BY DEF MessageIds
<1> HIDE DEF seen
<1>4. /\ q \in Reset /\ q.pc = "messages" /\ q.convs = reset[r].convs
      /\ q.messages = seen /\ q.overtaken = reset[r].overtaken
  BY <1>2, <1>3 DEF Reset
<1> HIDE DEF q
<1>5. Keeps(r, q)
  BY <1>1, <1>2, <1>3, <1>4 DEF Keeps, Reads
<1>6. QED
  BY <1>1, <1>2, <1>4, <1>5, ResetLooks

\* The rows without those a reset has read.
LEMMA RowsWithout ==
    ASSUME NEW r \in Resets, NEW d, WellFormed(d)
    PROVE  /\ WellFormed(WithoutFakeRows(r, d))
           /\ WithoutFakeRows(r, d).contact = d.contact
           /\ \A j \in Ids : WithoutFakeRows(r, d).conv[j] =
                                 IF j \in reset[r].convs THEN NoRow ELSE d.conv[j]
           /\ \A m \in Ids : WithoutFakeRows(r, d).message[m] =
                                 IF m \in reset[r].messages THEN NoMessage ELSE d.message[m]
<1> DEFINE e == WithoutFakeRows(r, d)
<1>1. d \in Rows
  BY DEF WellFormed
<1>2. NoRow \in ConversationRow /\ NoMessage \in MessageRow
  <2>1. 0 \in 0..MaxId
    BY SimulatorAssumption
  <2>2. QED
    BY <2>1 DEF NoRow, ConversationRow, NoMessage, MessageRow, Source
<1>3. /\ e.contact = d.contact
      /\ e.conv = [j \in Ids |-> IF j \in reset[r].convs THEN NoRow ELSE d.conv[j]]
      /\ e.message = [m \in Ids |-> IF m \in reset[r].messages THEN NoMessage ELSE d.message[m]]
  BY <1>1 DEF WithoutFakeRows, Rows
<1>4. e \in Rows
  BY <1>1, <1>2 DEF WithoutFakeRows, Rows
<1> HIDE DEF e
<1>5. /\ \A j \in ConvIds(e) : j \in ConvIds(d) /\ e.conv[j] = d.conv[j]
      /\ \A m \in MessageIds(e) : m \in MessageIds(d) /\ e.message[m] = d.message[m]
  BY <1>3 DEF ConvIds, MessageIds
<1>6. WellFormed(e)
  BY <1>4, <1>5 DEF WellFormed
<1>7. QED
  BY <1>3, <1>6 DEF e

\* DeleteFakeRows keeps the invariant.
LEMMA DeleteFakeRowsInv ==
    ASSUME SimulatorInv, NEW r \in Resets, DeleteFakeRows(r)
    PROVE  SimulatorInv' /\ UNCHANGED db
<1> DEFINE q == [reset[r] EXCEPT !.pc = "deleted"]
<1>1. reset[r].pc = "messages" /\ ResetStep(r, q) /\ UNCHANGED db
  BY DEF DeleteFakeRows
<1>2. /\ reset[r] \in Reset /\ Keeps(r, reset[r]) /\ writer # r /\ WellFormed(db)
      /\ r # NoOne /\ r \notin Requests /\ NoOne \notin Requests
  BY <1>1, SimulatorAssumption DEF SimulatorInv, TypeOK, ResetInv, WorkInv
<1>3. /\ q \in Reset /\ q.pc = "deleted" /\ q.convs = reset[r].convs
      /\ q.messages = reset[r].messages /\ q.overtaken = reset[r].overtaken
  BY <1>2 DEF Reset
<1> HIDE DEF q
<1>4. CASE reset[r].convs = {} /\ UNCHANGED <<work, writer>>
  <2>1. Keeps(r, q)
    BY <1>1, <1>2, <1>3, <1>4 DEF Keeps, Reads
  <2>2. QED
    BY <1>1, <1>2, <1>3, <1>4, <2>1, ResetLooks
<1>5. CASE writer = NoOne /\ writer' = r /\ work' = WithoutFakeRows(r, db)
  <2>1. /\ UNCHANGED <<request, crossed>> /\ reset' \in [Resets -> Reset]
        /\ reset'[r] = q /\ \A p \in Resets \ {r} : reset'[p] = reset[p]
    BY <1>1, <1>3 DEF ResetStep, SimulatorInv, TypeOK
  <2>2. WellFormed(work') /\ work' = WithoutFakeRows(r, db)'
    BY <1>1, <1>2, <1>3, <1>5, <2>1, RowsWithout DEF WithoutFakeRows
  <2>3. TypeOK'
    BY <1>1, <1>5, <2>1, <2>2 DEF SimulatorInv, TypeOK, WellFormed
  <2>4. WorkInv'
    <3>1. WellFormed(db)' /\ WellFormed(work)'
      BY <1>1, <1>2, <2>2 DEF WellFormed
    <3>2. \A p \in Resets : writer' = p =>
              reset'[p].pc \in {"deleted", "contacts"} /\ work' = WithoutFakeRows(p, db)'
      BY <1>3, <1>5, <2>1, <2>2
    <3>3. QED
      BY <1>2, <1>5, <3>1, <3>2 DEF WorkInv
  <2>5. RequestInv'
    BY <2>1 DEF SimulatorInv, RequestInv
  <2>6. ResetInv'
    <3>1. Keeps(r, reset[r])'
      BY <1>1, <1>2, <1>3, <1>5, <2>1 DEF Keeps, Reads
    <3>2. ASSUME NEW p \in Resets \ {r} PROVE Keeps(p, reset[p])'
      BY <1>1, <1>2, <1>5, <2>1, SimulatorAssumption DEF SimulatorInv, ResetInv, Keeps, Reads
    <3>3. QED
      BY <3>1, <3>2 DEF ResetInv
  <2>7. BelongInv'
    <3>1. \A s \in Requests : View(s) = db /\ View(s)' = db
      BY <1>1, <1>2, <1>5 DEF View
    <3>2. ASSUME ~crossed
          PROVE  Belongs(db') /\ \A s \in Requests : LookedUp(View(s)', request'[s])
      BY <1>1, <2>1, <3>1, <3>2 DEF SimulatorInv, BelongInv
    <3>3. crossed' = crossed /\ writer' \notin Requests
      BY <1>2, <1>5, <2>1
    <3>4. QED
      BY <3>2, <3>3 DEF BelongInv, Belongs, LookedUp, View
  <2>8. QED
    BY <1>1, <2>3, <2>4, <2>5, <2>6, <2>7 DEF SimulatorInv
<1>6. QED
  BY <1>4, <1>5 DEF DeleteFakeRows

\* LookAtContacts keeps the invariant.
LEMMA LookAtContactsInv ==
    ASSUME SimulatorInv, NEW r \in Resets, LookAtContacts(r)
    PROVE  SimulatorInv'
<1> DEFINE gone == (reset[r].contacts \cap ContactIds(View(r))) \ Protected(View(r))
           q == [reset[r] EXCEPT !.pc = "contacts", !.gone = gone]
<1>1. reset[r].pc = "deleted" /\ ResetStep(r, q) /\ UNCHANGED <<db, work, writer>>
  BY DEF LookAtContacts
<1>2. reset[r] \in Reset /\ Keeps(r, reset[r])
  BY DEF SimulatorInv, TypeOK, ResetInv
<1>3. gone \subseteq Ids /\ (writer = r => gone \cap Protected(work) = {})
  BY <1>2 DEF View, Reset
<1> HIDE DEF gone
<1>4. /\ q \in Reset /\ q.pc = "contacts" /\ q.convs = reset[r].convs /\ q.gone = gone
      /\ q.messages = reset[r].messages /\ q.overtaken = reset[r].overtaken
  BY <1>2, <1>3 DEF Reset
<1> HIDE DEF q
<1>5. Keeps(r, q)
  BY <1>1, <1>2, <1>3, <1>4 DEF Keeps, Reads
<1>6. QED
  BY <1>1, <1>4, <1>5, ResetLooks

\* FailReset keeps the invariant.
LEMMA FailResetInv ==
    ASSUME SimulatorInv, NEW r \in Resets, FailReset(r)
    PROVE  SimulatorInv' /\ UNCHANGED db
<1> DEFINE q == [NoReset EXCEPT !.pc = "over"]
<1>1. q \in Reset /\ q.pc = "over" /\ q.messages = {}
  BY DEF NoReset, Reset
<1>2. ResetStep(r, q) /\ UNCHANGED db
  BY DEF FailReset, Rollback
<1>3. /\ \/ UNCHANGED <<work, writer>> /\ writer # r
         \/ writer = r /\ writer' = NoOne /\ work' = db
      /\ r # NoOne /\ r \notin Requests /\ NoOne \notin Requests \cup Resets
  BY SimulatorAssumption DEF FailReset, Rollback
<1> HIDE DEF q
<1>4. /\ UNCHANGED <<request, crossed>> /\ reset' \in [Resets -> Reset]
      /\ reset'[r] = q /\ \A p \in Resets \ {r} : reset'[p] = reset[p]
  BY <1>1, <1>2 DEF ResetStep, SimulatorInv, TypeOK
<1>5. TypeOK'
  BY <1>2, <1>3, <1>4 DEF SimulatorInv, TypeOK
<1>6. WorkInv'
  <2>1. WellFormed(db)' /\ WellFormed(work)'
    BY <1>2, <1>3 DEF SimulatorInv, WorkInv, WellFormed
  <2>2. \A p \in Resets : writer' = p =>
            reset'[p].pc \in {"deleted", "contacts"} /\ work' = WithoutFakeRows(p, db)'
    BY <1>2, <1>3, <1>4 DEF SimulatorInv, WorkInv, WithoutFakeRows
  <2>3. QED
    BY <1>2, <1>3, <2>1, <2>2 DEF SimulatorInv, WorkInv
<1>7. RequestInv'
  BY <1>4 DEF SimulatorInv, RequestInv
<1>8. ResetInv'
  <2>1. Keeps(r, reset[r])'
    BY <1>1, <1>4 DEF Keeps, Reads
  <2>2. ASSUME NEW p \in Resets \ {r} PROVE Keeps(p, reset[p])'
    BY <1>2, <1>3, <1>4 DEF SimulatorInv, ResetInv, Keeps, Reads
  <2>3. QED
    BY <2>1, <2>2 DEF ResetInv
<1>9. BelongInv'
  <2>1. \A s \in Requests : View(s)' = View(s)
    BY <1>2, <1>3 DEF View
  <2>2. QED
    BY <1>2, <1>3, <1>4, <2>1 DEF SimulatorInv, BelongInv, Belongs, LookedUp
<1>10. QED
  BY <1>2, <1>5, <1>6, <1>7, <1>8, <1>9 DEF SimulatorInv

\* The rows that are committed when the contacts are deleted.
LEMMA RowsWithoutContacts ==
    ASSUME NEW d, WellFormed(d), NEW G
    PROVE  LET e == [d EXCEPT !.contact = [i \in Ids |-> IF i \in G THEN NoChat ELSE @[i]]]
           IN  /\ WellFormed(e)
               /\ e.conv = d.conv /\ e.message = d.message
               /\ ConvIds(e) = ConvIds(d) /\ MessageIds(e) = MessageIds(d)
               /\ \A i \in Ids \ G : e.contact[i] = d.contact[i]
<1> DEFINE e == [d EXCEPT !.contact = [i \in Ids |-> IF i \in G THEN NoChat ELSE @[i]]]
<1>1. d \in Rows
  BY DEF WellFormed
<1>2. /\ e \in Rows /\ e.conv = d.conv /\ e.message = d.message
      /\ e.contact = [i \in Ids |-> IF i \in G THEN NoChat ELSE d.contact[i]]
  BY <1>1 DEF Rows
<1> HIDE DEF e
<1>3. ConvIds(e) = ConvIds(d) /\ MessageIds(e) = MessageIds(d)
  BY <1>2 DEF ConvIds, MessageIds
<1>4. WellFormed(e) /\ \A i \in Ids \ G : e.contact[i] = d.contact[i]
  BY <1>2, <1>3 DEF WellFormed
<1>5. QED
  BY <1>2, <1>3, <1>4 DEF e

\* What a reset leaves when nothing crossed it belongs together, and what the
\* requests hold is still there.
LEMMA NothingCrossed ==
    ASSUME SimulatorInv, NEW r \in Resets, reset[r].pc = "contacts", ~crossed, ~Crosses(r),
           writer \in {NoOne, r}, NEW e, e.conv = View(r).conv, e.message = View(r).message,
           ConvIds(e) = ConvIds(View(r)), MessageIds(e) = MessageIds(View(r)),
           \A i \in Ids \ reset[r].gone : e.contact[i] = View(r).contact[i]
    PROVE  /\ Belongs(e)
           /\ \A s \in Requests : LookedUp(e, request[s])
<1> DEFINE R == reset[r]
           d == View(r)
<1>1. /\ Belongs(db) /\ Keeps(r, R) /\ WellFormed(db) /\ R \in Reset
      /\ r # NoOne /\ r \notin Requests /\ NoOne \notin Requests
  BY SimulatorAssumption DEF SimulatorInv, BelongInv, ResetInv, WorkInv, TypeOK
<1>2. /\ d.contact = db.contact
      /\ \A j \in ConvIds(d) : j \in ConvIds(db) \ R.convs /\ d.conv[j] = db.conv[j]
      /\ \A j \in ConvIds(db) \ R.convs : j \in ConvIds(d)
      /\ \A m \in MessageIds(d) : /\ m \in MessageIds(db) \ R.messages
                                  /\ d.message[m] = db.message[m]
  <2>1. CASE writer = r
    <3>1. d = WithoutFakeRows(r, db)
      BY <2>1 DEF View, SimulatorInv, WorkInv
    <3>2. /\ WithoutFakeRows(r, db).contact = db.contact
          /\ \A j \in Ids : WithoutFakeRows(r, db).conv[j] =
                                IF j \in R.convs THEN NoRow ELSE db.conv[j]
          /\ \A m \in Ids : WithoutFakeRows(r, db).message[m] =
                                IF m \in R.messages THEN NoMessage ELSE db.message[m]
      BY <1>1, RowsWithout
    <3>3. /\ d.contact = db.contact
          /\ \A j \in Ids : d.conv[j] = IF j \in R.convs THEN NoRow ELSE db.conv[j]
          /\ \A m \in Ids : d.message[m] = IF m \in R.messages THEN NoMessage ELSE db.message[m]
      BY <3>1, <3>2
    <3> HIDE DEF d, R
    <3>4. QED
      BY <3>3 DEF ConvIds, MessageIds
  <2>2. CASE writer # r
    <3>1. d = db /\ R.convs = {}
      BY <1>1, <2>2 DEF View, Keeps
    <3>2. R.messages = {}
      BY <1>1, <3>1 DEF Keeps
    <3>3. QED
      BY <3>1, <3>2
  <2>3. QED
    BY <2>1, <2>2
<1>3. \A j \in ConvIds(d) : db.conv[j].contact \notin R.gone
  <2>1. CASE writer = r
    <3>1. R.gone \cap Protected(d) = {}
      BY <1>1, <2>1 DEF Keeps, View
    <3>2. QED
      BY <1>2, <3>1 DEF Protected
  <2>2. CASE writer # r
    BY <1>2, <2>2 DEF Crosses
  <2>3. QED
    BY <2>1, <2>2
<1>4. \A m \in MessageIds(d) : d.message[m].conv \in ConvIds(d)
  <2> SUFFICES ASSUME NEW m \in MessageIds(d) PROVE db.message[m].conv \in ConvIds(db) \ R.convs
    BY <1>2
  <2>1. m \in MessageIds(db) \ R.messages
    BY <1>2
  <2>2. QED
    BY <1>1, <2>1 DEF Belongs, Crosses
<1>5. \A j \in ConvIds(d) :
          /\ e.conv[j] = db.conv[j] /\ db.conv[j].contact \in ContactIds(db)
          /\ e.contact[db.conv[j].contact] = db.contact[db.conv[j].contact]
          /\ Side(db.contact[db.conv[j].contact], db.conv[j].source)
          /\ db.conv[j].contact \in ContactIds(e)
  <2> SUFFICES ASSUME NEW j \in ConvIds(d)
               PROVE  /\ e.conv[j] = db.conv[j] /\ db.conv[j].contact \in ContactIds(db)
                      /\ e.contact[db.conv[j].contact] = db.contact[db.conv[j].contact]
                      /\ Side(db.contact[db.conv[j].contact], db.conv[j].source)
                      /\ db.conv[j].contact \in ContactIds(e)
    OBVIOUS
  <2>1. /\ j \in ConvIds(db) /\ d.conv[j] = db.conv[j] /\ e.conv[j] = db.conv[j]
    BY <1>2
  <2>2. db.conv[j].contact \in ContactIds(db) /\ db.conv[j].contact \in Ids \ R.gone
    BY <1>1, <1>3, <2>1 DEF Belongs, ContactIds
  <2>3. e.contact[db.conv[j].contact] = db.contact[db.conv[j].contact]
    BY <1>2, <2>2
  <2>4. QED
    BY <1>1, <2>1, <2>2, <2>3 DEF Belongs, ContactIds
<1>6. Belongs(e)
  <2>1. \A m \in MessageIds(d) :
            /\ e.message[m] = db.message[m] /\ db.message[m].conv \in ConvIds(d)
            /\ db.contact[db.conv[db.message[m].conv].contact] = db.message[m].chat
    BY <1>1, <1>2, <1>4 DEF Belongs
  <2> HIDE DEF d, R
  <2>2. ConvIds(e) = ConvIds(d) /\ MessageIds(e) = MessageIds(d)
    BY DEF d
  <2>3. ASSUME NEW j \in ConvIds(e)
        PROVE  /\ e.conv[j].contact \in ContactIds(e)
               /\ Side(e.contact[e.conv[j].contact], e.conv[j].source)
    BY <1>5, <2>2
  <2>4. ASSUME NEW m \in MessageIds(e)
        PROVE  /\ e.message[m].conv \in ConvIds(e)
               /\ e.contact[e.conv[e.message[m].conv].contact] = e.message[m].chat
    <3> DEFINE k == db.message[m].conv
    <3>1. e.message[m] = db.message[m] /\ k \in ConvIds(d)
          /\ db.contact[db.conv[k].contact] = db.message[m].chat
      BY <2>1, <2>2
    <3>2. e.conv[k] = db.conv[k] /\ e.contact[db.conv[k].contact] = db.contact[db.conv[k].contact]
      BY <1>5, <3>1
    <3>3. QED
      BY <2>2, <3>1, <3>2
  <2>5. QED
    BY <2>3, <2>4 DEF Belongs
<1>7. ASSUME NEW s \in Requests PROVE LookedUp(e, request[s])
  <2> DEFINE q == request[s]
  <2>1. View(s) = db /\ LookedUp(db, q) /\ Fits(q) /\ writer # s
    BY <1>1 DEF View, SimulatorInv, BelongInv, RequestInv
  <2>2. q.pc \in {"contact", "closing", "conversation", "match"} =>
            q.contact \in Ids \ R.gone /\ q.conv \notin R.convs
    BY <2>1 DEF Crosses, Exposed, Fits
  <2>3. q.pc \in {"contact", "closing", "conversation", "match"} => e.contact[q.contact] = q.chat
    BY <1>2, <2>1, <2>2 DEF LookedUp
  <2>4. q.pc \in {"closing", "conversation", "match"} =>
            q.conv \in ConvIds(d) /\ db.contact[db.conv[q.conv].contact] = q.chat
    BY <1>2, <2>1, <2>2 DEF LookedUp
  <2>5. ConvIds(e) = ConvIds(d)
    OBVIOUS
  <2> SUFFICES LookedUp(e, q)
    OBVIOUS
  <2> HIDE DEF d, R, q
  <2>6. QED
    BY <1>5, <2>3, <2>4, <2>5 DEF LookedUp
<1>8. QED
  BY <1>6, <1>7

\* DeleteFakeContacts keeps the invariant.
LEMMA DeleteFakeContactsInv ==
    ASSUME SimulatorInv, NEW r \in Resets, DeleteFakeContacts(r)
    PROVE  SimulatorInv'
<1> DEFINE R == reset[r]
           d == View(r)
           e == [d EXCEPT !.contact = [i \in Ids |-> IF i \in R.gone THEN NoChat ELSE @[i]]]
<1>1. /\ R.pc = "contacts" /\ (R.gone # {} => writer \in {NoOne, r})
      /\ Commit(r, e) /\ crossed' = (crossed \/ Crosses(r)) /\ request' = request
  BY DEF DeleteFakeContacts
<1>2. /\ WellFormed(db) /\ WellFormed(work) /\ WellFormed(d)
      /\ Crosses(r) \in BOOLEAN /\ crossed \in BOOLEAN
      /\ r # NoOne /\ r \notin Requests /\ NoOne \notin Requests /\ NoOne \notin Resets
  BY SimulatorAssumption DEF SimulatorInv, WorkInv, TypeOK, View, Crosses
<1>3. /\ WellFormed(e) /\ e.conv = d.conv /\ e.message = d.message
      /\ ConvIds(e) = ConvIds(d) /\ MessageIds(e) = MessageIds(d)
      /\ \A i \in Ids \ R.gone : e.contact[i] = d.contact[i]
  BY <1>2, RowsWithoutContacts
<1>4. /\ NoReset \in Reset /\ [NoReset EXCEPT !.pc = "over"] \in Reset
      /\ [NoReset EXCEPT !.pc = "over"].pc = "over"
      /\ [NoReset EXCEPT !.pc = "over"].messages = {}
  BY DEF NoReset, Reset
<1>5. /\ reset' \in [Resets -> Reset]
      /\ reset'[r].pc = "over" /\ reset'[r].messages = {}
      /\ \A q \in Resets \ {r} :
             /\ reset[q].pc \in {"idle", "over"} => reset'[q] = reset[q]
             /\ reset[q].pc \notin {"idle", "over"} => reset'[q].overtaken
             /\ reset'[q].pc = reset[q].pc /\ reset'[q].convs = reset[q].convs
             /\ reset'[q].messages = reset[q].messages /\ reset'[q].gone = reset[q].gone
  <2>1. \A q \in Resets : /\ reset[q] \in Reset
                           /\ [reset[q] EXCEPT !.overtaken = TRUE] \in Reset
    BY DEF SimulatorInv, TypeOK, Reset
  <2>2. reset' = [q \in Resets |->
           IF q = r THEN [NoReset EXCEPT !.pc = "over"]
           ELSE IF reset[q].pc \in {"idle", "over"} THEN reset[q]
           ELSE [reset[q] EXCEPT !.overtaken = TRUE]]
    BY DEF DeleteFakeContacts
  <2>3. QED
    BY <1>4, <2>1, <2>2 DEF Reset
<1> HIDE DEF e
<1>6. \/ UNCHANGED <<db, work, writer>> /\ writer # r
      \/ writer \in {NoOne, r} /\ db' = e /\ work' = e /\ writer' = NoOne
  <2>1. CASE e = d /\ writer # r
    BY <1>1, <2>1 DEF Commit
  <2>2. CASE ~(e = d /\ writer # r)
    BY <1>1, <2>2 DEF Commit
  <2>3. QED
    BY <2>1, <2>2
<1>7. TypeOK'
  BY <1>1, <1>2, <1>3, <1>5, <1>6 DEF SimulatorInv, TypeOK, WellFormed
<1>8. WorkInv'
  <2>1. WellFormed(db)' /\ WellFormed(work)'
    BY <1>2, <1>3, <1>6 DEF WellFormed
  <2>2. \A q \in Resets : writer' = q =>
            reset'[q].pc \in {"deleted", "contacts"} /\ work' = WithoutFakeRows(q, db)'
    <3>1. ASSUME NEW q \in Resets, writer' = q
          PROVE  /\ reset'[q].convs = reset[q].convs /\ reset'[q].messages = reset[q].messages
                 /\ reset'[q].pc \in {"deleted", "contacts"}
                 /\ UNCHANGED <<db, work>> /\ work = WithoutFakeRows(q, db)
      <4>1. UNCHANGED <<db, work, writer>> /\ writer = q /\ q # r
        BY <1>2, <1>6, <3>1
      <4>2. QED
        BY <1>5, <4>1 DEF SimulatorInv, WorkInv
    <3>2. QED
      BY <3>1 DEF WithoutFakeRows
  <2>3. QED
    BY <1>2, <1>6, <2>1, <2>2 DEF SimulatorInv, WorkInv
<1>9. RequestInv'
  BY <1>1 DEF SimulatorInv, RequestInv
<1>10. ResetInv'
  <2>1. Keeps(r, reset[r])'
    BY <1>5 DEF Keeps, Reads
  <2>2. ASSUME NEW q \in Resets \ {r} PROVE Keeps(q, reset[q])'
    <3>1. Keeps(q, reset[q])
      BY DEF SimulatorInv, ResetInv
    <3>2. Reads(db, reset[q])'
      BY <1>5 DEF Reads
    <3>3. reset[q].pc \in {"deleted", "contacts"} /\ reset[q].convs # {} => writer' = q
      BY <1>2, <1>6, <3>1 DEF Keeps
    <3>4. reset[q].pc = "contacts" /\ writer' = q => reset[q].gone \cap Protected(work') = {}
      BY <1>2, <1>6, <3>1 DEF Keeps
    <3>5. QED
      BY <1>5, <3>1, <3>2, <3>3, <3>4 DEF Keeps
  <2>3. QED
    BY <2>1, <2>2 DEF ResetInv
<1>11. ASSUME ~crossed'
       PROVE  /\ Belongs(db') /\ (writer' \in Requests => Belongs(work'))
              /\ \A s \in Requests : LookedUp(View(s)', request[s])
  <2>1. ~crossed /\ ~Crosses(r)
    BY <1>1, <1>2, <1>11
  <2>2. CASE UNCHANGED <<db, work, writer>>
    <3>1. \A s \in Requests : View(s)' = View(s)
      BY <2>2 DEF View
    <3>2. QED
      BY <2>1, <2>2, <3>1 DEF SimulatorInv, BelongInv
  <2>3. CASE writer \in {NoOne, r} /\ db' = e /\ work' = e /\ writer' = NoOne
    <3>1. Belongs(e) /\ \A s \in Requests : LookedUp(e, request[s])
      BY <1>1, <1>3, <2>1, <2>3, NothingCrossed
    <3>2. \A s \in Requests : View(s)' = e
      BY <1>2, <2>3 DEF View
    <3>3. QED
      BY <1>2, <2>3, <3>1, <3>2
  <2>4. QED
    BY <1>6, <2>2, <2>3
<1>12. BelongInv'
  BY <1>1, <1>11 DEF BelongInv, Belongs, LookedUp, View
<1>13. QED
  BY <1>7, <1>8, <1>9, <1>10, <1>12 DEF SimulatorInv

-----------------------------------------------------------------------------
(***************************************************************************)
(* Theorems                                                                *)
(***************************************************************************)

\* The invariant holds initially.
LEMMA InitInv == Init => SimulatorInv
<1> SUFFICES ASSUME Init PROVE SimulatorInv
  OBVIOUS
<1>1. 0 \in 0..MaxId
  BY SimulatorAssumption
<1>2. /\ NoRow \in ConversationRow /\ NoMessage \in MessageRow
  BY <1>1 DEF NoRow, ConversationRow, NoMessage, MessageRow, Source
<1>3. /\ NoRows \in Rows /\ ContactIds(NoRows) = {} /\ ConvIds(NoRows) = {}
      /\ MessageIds(NoRows) = {}
  BY <1>2 DEF NoRows, Rows, ContactIds, ConvIds, MessageIds
<1>4. /\ NoReset \in Reset /\ NoReset.pc = "idle" /\ NoReset.messages = {}
  BY DEF NoReset, Reset
<1>5. TypeOK
  BY <1>3, <1>4, OverHoldsNothing DEF Init, TypeOK
<1>6. WorkInv
  BY <1>3, SimulatorAssumption, ExtendsItself DEF Init, WorkInv, WellFormed
<1>7. RequestInv
  BY OverHoldsNothing DEF Init, RequestInv, Fits
<1>8. ResetInv
  BY <1>4 DEF Init, ResetInv, Keeps, Reads
<1>9. BelongInv
  BY <1>3, OverHoldsNothing, SimulatorAssumption DEF Init, BelongInv, Belongs, LookedUp
<1>10. QED
  BY <1>5, <1>6, <1>7, <1>8, <1>9 DEF SimulatorInv

\* A step of a request keeps the invariant, and takes no row away.
LEMMA RequestStepInv ==
    ASSUME SimulatorInv, NEW s \in Requests,
           \/ Begin(s) \/ TriageRejects(s) \/ TriageReturns(s)
           \/ FindContact(s) \/ FindConversation(s) \/ FindQuietly(s) \/ FindNothing(s)
           \/ FindToClose(s) \/ CloseAndReopen(s)
           \/ StoreMessage(s) \/ FinishRun(s) \/ FailRequest(s)
    PROVE  SimulatorInv' /\ Extends(db, db')
BY BeginInv, TriageRejectsInv, TriageReturnsInv, FindContactInv, FindConversationInv,
   TakeConversationInv, FindNothingInv, CloseAndReopenInv, StoreMessageInv, FinishRunInv, RolledBack

\* A step of a reset keeps the invariant; only the last one commits anything.
LEMMA ResetStepInv ==
    ASSUME SimulatorInv, NEW r \in Resets,
           \/ ReadFakeConversations(r) \/ ReadFakeContacts(r) \/ LookAtMessages(r)
           \/ DeleteFakeRows(r) \/ LookAtContacts(r) \/ DeleteFakeContacts(r) \/ FailReset(r)
    PROVE  SimulatorInv' /\ (DeleteFakeContacts(r) \/ UNCHANGED db)
<1>1. SimulatorInv'
  BY ReadFakeConversationsInv, ReadFakeContactsInv, LookAtMessagesInv, DeleteFakeRowsInv,
     LookAtContactsInv, DeleteFakeContactsInv, FailResetInv
<1>2. DeleteFakeContacts(r) \/ UNCHANGED db
  BY DEF ReadFakeConversations, ReadFakeContacts, LookAtMessages, DeleteFakeRows, LookAtContacts,
         FailReset, Rollback
<1>3. QED
  BY <1>1, <1>2

\* Every step keeps the invariant.
LEMMA NextInv == SimulatorInv /\ [Next]_vars => SimulatorInv'
<1> SUFFICES ASSUME SimulatorInv, [Next]_vars PROVE SimulatorInv'
  OBVIOUS
<1>1. CASE Next
  BY <1>1, RequestStepInv, ResetStepInv DEF Next
<1>2. CASE UNCHANGED vars
  <2>1. TypeOK'
    BY <1>2 DEF vars, SimulatorInv, TypeOK
  <2>2. WorkInv'
    <3>1. WellFormed(db)' /\ WellFormed(work)'
      BY <1>2 DEF vars, SimulatorInv, WorkInv, WellFormed, Rows, ConvIds, MessageIds
    <3>2. writer' \in Requests => Extends(db, work)'
      BY <1>2 DEF vars, SimulatorInv, WorkInv, Extends, ContactIds, ConvIds, MessageIds
    <3>3. \A r \in Resets : WithoutFakeRows(r, db)' = WithoutFakeRows(r, db)
      BY <1>2 DEF vars, WithoutFakeRows
    <3>4. QED
      BY <1>2, <3>1, <3>2, <3>3 DEF vars, SimulatorInv, WorkInv
  <2>3. RequestInv'
    BY <1>2 DEF vars, SimulatorInv, RequestInv, Fits
  <2>4. ResetInv'
    BY <1>2 DEF vars, SimulatorInv, ResetInv, Keeps, Reads, Protected, ConvIds, MessageIds
  <2>5. BelongInv'
    BY <1>2 DEF vars, SimulatorInv, BelongInv, Belongs, LookedUp, View, Side, ContactIds,
       ConvIds, MessageIds
  <2>6. QED
    BY <2>1, <2>2, <2>3, <2>4, <2>5 DEF SimulatorInv
<1>3. QED
  BY <1>1, <1>2

\* The invariant always holds.
THEOREM SimulatorInvariant == Spec => []SimulatorInv
BY InitInv, NextInv, PTL DEF Spec

\* Every variable has its type, with any number of chats, requests and resets.
THEOREM TypeCorrect == Spec => []TypeOK
<1>1. SimulatorInv => TypeOK
  BY DEF SimulatorInv
<1>2. QED
  BY <1>1, SimulatorInvariant, PTL

\* Rows are under their parents, in conversations of their own chat and on their
\* own side, as long as no reset has deleted what came, or was looked up by
\* others, after it looked: although deleted ids come again.
THEOREM RowsStayTogether == Spec => []RowsBelongTogether
<1>1. SimulatorInv => RowsBelongTogether
  BY DEF SimulatorInv, BelongInv, Belongs, Side, RowsBelongTogether, NoOrphans, MessagesOfOwnChat,
         SeparateTranscripts
<1>2. QED
  BY <1>1, SimulatorInvariant, PTL

\* What a committed reset leaves of WhatsApp, if no other reset overtook it.
LEMMA ResetKeepsWhatsApp ==
    ASSUME SimulatorInv, NEW r \in Resets, DeleteFakeContacts(r), ~reset[r].overtaken
    PROVE  /\ \A j \in ConvIds(db) : db.conv[j].source = "whatsapp" => db'.conv[j] = db.conv[j]
           /\ \A m \in Ids : OfWhatsApp(m) => db'.message[m] = db.message[m]
<1> DEFINE d == View(r)
           e == [d EXCEPT !.contact = [i \in Ids |-> IF i \in reset[r].gone THEN NoChat ELSE @[i]]]
<1>1. WellFormed(d) /\ WellFormed(db) /\ Reads(db, reset[r]) /\ reset[r].pc = "contacts"
  BY DEF SimulatorInv, WorkInv, ResetInv, Keeps, View, DeleteFakeContacts
<1>2. e.conv = d.conv /\ e.message = d.message
  BY <1>1, RowsWithoutContacts
<1>3. db' = e \/ db' = db
  BY DEF DeleteFakeContacts, Commit
<1>4. CASE writer = r
  <2>1. d = WithoutFakeRows(r, db)
    BY <1>4 DEF View, SimulatorInv, WorkInv
  <2>2. /\ \A j \in Ids : WithoutFakeRows(r, db).conv[j] =
                               IF j \in reset[r].convs THEN NoRow ELSE db.conv[j]
        /\ \A m \in Ids : WithoutFakeRows(r, db).message[m] =
                               IF m \in reset[r].messages THEN NoMessage ELSE db.message[m]
    BY <1>1, RowsWithout
  <2>3. /\ \A j \in Ids \ reset[r].convs : d.conv[j] = db.conv[j]
        /\ \A m \in Ids \ reset[r].messages : d.message[m] = db.message[m]
    BY <2>1, <2>2
  <2>4. \A j \in ConvIds(db) : db.conv[j].source = "whatsapp" => j \in Ids \ reset[r].convs
    BY <1>1 DEF Reads, ConvIds
  <2>5. \A m \in Ids : OfWhatsApp(m) => m \notin reset[r].messages
    BY <1>1 DEF Reads, OfWhatsApp
  <2> HIDE DEF d, e
  <2>6. QED
    BY <1>2, <1>3, <2>3, <2>4, <2>5
<1>5. CASE writer # r
  <2>1. d = db
    BY <1>5 DEF View
  <2>2. QED
    BY <1>2, <1>3, <2>1
<1>6. QED
  BY <1>4, <1>5

\* A reset that no other reset overtook deletes no conversation of WhatsApp and
\* nothing said in one.
THEOREM WhatsAppIsKept == Spec => WhatsAppRowsStay
<1> DEFINE Kept == /\ \A j \in ConvIds(db) : db.conv[j].source = "whatsapp" =>
                          db'.conv[j] \in {db.conv[j], [db.conv[j] EXCEPT !.open = FALSE]}
                   /\ \A m \in Ids : OfWhatsApp(m) => db'.message[m] = db.message[m]
           Overtaken == \E r \in Resets :
                            reset[r].overtaken /\ reset[r].pc = "contacts" /\ reset'[r].pc = "over"
<1>1. ASSUME SimulatorInv, [Next]_vars PROVE Kept \/ Overtaken
  <2>1. CASE Extends(db, db')
    BY <2>1 DEF Extends, Closed, OfWhatsApp
  <2>2. CASE UNCHANGED db
    BY <2>2
  <2>3. ASSUME NEW r \in Resets, DeleteFakeContacts(r) PROVE Kept \/ Overtaken
    <3>1. CASE reset[r].overtaken
      <4>1. reset[r].pc = "contacts" /\ reset'[r].pc = "over"
        BY <2>3 DEF DeleteFakeContacts, NoReset
      <4>2. QED
        BY <3>1, <4>1
    <3>2. CASE ~reset[r].overtaken
      BY <1>1, <2>3, <3>2, ResetKeepsWhatsApp
    <3>3. QED
      BY <3>1, <3>2
  <2>4. Extends(db, db') \/ UNCHANGED db \/ \E r \in Resets : DeleteFakeContacts(r)
    BY <1>1, RequestStepInv, ResetStepInv DEF Next, vars
  <2>5. QED
    BY <2>1, <2>2, <2>3, <2>4
<1>2. SimulatorInv /\ [Next]_vars => [Kept \/ Overtaken]_vars
  BY <1>1
<1>3. QED
  BY <1>2, SimulatorInvariant, PTL DEF Spec, WhatsAppRowsStay

=============================================================================

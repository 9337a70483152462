------------------------ MODULE ListingRepliesProofs ------------------------
(***************************************************************************)
(* Proofs about replies and the rows they are made of, for any listings,   *)
(* files, Playbook contents and numbers of replies and operations: the     *)
(* types, that a reply is the Playbook in its order, that rows and files   *)
(* stand behind it, and what the operator's overlapping requests leave.    *)
(***************************************************************************)
EXTENDS ListingReplies, SequenceTheorems, WellFoundedInduction, TLAPS

-----------------------------------------------------------------------------
(***************************************************************************)
(* The inductive invariant.                                                *)
(***************************************************************************)

\* A reply that is planned or sent has the write transaction, and so has one
\* that waits for its decision unless its batch is a replay; until the
\* transaction ends no row changes, and nothing is sent before there is a plan.
ReplyInv ==
    /\ reply.pc \in {"plan", "send"} => reply.locked /\ reply.held.status \notin Stops
    /\ reply.pc = "matched" => reply.locked \/ reply.replayed
    /\ reply.pc # "idle" => /\ reply.outcome = "none"
                            /\ reply.replayed \/ listing[reply.listing] = reply.held
    /\ reply.pc \in {"matched", "plan"} =>
           /\ reply.parts = << >> /\ reply.files = << >> /\ reply.next = 1
           /\ reply.queue = << >> /\ reply.sent = << >> /\ ~reply.mediaSent

\* The blocks of a Playbook were accepted when the request began.
PlaybookInv ==
    /\ \A l \in Listings : Accepted(playbook[l].blocks)
    /\ \A request \in pending :
           request.op \in {"save", "seed"} => Accepted(request.row.blocks)

\* Without an operation no request is between its steps, and no file goes.
FilesInv == budget.operations = 0 => pending = {}

\* g says what the first pieces come to, for each number of them.
Sums(g, pieces, S) ==
    /\ g \in [0..Len(pieces) -> Seq(S)]
    /\ g[0] = << >>
    /\ \A i \in 1..Len(pieces) : g[i] = g[i - 1] \o pieces[i]

\* What was sent and what is still to be sent of the gallery are the parts up to
\* the next one; the gallery was sent if it is among them.
SentUpTo(g, r) ==
    /\ g[Len(r.parts)] = Deliveries(r.parts, r.files)
    /\ r.next \in 1..(Len(r.parts) + 1)
    /\ r.sent \o r.queue = g[r.next - 1]
    /\ r.mediaSent <=> \E j \in 1..(r.next - 1) : r.parts[j] = "gallery"
    /\ r.outcome = "sent" => r.queue = << >> /\ r.next = Len(r.parts) + 1

Delivered(r) ==
    \E g : Sums(g, Pieces(r.parts, r.files), Block \cup Files) /\ SentUpTo(g, r)

ListingInv ==
    /\ TypeOK /\ ReplyInv /\ PlaybookInv /\ FilesInv /\ Delivered(reply)
    /\ RowsStandBehindReply /\ FilesAreThere

-----------------------------------------------------------------------------
(***************************************************************************)
(* Induction over natural numbers, for sets of them.                       *)
(***************************************************************************)

\* A set of natural numbers that is not empty has a least element.
LEMMA LeastNat ==
  ASSUME NEW T, T \subseteq Nat, T # {}
  PROVE  \E x \in T : \A y \in T : x <= y
<1> DEFINE R == {p \in Nat \X Nat : p[1] < p[2]}
<1>1. R = OpToRel(<, Nat)
  BY DEF OpToRel
<1>2. IsWellFoundedOn(R, Nat)
  BY <1>1, NatLessThanWellFounded
<1> HIDE DEF R
<1>3. PICK x \in T : \A y \in T : ~ (<<y, x>> \in R)
  BY <1>2, WFMin
<1>4. ASSUME NEW y \in T PROVE x <= y
  <2>1. y \in Nat /\ x \in Nat
    OBVIOUS
  <2>2. <<y, x>> \in Nat \X Nat
    BY <2>1
  <2>3. ~(y < x)
    BY <2>1, <2>2, <1>3 DEF R
  <2> QED BY <2>1, <2>3
<1> QED BY <1>4

\* A set that has 0 and the successor of each of its numbers has them all.
LEMMA SetInduction ==
  ASSUME NEW S, 0 \in S, \A n \in Nat : n \in S => n + 1 \in S
  PROVE  Nat \subseteq S
<1> SUFFICES ASSUME Nat \ S # {} PROVE FALSE
  OBVIOUS
<1>1. PICK x \in Nat \ S : \A y \in Nat \ S : x <= y
  BY LeastNat, Nat \ S \subseteq Nat
<1>2. x # 0 /\ x \in Nat
  BY <1>1
<1>3. x - 1 \in Nat /\ ~(x <= x - 1)
  BY <1>2
<1>4. x - 1 \in S
  BY <1>1, <1>3
<1> QED BY <1>1, <1>3, <1>4, <1>2, (x - 1) + 1 = x

-----------------------------------------------------------------------------
(***************************************************************************)
(* Pieces one after the other.                                             *)
(***************************************************************************)

\* There are sums of any pieces.
LEMMA SumsExist ==
    ASSUME NEW S, NEW pieces \in Seq(Seq(S))
    PROVE  \E g : Sums(g, pieces, S)
<1> DEFINE n == Len(pieces)
           Upto(k, g) == /\ g \in [0..k -> Seq(S)]
                         /\ g[0] = << >>
                         /\ \A i \in 1..k : g[i] = g[i - 1] \o pieces[i]
           T == {k \in Nat : k <= n => \E g : Upto(k, g)}
<1>1. n \in Nat /\ \A i \in 1..n : pieces[i] \in Seq(S)
  OBVIOUS
<1>2. \E g : Upto(0, g)
  <2> DEFINE g == [i \in 0..0 |-> << >>]
  <2>1. g \in [0..0 -> Seq(S)] /\ g[0] = << >>
    OBVIOUS
  <2>2. \A i \in 1..0 : FALSE
    OBVIOUS
  <2> HIDE DEF g
  <2>3. Upto(0, g)
    BY <2>1, <2>2
  <2>4. QED
    BY <2>3
<1> HIDE DEF n
<1>3. ASSUME NEW k \in Nat, k + 1 <= n, NEW h, Upto(k, h) PROVE \E g : Upto(k + 1, g)
  <2> DEFINE last == h[k] \o pieces[k + 1]
             g == [i \in 0..(k + 1) |-> IF i = k + 1 THEN last ELSE h[i]]
  <2>1. k + 1 \in 1..n
    BY <1>1, <1>3
  <2>2. last \in Seq(S)
    BY <1>1, <1>3, <2>1
  <2> HIDE DEF last
  <2>3. k + 1 \in 0..(k + 1) /\ \A i \in 0..k : i \in 0..(k + 1) /\ i # k + 1
    OBVIOUS
  <2>4. \A i \in 0..(k + 1) : i = k + 1 \/ i \in 0..k
    OBVIOUS
  <2>5. g \in [0..(k + 1) -> Seq(S)]
    BY <1>3, <2>2, <2>4
  <2>6. g[k + 1] = last /\ \A i \in 0..k : g[i] = h[i]
    BY <2>3
  <2> HIDE DEF g
  <2>7. ASSUME NEW i \in 1..(k + 1) PROVE g[i] = g[i - 1] \o pieces[i]
    <3>1. CASE i = k + 1
      <4>1. i - 1 = k /\ k \in 0..k
        BY <3>1
      <4>2. QED
        BY <2>6, <3>1, <4>1 DEF last
    <3>2. CASE i # k + 1
      <4>1. i \in 1..k /\ i \in 0..k /\ i - 1 \in 0..k
        BY <3>2
      <4>2. QED
        BY <1>3, <2>6, <4>1
    <3>3. QED
      BY <3>1, <3>2
  <2>8. g[0] = << >>
    BY <1>3, <2>6
  <2>9. Upto(k + 1, g)
    BY <2>5, <2>7, <2>8
  <2> HIDE DEF Upto
  <2>10. QED
    BY <2>9
<1> HIDE DEF Upto
<1>4. Nat \subseteq T
  <2>1. 0 \in T
    BY <1>2
  <2>2. ASSUME NEW k \in Nat, k \in T PROVE k + 1 \in T
    <3>1. CASE k + 1 <= n
      <4>1. k <= n
        BY <1>1, <3>1
      <4>2. PICK h : Upto(k, h)
        BY <2>2, <4>1
      <4>3. \E g : Upto(k + 1, g)
        BY <1>3, <3>1, <4>2
      <4>4. QED
        BY <4>3
    <3>2. CASE ~(k + 1 <= n)
      BY <3>2
    <3>3. QED
      BY <3>1, <3>2
  <2> HIDE DEF T
  <2>3. QED
    BY <2>1, <2>2, SetInduction
<1>5. PICK g : Upto(n, g)
  <2>1. n \in T /\ n <= n
    BY <1>1, <1>4
  <2>2. QED
    BY <2>1
<1>6. QED
  BY <1>5 DEF Sums, n, Upto

\* The last of them is what FlattenSeq makes of the pieces.
LEMMA SumsFlatten ==
    ASSUME NEW S, NEW pieces \in Seq(Seq(S)), NEW g, Sums(g, pieces, S)
    PROVE  FlattenSeq(pieces) = g[Len(pieces)]
<1> DEFINE n == Len(pieces)
<1>1. n \in Nat /\ \A i \in 1..n : pieces[i] \in Seq(S)
  OBVIOUS
<1>2. /\ g \in [0..n -> Seq(S)] /\ g[0] = << >>
      /\ \A i \in 1..n : g[i] = g[i - 1] \o pieces[i]
  BY DEF Sums
<1>3. CASE n = 0
  <2>1. pieces = << >>
    BY <1>3
  <2>2. FlattenSeq(pieces) = << >>
    BY <1>3, <2>1 DEF FlattenSeq
  <2>3. QED
    BY <1>2, <1>3, <2>2
<1>4. CASE n > 0
  <2> DEFINE Following(f) == [i \in 1..n |-> IF i = 1 THEN pieces[i] ELSE f[i - 1] \o pieces[i]]
             f == CHOOSE f : f = Following(f)
             e == [i \in 1..n |-> g[i]]
  <2>1. FlattenSeq(pieces) = f[n]
    BY <1>1, <1>4 DEF FlattenSeq
  <2> HIDE DEF n
  <2>2. g[1] = pieces[1]
    <3>1. 1 \in 1..n /\ 1 - 1 = 0
      BY <1>1, <1>4
    <3>2. g[1] = g[1 - 1] \o pieces[1] /\ pieces[1] \in Seq(S)
      BY <1>1, <1>2, <3>1
    <3>3. g[1] = << >> \o pieces[1]
      BY <1>2, <3>1, <3>2
    <3>4. QED
      BY <3>2, <3>3, ConcatEmptySeq
  <2>3. \A i \in 1..n : i # 1 => i - 1 \in 1..n
    BY <1>1
  <2>4. e = Following(e)
    <3>1. \A i \in 1..n : e[i] = IF i = 1 THEN pieces[i] ELSE e[i - 1] \o pieces[i]
      BY <1>2, <2>2, <2>3
    <3>2. QED
      BY <3>1
  <2>5. f = Following(f)
    <3> HIDE DEF e
    <3>1. \E x : x = Following(x)
      BY <2>4
    <3>2. QED
      BY <3>1
  <2> HIDE DEF f, e
  <2>6. \A i \in 1..n : f[i] = IF i = 1 THEN pieces[i] ELSE f[i - 1] \o pieces[i]
    BY <2>5
  <2> DEFINE T == {k \in Nat : k + 1 <= n => f[k + 1] = g[k + 1]}
  <2>7. 0 \in T
    <3>1. 1 \in 1..n /\ 0 + 1 = 1
      BY <1>1, <1>4
    <3>2. f[1] = g[1]
      BY <2>2, <2>6, <3>1
    <3>3. QED
      BY <3>1, <3>2
  <2>8. ASSUME NEW k \in Nat, k \in T PROVE k + 1 \in T
    <3>1. CASE (k + 1) + 1 <= n
      <4>1. k + 1 <= n /\ (k + 1) + 1 \in 1..n /\ ((k + 1) + 1) - 1 = k + 1 /\ (k + 1) + 1 # 1
        BY <1>1, <3>1
      <4>2. f[k + 1] = g[k + 1]
        BY <2>8, <4>1
      <4>3. f[(k + 1) + 1] = f[k + 1] \o pieces[(k + 1) + 1]
        BY <2>6, <4>1
      <4>4. g[(k + 1) + 1] = g[k + 1] \o pieces[(k + 1) + 1]
        BY <1>2, <4>1
      <4>5. f[(k + 1) + 1] = g[(k + 1) + 1]
        BY <4>2, <4>3, <4>4
      <4>6. QED
        BY <4>5
    <3>2. CASE ~((k + 1) + 1 <= n)
      BY <3>2
    <3>3. QED
      BY <3>1, <3>2
  <2>9. Nat \subseteq T
    <3> HIDE DEF T
    <3>1. QED
      BY <2>7, <2>8, SetInduction
  <2>10. n - 1 \in Nat /\ (n - 1) + 1 = n /\ n <= n
    BY <1>1, <1>4
  <2>11. n - 1 \in T
    BY <2>9, <2>10
  <2>12. f[(n - 1) + 1] = g[(n - 1) + 1]
    BY <2>10, <2>11
  <2>13. f[n] = g[n]
    BY <2>10, <2>12
  <2>14. QED
    BY <2>1, <2>13 DEF n
<1>5. QED
  BY <1>1, <1>3, <1>4

\* Each sum is the beginning of the last one.
LEMMA SumsArePrefixes ==
    ASSUME NEW S, NEW pieces \in Seq(Seq(S)), NEW g, Sums(g, pieces, S),
           NEW k \in 0..Len(pieces)
    PROVE  \E r \in Seq(S) : g[Len(pieces)] = g[k] \o r
<1> DEFINE n == Len(pieces)
<1>1. n \in Nat /\ \A i \in 1..n : pieces[i] \in Seq(S)
  OBVIOUS
<1>2. /\ g \in [0..n -> Seq(S)]
      /\ \A i \in 1..n : g[i] = g[i - 1] \o pieces[i]
  BY DEF Sums
<1> HIDE DEF n
<1> DEFINE Begins(i) == \E r \in Seq(S) : g[n] = g[i] \o r
           T == {m \in Nat : m <= n => Begins(n - m)}
<1>3. Begins(n)
  <2>1. g[n] \in Seq(S)
    BY <1>1, <1>2
  <2>2. << >> \in Seq(S) /\ g[n] = g[n] \o << >>
    BY <2>1, ConcatEmptySeq
  <2>3. QED
    BY <2>2
<1>4. ASSUME NEW i \in 1..n, Begins(i) PROVE Begins(i - 1)
  <2>1. PICK r \in Seq(S) : g[n] = g[i] \o r
    BY <1>4
  <2>2. g[i] = g[i - 1] \o pieces[i] /\ g[i - 1] \in Seq(S) /\ pieces[i] \in Seq(S)
    <3>1. i - 1 \in 0..n
      BY <1>1
    <3>2. g[i] = g[i - 1] \o pieces[i] /\ pieces[i] \in Seq(S)
      BY <1>1, <1>2
    <3>3. g[i - 1] \in Seq(S)
      BY <1>2, <3>1
    <3>4. QED
      BY <3>2, <3>3
  <2>3. g[n] = g[i - 1] \o (pieces[i] \o r)
    <3> DEFINE a == g[i - 1]
               b == pieces[i]
    <3>1. g[n] = (a \o b) \o r
      BY <2>1, <2>2
    <3>2. a \in Seq(S) /\ b \in Seq(S)
      BY <2>2
    <3> HIDE DEF a, b
    <3>3. (a \o b) \o r = a \o (b \o r)
      BY <3>2, ConcatAssociative
    <3>4. QED
      BY <3>1, <3>3 DEF a, b
  <2>4. pieces[i] \o r \in Seq(S)
    BY <2>1, <2>2, ConcatProperties
  <2>5. QED
    BY <2>3, <2>4
<1> HIDE DEF Begins
<1>5. Nat \subseteq T
  <2>1. 0 \in T
    <3>1. n - 0 = n
      BY <1>1
    <3>2. QED
      BY <1>3, <3>1
  <2>2. ASSUME NEW m \in Nat, m \in T PROVE m + 1 \in T
    <3>1. CASE m + 1 <= n
      <4>1. m <= n /\ n - m \in 1..n /\ (n - m) - 1 = n - (m + 1)
        BY <1>1, <3>1
      <4>2. Begins(n - m)
        BY <2>2, <4>1
      <4>3. Begins((n - m) - 1)
        BY <1>4, <4>1, <4>2
      <4>4. Begins(n - (m + 1))
        BY <4>1, <4>3
      <4>5. QED
        BY <4>4
    <3>2. CASE ~(m + 1 <= n)
      BY <3>2
    <3>3. QED
      BY <3>1, <3>2
  <2> HIDE DEF T
  <2>3. QED
    BY <2>1, <2>2, SetInduction
<1>6. n - k \in Nat /\ n - k <= n /\ n - (n - k) = k
  BY <1>1 DEF n
<1>7. n - k \in T
  BY <1>5, <1>6
<1>8. Begins(n - (n - k))
  BY <1>6, <1>7
<1>9. Begins(k)
  BY <1>6, <1>8
<1>10. QED
  BY <1>9 DEF Begins, n

\* A sequence is a beginning of what continues it.
LEMMA PrefixOfConcat ==
    ASSUME NEW S, NEW s \in Seq(S), NEW r \in Seq(S)
    PROVE  IsPrefix(s, s \o r)
<1>1. /\ s \o r \in Seq(S) /\ Len(s \o r) = Len(s) + Len(r)
      /\ \A i \in 1..Len(s) : (s \o r)[i] = s[i]
  BY ConcatProperties
<1>2. Len(s) \in Nat /\ Len(r) \in Nat
  OBVIOUS
<1>3. SubSeq(s, 1, Len(s)) = s
  BY SubSeqFull
<1>4. SubSeq(s \o r, 1, Len(s)) = s
  <2> DEFINE t == SubSeq(s \o r, 1, Len(s))
  <2>1. /\ t \in Seq(S) /\ Len(t) = Len(s) /\ \A i \in 1..Len(s) : t[i] = (s \o r)[i]
    BY <1>1, <1>2, SubSeqProperties
  <2> HIDE DEF t
  <2>2. t = s
    BY <1>1, <2>1, SeqEqual
  <2>3. QED
    BY <2>2 DEF t
<1>5. QED
  BY <1>1, <1>2, <1>3, <1>4 DEF IsPrefix

-----------------------------------------------------------------------------
(***************************************************************************)
(* What the operators make of sequences.                                   *)
(***************************************************************************)

\* Those of the elements that are in S.
LEMMA AmongType ==
    ASSUME NEW U, NEW s \in Seq(U), NEW S
    PROVE  Among(s, S) \in Seq(S)
<1> DEFINE pieces == [i \in DOMAIN s |-> IF s[i] \in S THEN <<s[i]>> ELSE << >>]
<1>1. DOMAIN s = 1..Len(s) /\ Len(s) \in Nat
  OBVIOUS
<1>2. \A i \in DOMAIN s : pieces[i] \in Seq(S)
  OBVIOUS
<1>3. pieces \in Seq(Seq(S)) /\ Len(pieces) = Len(s)
  BY <1>1, <1>2, IsASeq
<1>4. Among(s, S) = FlattenSeq(pieces)
  BY DEF Among
<1> HIDE DEF pieces
<1>5. PICK g : Sums(g, pieces, S)
  BY <1>3, SumsExist
<1>6. FlattenSeq(pieces) = g[Len(pieces)]
  BY <1>3, <1>5, SumsFlatten
<1>7. Len(pieces) \in 0..Len(pieces)
  BY <1>1, <1>3
<1>8. QED
  BY <1>4, <1>5, <1>6, <1>7 DEF Sums

\* Sums that come to nothing are nothing all along.
LEMMA SumsEmpty ==
    ASSUME NEW S, NEW pieces \in Seq(Seq(S)), NEW g, Sums(g, pieces, S),
           NEW k \in 0..Len(pieces)
    PROVE  g[k] \in Seq(S) /\ (g[Len(pieces)] = << >> => Len(g[k]) = 0)
<1>1. PICK r \in Seq(S) : g[Len(pieces)] = g[k] \o r
  BY SumsArePrefixes, ZenonT(30)
<1>2. g[k] \in Seq(S)
  BY DEF Sums
<1>3. Len(g[k] \o r) = Len(g[k]) + Len(r) /\ Len(g[k]) \in Nat /\ Len(r) \in Nat
  <2> DEFINE a == g[k]
  <2>1. a \in Seq(S)
    BY <1>2
  <2> HIDE DEF a
  <2>2. Len(a \o r) = Len(a) + Len(r) /\ Len(a) \in Nat /\ Len(r) \in Nat
    BY <2>1, ConcatProperties
  <2>3. QED
    BY <2>2 DEF a
<1>4. Len(<< >>) = 0
  OBVIOUS
<1>5. QED
  BY <1>1, <1>2, <1>3, <1>4

\* When there are none, none of the elements is in S.
LEMMA AmongNone ==
    ASSUME NEW U, NEW s \in Seq(U), NEW S, Among(s, S) = << >>
    PROVE  \A i \in 1..Len(s) : s[i] \notin S
<1> DEFINE pieces == [i \in DOMAIN s |-> IF s[i] \in S THEN <<s[i]>> ELSE << >>]
<1>1. DOMAIN s = 1..Len(s) /\ Len(s) \in Nat
  OBVIOUS
<1>2. \A i \in DOMAIN s : pieces[i] \in Seq(S)
  OBVIOUS
<1>3. pieces \in Seq(Seq(S)) /\ Len(pieces) = Len(s)
  BY <1>1, <1>2, IsASeq
<1>4. Among(s, S) = FlattenSeq(pieces)
  BY DEF Among
<1>5. \A i \in 1..Len(s) : s[i] \in S => pieces[i] = <<s[i]>>
  BY <1>1
<1> HIDE DEF pieces
<1>6. PICK g : Sums(g, pieces, S)
  BY <1>3, SumsExist
<1>7. g[Len(pieces)] = << >>
  BY <1>3, <1>4, <1>6, SumsFlatten
<1>8. \A k \in 0..Len(pieces) : g[k] \in Seq(S) /\ Len(g[k]) = 0
  BY <1>3, <1>6, <1>7, SumsEmpty
<1>9. ASSUME NEW i \in 1..Len(s), s[i] \in S PROVE FALSE
  <2>1. i \in 1..Len(pieces) /\ i \in 0..Len(pieces) /\ i - 1 \in 0..Len(pieces)
    BY <1>1, <1>3
  <2>2. pieces[i] = <<s[i]>> /\ g[i] = g[i - 1] \o pieces[i]
    BY <1>5, <1>6, <1>9, <2>1 DEF Sums
  <2>3. Len(g[i]) = 0 /\ g[i - 1] \in Seq(S) /\ Len(g[i - 1]) = 0
    BY <1>8, <2>1
  <2>4. <<s[i]>> \in Seq(S) /\ Len(<<s[i]>>) = 1
    BY <1>9
  <2>5. Len(g[i - 1] \o <<s[i]>>) = Len(g[i - 1]) + Len(<<s[i]>>)
    BY <2>3, <2>4, ConcatProperties
  <2>6. QED
    BY <2>2, <2>3, <2>4, <2>5
<1>10. QED
  BY <1>9

\* Rendering leaves a sequence of blocks.
LEMMA RenderType ==
    ASSUME NEW blocks \in Seq(Block), NEW details
    PROVE  Render(blocks, details) \in Seq(Block)
<1> DEFINE S == IF details.notes THEN Block ELSE Block \ {"notes"}
<1>1. Among(blocks, S) \in Seq(S)
  BY AmongType
<1>2. S \subseteq Block
  OBVIOUS
<1>3. QED
  BY <1>1, <1>2, SeqMonotonic DEF Render

\* The gallery is of enabled rows of the listing.
LEMMA GalleryType ==
    ASSUME NEW l, NEW parts
    PROVE  /\ GalleryOf(l, parts) \in Seq(Files)
           /\ \A f \in ToSet(GalleryOf(l, parts)) :
                 f \in Files /\ ListingOf[f] = l /\ media[f].state = "enabled"
<1> DEFINE S == {f \in Files : ListingOf[f] = l /\ media[f].state = "enabled"}
<1>1. Among(FileOrder, S) \in Seq(S)
  BY AmongType, ListingAssumption
<1>2. << >> \in Seq(S)
  OBVIOUS
<1>3. GalleryOf(l, parts) \in Seq(S)
  BY <1>1, <1>2 DEF GalleryOf, Gallery
<1>4. GalleryOf(l, parts) \in Seq(Files)
  BY <1>3, SeqMonotonic
<1>5. \A f \in ToSet(GalleryOf(l, parts)) : f \in S
  BY <1>3 DEF ToSet
<1>6. QED
  BY <1>4, <1>5

\* The pieces of a reply, part by part.
LEMMA PiecesType ==
    ASSUME NEW parts \in Seq(Block), NEW files \in Seq(Files)
    PROVE  /\ Pieces(parts, files) \in Seq(Seq(Block \cup Files))
           /\ Len(Pieces(parts, files)) = Len(parts)
           /\ \A i \in 1..Len(parts) :
                 /\ parts[i] = "delay" => Pieces(parts, files)[i] = << >>
                 /\ parts[i] = "gallery" =>
                       Pieces(parts, files)[i] =
                          IF \E j \in 1..(i - 1) : parts[j] = "gallery" THEN << >> ELSE files
                 /\ parts[i] \notin {"delay", "gallery"} => Pieces(parts, files)[i] = <<parts[i]>>
<1> DEFINE pieces == Pieces(parts, files)
<1>1. DOMAIN parts = 1..Len(parts) /\ Len(parts) \in Nat
  OBVIOUS
<1>2. pieces = [i \in 1..Len(parts) |-> pieces[i]]
  BY <1>1 DEF Pieces
<1>3. \A i \in 1..Len(parts) :
          /\ parts[i] = "delay" => pieces[i] = << >>
          /\ parts[i] = "gallery" =>
                pieces[i] = IF \E j \in 1..(i - 1) : parts[j] = "gallery" THEN << >> ELSE files
          /\ parts[i] \notin {"delay", "gallery"} => pieces[i] = <<parts[i]>>
  BY <1>1 DEF Pieces
<1>4. ASSUME NEW i \in 1..Len(parts) PROVE pieces[i] \in Seq(Block \cup Files)
  <2>1. parts[i] \in Block
    OBVIOUS
  <2>2. files \in Seq(Block \cup Files)
    BY SeqMonotonic
  <2>3. <<parts[i]>> \in Seq(Block \cup Files) /\ << >> \in Seq(Block \cup Files)
    BY <2>1
  <2> HIDE DEF pieces
  <2>4. QED
    BY <1>3, <2>2, <2>3
<1> HIDE DEF pieces
<1>5. pieces \in Seq(Seq(Block \cup Files)) /\ Len(pieces) = Len(parts)
  BY <1>1, <1>2, <1>4, IsASeq
<1>6. QED
  BY <1>3, <1>5 DEF pieces

-----------------------------------------------------------------------------
(***************************************************************************)
(* The initial states.                                                     *)
(***************************************************************************)

\* The reply that stands for none.
LEMMA NoReplyTypes ==
    /\ NoReply \in Reply /\ NoReply.pc = "idle" /\ NoReply.outcome = "none"
    /\ NoReply.parts = << >> /\ NoReply.files = << >> /\ NoReply.next = 1
    /\ NoReply.queue = << >> /\ NoReply.sent = << >> /\ NoReply.mediaSent = FALSE
<1>1. (CHOOSE l \in Listings : TRUE) \in Listings
  BY ListingAssumption
<1>2. NoListing \in ListingRow
  BY DEF ListingRow
<1>3. "none" \in Outcome /\ 1 \in Nat
  BY DEF Outcome
<1>4. << >> \in Seq(Block) /\ << >> \in Seq(Files) /\ << >> \in Seq(Block \cup Files)
  OBVIOUS
<1>5. QED
  BY <1>1, <1>2, <1>3, <1>4 DEF NoReply, Reply

\* What can be said of a reply before its first part.
LEMMA FirstPart ==
    ASSUME NEW r, r.parts \in Seq(Block), r.files \in Seq(Files), r.next = 1,
           r.queue = << >>, r.sent = << >>, r.mediaSent = FALSE, r.outcome = "none"
    PROVE  Delivered(r)
<1> DEFINE pieces == Pieces(r.parts, r.files)
<1>1. pieces \in Seq(Seq(Block \cup Files)) /\ Len(pieces) = Len(r.parts)
  BY PiecesType
<1>2. Deliveries(r.parts, r.files) = FlattenSeq(pieces)
  BY DEF Deliveries
<1> HIDE DEF pieces
<1>3. PICK g : Sums(g, pieces, Block \cup Files)
  BY <1>1, SumsExist
<1>4. g[Len(pieces)] = FlattenSeq(pieces) /\ g[0] = << >>
  BY <1>1, <1>3, SumsFlatten DEF Sums
<1>5. r.next - 1 = 0 /\ Len(r.parts) \in Nat
  OBVIOUS
<1>6. ~\E j \in 1..(r.next - 1) : r.parts[j] = "gallery"
  BY <1>5
<1>7. r.sent \o r.queue = << >>
  OBVIOUS
<1>8. r.next \in 1..(Len(r.parts) + 1)
  BY <1>5
<1>9. SentUpTo(g, r)
  <2>1. g[Len(r.parts)] = Deliveries(r.parts, r.files)
    BY <1>1, <1>2, <1>4
  <2>2. r.sent \o r.queue = g[r.next - 1]
    BY <1>4, <1>5, <1>7
  <2>3. QED
    BY <1>6, <1>8, <2>1, <2>2 DEF SentUpTo
<1>10. QED
  BY <1>3, <1>9 DEF Delivered, pieces

\* The validation lets an empty Playbook through, and the starter Playbook.
LEMMA AcceptedBlocks ==
    /\ Accepted(<< >>) /\ Accepted(Starter) /\ Accepted(NoPlaybook.blocks)
<1>1. \A i \in 1..Len(Starter) : Starter[i] # "unsupported"
  BY ListingAssumption
<1>2. NoPlaybook.blocks = << >> /\ Len(<< >>) = 0
  BY DEF NoPlaybook
<1>3. QED
  BY <1>1, <1>2 DEF Accepted, Contains

\* The rows that stand for none, and what is written without the operator.
LEMMA RowTypes ==
    /\ NoListing \in ListingRow /\ NoPlaybook \in PlaybookRow /\ NoMedia \in MediaRow
    /\ StarterRow \in Contents /\ StarterRow.blocks = Starter
    /\ \A id \in Ids : [id |-> id, state |-> "enabled", blocks |-> Starter] \in PlaybookRow
<1>1. Starter \in Seq(Block)
  BY ListingAssumption, SeqMonotonic
<1>2. QED
  BY <1>1 DEF ListingRow, PlaybookRow, MediaRow, StarterRow, Contents, Switch

\* What rows hold.
LEMMA RowFields ==
    /\ \A row \in PlaybookRow : row.blocks \in Seq(Block)
    /\ \A row \in ListingRow : row.notes \in BOOLEAN
<1>1. << >> \in Seq(Block)
  OBVIOUS
<1>2. NoPlaybook.blocks = << >> /\ NoListing.notes \in BOOLEAN
  BY DEF NoPlaybook, NoListing
<1>3. QED
  BY <1>1, <1>2 DEF PlaybookRow, ListingRow

\* The ids of rows: those that stand for none have no id.
LEMMA RowIds ==
    /\ \A row \in ListingRow : row.id \in Ids <=> row # NoListing
    /\ \A row \in PlaybookRow : row.id \in Ids <=> row # NoPlaybook
    /\ \A row \in MediaRow : row.id \in Ids <=> row # NoMedia
    /\ 0 \notin Ids /\ NoListing.id = 0 /\ NoPlaybook.id = 0 /\ NoMedia.id = 0
BY DEF ListingRow, PlaybookRow, MediaRow, NoListing, NoPlaybook, NoMedia, Ids

\* The invariant holds at first.
LEMMA InitInv == Init => ListingInv
<1> SUFFICES ASSUME Init PROVE ListingInv
  OBVIOUS
<1>1. /\ listing \in [Listings -> ListingRow] /\ media \in [Files -> MediaRow]
      /\ disk \in SUBSET Files /\ pending = {} /\ reply = NoReply
      /\ budget = [replies |-> 0, operations |-> 0]
  BY DEF Init
<1>2. playbook \in [Listings -> {NoPlaybook} \cup
                        [id : Ids, state : Switch, blocks : {b \in Payloads : Accepted(b)}]]
  BY DEF Init
<1>3. ASSUME NEW row \in {NoPlaybook} \cup
                        [id : Ids, state : Switch, blocks : {b \in Payloads : Accepted(b)}]
      PROVE  row \in PlaybookRow /\ Accepted(row.blocks)
  BY RowTypes, AcceptedBlocks, ListingAssumption DEF PlaybookRow
<1>4. playbook \in [Listings -> PlaybookRow] /\ \A l \in Listings : Accepted(playbook[l].blocks)
  <2>1. \A l \in Listings : playbook[l] \in PlaybookRow /\ Accepted(playbook[l].blocks)
    BY <1>2, <1>3
  <2>2. playbook = [l \in Listings |-> playbook[l]]
    BY <1>2
  <2>3. QED
    BY <2>1, <2>2
<1>5. TypeOK
  BY <1>1, <1>4, NoReplyTypes, ListingAssumption DEF TypeOK
<1>6. ReplyInv
  BY <1>1, NoReplyTypes DEF ReplyInv
<1>7. PlaybookInv /\ FilesInv
  BY <1>1, <1>4 DEF PlaybookInv, FilesInv
<1>8. Delivered(reply)
  <2>1. << >> \in Seq(Block) /\ << >> \in Seq(Files)
    OBVIOUS
  <2>2. QED
    BY <1>1, <2>1, NoReplyTypes, FirstPart
<1>9. RowsStandBehindReply /\ FilesAreThere
  BY <1>1, NoReplyTypes DEF RowsStandBehindReply, FilesAreThere
<1>10. QED
  BY <1>5, <1>6, <1>7, <1>8, <1>9 DEF ListingInv

-----------------------------------------------------------------------------
(***************************************************************************)
(* The steps of a reply.                                                   *)
(***************************************************************************)

\* The request ends.
LEMMA EndStep ==
    ASSUME ListingInv, NEW outcome \in Outcome, End(outcome), ReplyOnly,
           outcome = "sent" => reply.queue = << >> /\ reply.next = Len(reply.parts) + 1
    PROVE  ListingInv'
<1>1. /\ UNCHANGED <<listing, playbook, media, disk, pending, budget>>
      /\ reply' = [reply EXCEPT !.pc = "idle", !.locked = FALSE, !.outcome = outcome]
  BY DEF End, ReplyOnly
<1>2. TypeOK /\ PlaybookInv /\ FilesInv /\ Delivered(reply)
  BY DEF ListingInv
<1>3. reply \in Reply
  BY <1>2 DEF TypeOK
<1>4. /\ reply' \in Reply /\ reply'.pc = "idle" /\ reply'.outcome = outcome
      /\ reply'.parts = reply.parts /\ reply'.files = reply.files /\ reply'.next = reply.next
      /\ reply'.queue = reply.queue /\ reply'.sent = reply.sent
      /\ reply'.mediaSent = reply.mediaSent
  BY <1>1, <1>3 DEF Reply
<1>5. TypeOK'
  BY <1>1, <1>2, <1>4 DEF TypeOK
<1>6. ReplyInv' /\ RowsStandBehindReply' /\ FilesAreThere'
  BY <1>4 DEF ReplyInv, RowsStandBehindReply, FilesAreThere
<1>7. PlaybookInv' /\ FilesInv'
  BY <1>1, <1>2 DEF PlaybookInv, FilesInv
<1>8. Delivered(reply')
  <2>1. PICK g : Sums(g, Pieces(reply.parts, reply.files), Block \cup Files) /\ SentUpTo(g, reply)
    BY <1>2 DEF Delivered
  <2>2. SentUpTo(g, reply')
    BY <1>4, <2>1 DEF SentUpTo
  <2>3. Sums(g, Pieces(reply'.parts, reply'.files), Block \cup Files)
    BY <1>4, <2>1
  <2>4. QED
    BY <2>2, <2>3 DEF Delivered
<1>9. QED
  BY <1>5, <1>6, <1>7, <1>8 DEF ListingInv

\* A batch is matched to a listing.
LEMMA MatchStep ==
    ASSUME ListingInv, NEW l \in Listings, Match(l)
    PROVE  ListingInv'
<1>1. TypeOK /\ PlaybookInv /\ FilesInv
  BY DEF ListingInv
<1>2. /\ UNCHANGED <<listing, playbook, media, disk, pending>>
      /\ budget.replies < MaxReplies /\ budget' = [budget EXCEPT !.replies = @ + 1]
  BY DEF Match
<1>3. PICK kind \in {"whatsapp", "fake_chat"}, replayed \in BOOLEAN :
          reply' = [NoReply EXCEPT !.pc = "matched", !.kind = kind, !.listing = l,
                                   !.locked = ~replayed, !.replayed = replayed,
                                   !.held = listing[l]]
  BY DEF Match
<1>4. /\ reply' \in Reply /\ reply'.pc = "matched" /\ reply'.outcome = "none"
      /\ reply'.listing = l /\ reply'.locked = ~replayed /\ reply'.replayed = replayed
      /\ reply'.held = listing[l]
      /\ reply'.parts = << >> /\ reply'.files = << >> /\ reply'.next = 1
      /\ reply'.queue = << >> /\ reply'.sent = << >> /\ reply'.mediaSent = FALSE
  <2>1. listing[l] \in ListingRow
    BY <1>1 DEF TypeOK
  <2>2. (~replayed) \in BOOLEAN
    OBVIOUS
  <2>3. QED
    BY <1>3, <2>1, <2>2, NoReplyTypes DEF Reply
<1>5. TypeOK'
  <2>1. budget' \in [replies : 0..MaxReplies, operations : 0..MaxOperations]
    BY <1>1, <1>2, ListingAssumption DEF TypeOK
  <2>2. QED
    BY <1>1, <1>2, <1>4, <2>1 DEF TypeOK
<1>6. ReplyInv'
  BY <1>2, <1>4 DEF ReplyInv
<1>7. PlaybookInv' /\ FilesInv'
  BY <1>1, <1>2 DEF PlaybookInv, FilesInv, TypeOK
<1>8. Delivered(reply')
  <2>1. << >> \in Seq(Block) /\ << >> \in Seq(Files)
    OBVIOUS
  <2>2. QED
    BY <1>4, <2>1, FirstPart
<1>9. RowsStandBehindReply' /\ FilesAreThere'
  BY <1>4 DEF RowsStandBehindReply, FilesAreThere
<1>10. QED
  BY <1>5, <1>6, <1>7, <1>8, <1>9 DEF ListingInv

\* The listing stops the batch: an operator looks at it.
LEMMA ListingManualReviewStep ==
    ASSUME ListingInv, ListingManualReview
    PROVE  ListingInv'
<1>1. "manual_review" \in Outcome
  BY DEF Outcome
<1>2. QED
  BY <1>1, EndStep DEF ListingManualReview

\* The listing does not: the request has the write transaction.
LEMMA ListingAvailableStep ==
    ASSUME ListingInv, ListingAvailable
    PROVE  ListingInv'
<1>1. /\ UNCHANGED <<listing, playbook, media, disk, pending, budget>>
      /\ reply.pc = "matched" /\ reply.held.status \notin Stops
      /\ reply' = [reply EXCEPT !.pc = "plan", !.locked = TRUE]
  BY DEF ListingAvailable, ReplyOnly
<1>2. TypeOK /\ ReplyInv /\ PlaybookInv /\ FilesInv /\ Delivered(reply)
  BY DEF ListingInv
<1>3. reply \in Reply
  BY <1>2 DEF TypeOK
<1>4. /\ reply' \in Reply /\ reply'.pc = "plan" /\ reply'.locked = TRUE
      /\ reply'.outcome = reply.outcome /\ reply'.listing = reply.listing
      /\ reply'.held = reply.held /\ reply'.replayed = reply.replayed
      /\ reply'.parts = reply.parts /\ reply'.files = reply.files /\ reply'.next = reply.next
      /\ reply'.queue = reply.queue /\ reply'.sent = reply.sent
      /\ reply'.mediaSent = reply.mediaSent
  BY <1>1, <1>3 DEF Reply
<1>5. TypeOK'
  BY <1>1, <1>2, <1>4 DEF TypeOK
<1>6. ReplyInv'
  BY <1>1, <1>2, <1>4 DEF ReplyInv
<1>7. RowsStandBehindReply' /\ FilesAreThere'
  BY <1>4 DEF RowsStandBehindReply, FilesAreThere
<1>8. PlaybookInv' /\ FilesInv'
  BY <1>1, <1>2 DEF PlaybookInv, FilesInv
<1>9. Delivered(reply')
  <2>1. << >> \in Seq(Block) /\ << >> \in Seq(Files)
    OBVIOUS
  <2>2. /\ reply'.parts = << >> /\ reply'.files = << >> /\ reply'.next = 1
        /\ reply'.queue = << >> /\ reply'.sent = << >> /\ reply'.outcome = "none"
    BY <1>1, <1>2, <1>4 DEF ReplyInv
  <2>3. reply'.mediaSent = FALSE
    BY <1>1, <1>2, <1>3, <1>4 DEF ReplyInv, Reply
  <2>4. QED
    BY <2>1, <2>2, <2>3, FirstPart
<1>10. QED
  BY <1>5, <1>6, <1>7, <1>8, <1>9 DEF ListingInv

\* No reply: nothing planned, a gate, or a text that is refused.
LEMMA NoReplyStep ==
    ASSUME ListingInv, PlanNothing \/ SendGated \/ CannotRender
    PROVE  ListingInv'
<1>1. "not_attempted" \in Outcome /\ "gated" \in Outcome /\ "unrenderable" \in Outcome
  BY DEF Outcome
<1>2. CASE PlanNothing
  BY <1>1, <1>2, EndStep DEF PlanNothing
<1>3. CASE SendGated
  BY <1>1, <1>3, EndStep DEF SendGated
<1>4. CASE CannotRender
  BY <1>1, <1>4, EndStep DEF CannotRender
<1>5. QED
  BY <1>2, <1>3, <1>4

\* The plan is rendered: the rows are those of now.
LEMMA RenderReplyStep ==
    ASSUME ListingInv, RenderReply
    PROVE  ListingInv'
<1>1. PICK details \in Shown :
          LET parts == Render(playbook[reply.listing].blocks, details)
          IN  \/ parts = << >> /\ End("empty")
              \/ parts # << >> /\ MissingMedia(parts) /\ End("media_missing")
              \/ /\ parts # << >> /\ ~MissingMedia(parts)
                 /\ reply' = [reply EXCEPT !.pc = "send", !.parts = parts,
                                           !.files = GalleryOf(reply.listing, parts)]
  BY DEF RenderReply
<1> DEFINE parts == Render(playbook[reply.listing].blocks, details)
           files == GalleryOf(reply.listing, parts)
<1>2. Planned /\ ReplyOnly
  BY DEF RenderReply
<1>3. "empty" \in Outcome /\ "media_missing" \in Outcome
  BY DEF Outcome
<1>4. CASE End("empty") \/ End("media_missing")
  BY <1>2, <1>3, <1>4, EndStep
<1>5. ASSUME ~MissingMedia(parts),
             reply' = [reply EXCEPT !.pc = "send", !.parts = parts, !.files = files]
      PROVE  ListingInv'
  <2>1. TypeOK /\ ReplyInv /\ PlaybookInv /\ FilesInv
    BY DEF ListingInv
  <2>2. reply \in Reply /\ reply.listing \in Listings
    BY <2>1 DEF TypeOK, Reply
  <2>3. /\ UNCHANGED <<listing, playbook, media, disk, pending, budget>>
        /\ reply.pc = "plan" /\ playbook[reply.listing].state = "enabled"
    BY <1>2 DEF ReplyOnly, Planned, HasPlaybookAction
  <2>4. playbook[reply.listing].blocks \in Seq(Block)
    BY <2>1, <2>2, RowFields DEF TypeOK
  <2>5. parts \in Seq(Block)
    BY <2>4, RenderType
  <2>6. files \in Seq(Files)
    BY GalleryType
  <2>7. details.notes \in BOOLEAN
    <3>1. listing[reply.listing].notes \in BOOLEAN /\ reply.held.notes \in BOOLEAN
      BY <2>1, <2>2, RowFields DEF TypeOK, Reply
    <3>2. NoListing.notes \in BOOLEAN
      BY DEF NoListing
    <3>3. details = reply.held \/ details = listing[reply.listing] \/ details = NoListing
      BY DEF Shown
    <3>4. QED
      BY <3>1, <3>2, <3>3
  <2>8. parts = Render(playbook[reply.listing].blocks, [notes |-> details.notes])
    BY DEF Render
  <2>9. reply.replayed \/ details = listing[reply.listing]
    <3>1. ASSUME ~reply.replayed PROVE details = listing[reply.listing]
      <4>1. listing[reply.listing] = reply.held /\ reply.held.status \notin Stops
        BY <2>1, <2>3, <3>1 DEF ReplyInv
      <4>2. Exists(reply.listing)
        BY <4>1 DEF Exists, NoListing, Stops
      <4>3. QED
        BY <4>1, <4>2 DEF Shown
    <3>2. QED
      BY <3>1
  <2>10. reply.kind = "whatsapp" =>
            \A f \in ToSet(files) : f \in disk /\ Spelling[f] \in {"absolute", "relative"}
    BY <1>5 DEF MissingMedia, BackendFinds
  <2>11. files = GalleryOf(reply.listing, parts)
    OBVIOUS
  <2>12. reply.replayed \/ parts = Render(playbook[reply.listing].blocks, listing[reply.listing])
    BY <2>9
  <2> HIDE DEF parts, files
  <2>13. /\ reply' \in Reply /\ reply'.pc = "send" /\ reply'.parts = parts
         /\ reply'.files = files /\ reply'.kind = reply.kind
         /\ reply'.locked = reply.locked /\ reply'.outcome = reply.outcome
         /\ reply'.listing = reply.listing
         /\ reply'.held = reply.held /\ reply'.replayed = reply.replayed
         /\ reply'.next = reply.next /\ reply'.queue = reply.queue
         /\ reply'.sent = reply.sent /\ reply'.mediaSent = reply.mediaSent
    BY <1>5, <2>2, <2>5, <2>6 DEF Reply
  <2>14. TypeOK'
    BY <2>1, <2>3, <2>13 DEF TypeOK
  <2>15. ReplyInv'
    BY <2>1, <2>3, <2>13 DEF ReplyInv
  <2>16. PlaybookInv' /\ FilesInv'
    BY <2>1, <2>3 DEF PlaybookInv, FilesInv
  <2>17. Delivered(reply')
    <3>1. /\ reply'.next = 1 /\ reply'.queue = << >> /\ reply'.sent = << >>
          /\ reply'.outcome = "none"
      BY <2>1, <2>3, <2>13 DEF ReplyInv
    <3>2. reply'.mediaSent = FALSE
      BY <2>1, <2>2, <2>3, <2>13 DEF ReplyInv, Reply
    <3>3. QED
      BY <2>5, <2>6, <2>13, <3>1, <3>2, FirstPart
  <2>18. RowsStandBehindReply'
    <3>1. reply'.files = GalleryOf(reply.listing, reply.parts)'
      <4>1. files = GalleryOf(reply'.listing, reply'.parts)
        BY <2>11, <2>13
      <4>2. QED
        BY <2>3, <2>13, <4>1 DEF GalleryOf, Gallery
    <3>2. playbook'[reply'.listing].state = "enabled"
      BY <2>3, <2>13
    <3>3. reply'.held.status \notin Stops
      BY <2>1, <2>3, <2>13 DEF ReplyInv
    <3>4. parts \in {Render(playbook'[reply'.listing].blocks, [notes |-> notes]) :
                        notes \in BOOLEAN}
      BY <2>3, <2>7, <2>8, <2>13
    <3>5. ~reply'.replayed => listing'[reply'.listing] = reply'.held
      BY <2>1, <2>3, <2>13 DEF ReplyInv
    <3>6. ~reply'.replayed =>
             reply'.parts = Render(playbook'[reply'.listing].blocks, listing'[reply'.listing])
      BY <2>3, <2>12, <2>13
    <3>7. reply'.parts \in
             {Render(playbook'[reply'.listing].blocks, [notes |-> notes]) : notes \in BOOLEAN}
      BY <2>13, <3>4
    <3>8. QED
      BY <3>1, <3>2, <3>3, <3>5, <3>6, <3>7 DEF RowsStandBehindReply
  <2>19. FilesAreThere'
    BY <2>3, <2>10, <2>13 DEF FilesAreThere, BridgeFinds
  <2>20. QED
    BY <2>14, <2>15, <2>16, <2>17, <2>18, <2>19 DEF ListingInv
<1>6. QED
  BY <1>1, <1>4, <1>5

-----------------------------------------------------------------------------
(***************************************************************************)
(* The parts of a reply.                                                   *)
(***************************************************************************)

\* A step while the reply is being sent: the plan stays, the rows too.
LEMMA SendingStep ==
    ASSUME ListingInv, reply.pc = "send", ReplyOnly,
           NEW n \in Nat, NEW q \in Seq(Files), NEW m \in BOOLEAN, NEW s \in Seq(Block \cup Files),
           reply' = [reply EXCEPT !.next = n, !.queue = q, !.mediaSent = m, !.sent = s],
           n \in 1..(Len(reply.parts) + 1),
           m <=> \E j \in 1..(n - 1) : reply.parts[j] = "gallery",
           \A g : Sums(g, Pieces(reply.parts, reply.files), Block \cup Files)
                    /\ SentUpTo(g, reply) => s \o q = g[n - 1]
    PROVE  ListingInv'
<1>1. UNCHANGED <<listing, playbook, media, disk, pending, budget>>
  BY DEF ReplyOnly
<1>2. /\ TypeOK /\ ReplyInv /\ PlaybookInv /\ FilesInv /\ Delivered(reply)
      /\ RowsStandBehindReply /\ FilesAreThere
  BY DEF ListingInv
<1>3. reply \in Reply
  BY <1>2 DEF TypeOK
<1>4. /\ reply' \in Reply /\ reply'.pc = "send" /\ reply'.kind = reply.kind
      /\ reply'.locked = reply.locked /\ reply'.outcome = reply.outcome
      /\ reply'.listing = reply.listing
      /\ reply'.held = reply.held /\ reply'.replayed = reply.replayed
      /\ reply'.parts = reply.parts /\ reply'.files = reply.files
      /\ reply'.next = n /\ reply'.queue = q /\ reply'.mediaSent = m /\ reply'.sent = s
  BY <1>3 DEF Reply
<1>5. TypeOK'
  BY <1>1, <1>2, <1>4 DEF TypeOK
<1>6. ReplyInv'
  BY <1>1, <1>2, <1>4 DEF ReplyInv
<1>7. PlaybookInv' /\ FilesInv'
  BY <1>1, <1>2 DEF PlaybookInv, FilesInv
<1>8. Delivered(reply')
  <2>1. PICK g : Sums(g, Pieces(reply.parts, reply.files), Block \cup Files) /\ SentUpTo(g, reply)
    BY <1>2 DEF Delivered
  <2>2. reply'.outcome # "sent"
    BY <1>2, <1>4 DEF ReplyInv
  <2>3. s \o q = g[n - 1]
    BY <2>1
  <2>4. g[Len(reply.parts)] = Deliveries(reply.parts, reply.files)
    BY <2>1 DEF SentUpTo
  <2>5. SentUpTo(g, reply')
    BY <1>4, <2>2, <2>3, <2>4 DEF SentUpTo
  <2>6. Sums(g, Pieces(reply'.parts, reply'.files), Block \cup Files)
    BY <1>4, <2>1
  <2>7. QED
    BY <2>5, <2>6 DEF Delivered
<1>9. RowsStandBehindReply'
  <2>1. GalleryOf(reply.listing, reply.parts)' = GalleryOf(reply.listing, reply.parts)
    BY <1>1, <1>4 DEF GalleryOf, Gallery
  <2>2. QED
    BY <1>1, <1>2, <1>4, <2>1 DEF RowsStandBehindReply
<1>10. FilesAreThere'
  BY <1>1, <1>2, <1>4 DEF FilesAreThere, BridgeFinds
<1>11. QED
  BY <1>5, <1>6, <1>7, <1>8, <1>9, <1>10 DEF ListingInv

\* The reply, typed, and its next part.
LEMMA NextPart ==
    ASSUME ListingInv, Sending
    PROVE  /\ reply \in Reply /\ reply.pc = "send" /\ reply.queue = << >>
           /\ reply.next \in 1..Len(reply.parts) /\ Len(reply.parts) \in Nat
           /\ reply.next \in Nat /\ reply.next + 1 \in Nat /\ (reply.next + 1) - 1 = reply.next
           /\ reply.next + 1 \in 1..(Len(reply.parts) + 1)
           /\ Part \in Block /\ Part = reply.parts[reply.next]
           /\ reply.mediaSent \in BOOLEAN
           /\ reply.sent \in Seq(Block \cup Files) /\ reply.sent \o << >> = reply.sent
           /\ reply.files \in Seq(Files) /\ reply.parts \in Seq(Block)
           /\ reply.mediaSent <=> \E j \in 1..(reply.next - 1) : reply.parts[j] = "gallery"
           /\ \A g : Sums(g, Pieces(reply.parts, reply.files), Block \cup Files)
                       /\ SentUpTo(g, reply)
                       => g[reply.next] = reply.sent \o Pieces(reply.parts, reply.files)[reply.next]
           /\ Part = "delay" => Pieces(reply.parts, reply.files)[reply.next] = << >>
           /\ Part = "gallery" => Pieces(reply.parts, reply.files)[reply.next]
                                    = IF reply.mediaSent THEN << >> ELSE reply.files
           /\ Part \notin {"delay", "gallery"} =>
                 Pieces(reply.parts, reply.files)[reply.next] = <<Part>>
<1>1. reply \in Reply /\ Delivered(reply)
  BY DEF ListingInv, TypeOK
<1>2. reply.pc = "send" /\ reply.queue = << >> /\ reply.next <= Len(reply.parts)
  BY DEF Sending
<1>3. /\ reply.parts \in Seq(Block) /\ reply.files \in Seq(Files) /\ reply.next \in Nat
      /\ reply.sent \in Seq(Block \cup Files) /\ reply.mediaSent \in BOOLEAN
  BY <1>1 DEF Reply
<1>4. PICK g : Sums(g, Pieces(reply.parts, reply.files), Block \cup Files) /\ SentUpTo(g, reply)
  BY <1>1 DEF Delivered
<1>5. /\ reply.next \in 1..(Len(reply.parts) + 1)
      /\ reply.mediaSent <=> \E j \in 1..(reply.next - 1) : reply.parts[j] = "gallery"
  BY <1>4 DEF SentUpTo
<1>6. Len(reply.parts) \in Nat
  BY <1>3
<1>7. /\ reply.next \in 1..Len(reply.parts) /\ (reply.next + 1) - 1 = reply.next
      /\ reply.next + 1 \in 1..(Len(reply.parts) + 1) /\ reply.next + 1 \in Nat
  BY <1>2, <1>3, <1>5, <1>6
<1>8. Part \in Block /\ Part = reply.parts[reply.next]
  BY <1>3, <1>7 DEF Part
<1>9. reply.sent \o << >> = reply.sent
  BY <1>3, ConcatEmptySeq
<1>10. ASSUME NEW h, Sums(h, Pieces(reply.parts, reply.files), Block \cup Files),
              SentUpTo(h, reply)
       PROVE  h[reply.next] = reply.sent \o Pieces(reply.parts, reply.files)[reply.next]
  <2>1. reply.sent \o reply.queue = h[reply.next - 1]
    BY <1>10 DEF SentUpTo
  <2>2. h[reply.next - 1] = reply.sent
    BY <1>2, <1>9, <2>1
  <2>3. Len(Pieces(reply.parts, reply.files)) = Len(reply.parts)
    BY <1>3, PiecesType
  <2>4. h[reply.next] = h[reply.next - 1] \o Pieces(reply.parts, reply.files)[reply.next]
    BY <1>7, <1>10, <2>3 DEF Sums
  <2>5. QED
    BY <2>2, <2>4
<1>11. /\ Part = "delay" => Pieces(reply.parts, reply.files)[reply.next] = << >>
       /\ Part = "gallery" => Pieces(reply.parts, reply.files)[reply.next]
                                = IF reply.mediaSent THEN << >> ELSE reply.files
       /\ Part \notin {"delay", "gallery"} =>
             Pieces(reply.parts, reply.files)[reply.next] = <<Part>>
  <2> DEFINE parts == reply.parts
             files == reply.files
             i == reply.next
  <2>1. parts \in Seq(Block) /\ files \in Seq(Files) /\ i \in 1..Len(parts)
    BY <1>3, <1>7
  <2>2. Part = parts[i] /\ (reply.mediaSent <=> \E j \in 1..(i - 1) : parts[j] = "gallery")
    BY <1>5, <1>8
  <2> HIDE DEF parts, files, i
  <2>3. /\ parts[i] = "delay" => Pieces(parts, files)[i] = << >>
        /\ parts[i] = "gallery" =>
              Pieces(parts, files)[i] =
                 IF \E j \in 1..(i - 1) : parts[j] = "gallery" THEN << >> ELSE files
        /\ parts[i] \notin {"delay", "gallery"} => Pieces(parts, files)[i] = <<parts[i]>>
    BY <2>1, PiecesType
  <2>4. QED
    BY <2>2, <2>3 DEF parts, files, i
<1>12. QED
  BY <1>1, <1>2, <1>3, <1>5, <1>6, <1>7, <1>8, <1>9, <1>10, <1>11

\* Whether there is a gallery among the parts, with one more of them.
LEMMA GalleryAmongParts ==
    ASSUME NEW parts, NEW n \in Nat \ {0}
    PROVE  (\E j \in 1..((n + 1) - 1) : parts[j] = "gallery")
             <=> (\E j \in 1..(n - 1) : parts[j] = "gallery") \/ parts[n] = "gallery"
<1>1. \A j : j \in 1..((n + 1) - 1) <=> j \in 1..(n - 1) \/ j = n
  OBVIOUS
<1>2. QED
  BY <1>1

\* A text is delivered.
LEMMA SendTextStep ==
    ASSUME ListingInv, SendText
    PROVE  ListingInv'
<1>1. /\ Sending /\ Part \notin {"delay", "gallery"} /\ ReplyOnly
      /\ reply' = [reply EXCEPT !.sent = Append(@, Part), !.next = @ + 1]
  BY DEF SendText
<1> DEFINE n == reply.next + 1
           s == Append(reply.sent, Part)
<1>2. s \in Seq(Block \cup Files) /\ s = reply.sent \o <<Part>>
  <2> DEFINE S == Block \cup Files
  <2>1. reply.sent \in Seq(S) /\ Part \in S
    BY <1>1, NextPart
  <2> HIDE DEF S
  <2>2. s \in Seq(S) /\ s = reply.sent \o <<Part>>
    BY <2>1, AppendIsConcat
  <2>3. QED
    BY <2>2 DEF S
<1>3. s \o << >> = s
  BY <1>2, ConcatEmptySeq
<1>4. \A g : Sums(g, Pieces(reply.parts, reply.files), Block \cup Files) /\ SentUpTo(g, reply)
               => s \o << >> = g[n - 1]
  <2>1. Pieces(reply.parts, reply.files)[reply.next] = <<Part>>
    BY <1>1, NextPart
  <2>2. n - 1 = reply.next
    BY <1>1, NextPart
  <2> HIDE DEF s, n
  <2>3. QED
    BY <1>1, <1>2, <1>3, <2>1, <2>2, NextPart
<1>5. reply.mediaSent <=> \E j \in 1..(n - 1) : reply.parts[j] = "gallery"
  <2>1. reply.next \in Nat \ {0} /\ reply.parts[reply.next] # "gallery"
    BY <1>1, NextPart
  <2>2. QED
    BY <1>1, <2>1, NextPart, GalleryAmongParts
<1>6. << >> \in Seq(Files)
  OBVIOUS
<1>7. reply' = [reply EXCEPT !.next = n, !.queue = << >>, !.mediaSent = reply.mediaSent,
                             !.sent = s]
  <2>1. reply = [reply EXCEPT !.queue = << >>, !.mediaSent = reply.mediaSent]
    BY <1>1, NextPart DEF Reply
  <2>2. QED
    BY <1>1, <2>1, NextPart DEF Reply
<1> DEFINE q == << >>
<1>8. /\ reply.pc = "send" /\ n \in Nat /\ n \in 1..(Len(reply.parts) + 1)
      /\ q \in Seq(Files) /\ reply.mediaSent \in BOOLEAN
  BY <1>1, <1>6, NextPart
<1> HIDE DEF n, q, s
<1>9. reply' = [reply EXCEPT !.next = n, !.queue = q, !.mediaSent = reply.mediaSent, !.sent = s]
  BY <1>7 DEF q
<1>10. \A g : Sums(g, Pieces(reply.parts, reply.files), Block \cup Files) /\ SentUpTo(g, reply)
                => s \o q = g[n - 1]
  BY <1>4 DEF q
<1>11. QED
  BY <1>1, <1>2, <1>5, <1>8, <1>9, <1>10, SendingStep

\* A delay delivers nothing.
LEMMA WaitStep ==
    ASSUME ListingInv, Wait
    PROVE  ListingInv'
<1>1. /\ Sending /\ Part = "delay" /\ ReplyOnly
      /\ reply' = [reply EXCEPT !.next = @ + 1]
  BY DEF Wait
<1> DEFINE n == reply.next + 1
<1>2. \A g : Sums(g, Pieces(reply.parts, reply.files), Block \cup Files) /\ SentUpTo(g, reply)
               => reply.sent \o << >> = g[n - 1]
  <2>1. Pieces(reply.parts, reply.files)[reply.next] = << >>
    BY <1>1, NextPart
  <2>2. n - 1 = reply.next
    BY <1>1, NextPart
  <2> HIDE DEF n
  <2>3. QED
    BY <1>1, <2>1, <2>2, NextPart
<1>3. reply.mediaSent <=> \E j \in 1..(n - 1) : reply.parts[j] = "gallery"
  <2>1. reply.next \in Nat \ {0} /\ reply.parts[reply.next] # "gallery"
    BY <1>1, NextPart
  <2>2. QED
    BY <1>1, <2>1, NextPart, GalleryAmongParts
<1>4. << >> \in Seq(Files)
  OBVIOUS
<1>5. reply' = [reply EXCEPT !.next = n, !.queue = << >>, !.mediaSent = reply.mediaSent,
                             !.sent = reply.sent]
  BY <1>1, NextPart DEF Reply
<1> DEFINE q == << >>
<1>6. /\ reply.pc = "send" /\ n \in Nat /\ n \in 1..(Len(reply.parts) + 1)
      /\ q \in Seq(Files) /\ reply.mediaSent \in BOOLEAN
      /\ reply.sent \in Seq(Block \cup Files)
  BY <1>1, <1>4, NextPart
<1> HIDE DEF n, q
<1>7. reply' = [reply EXCEPT !.next = n, !.queue = q, !.mediaSent = reply.mediaSent,
                             !.sent = reply.sent]
  BY <1>5 DEF q
<1>8. \A g : Sums(g, Pieces(reply.parts, reply.files), Block \cup Files) /\ SentUpTo(g, reply)
               => reply.sent \o q = g[n - 1]
  BY <1>2 DEF q
<1>9. QED
  BY <1>1, <1>3, <1>6, <1>7, <1>8, SendingStep

\* The first gallery block delivers the files, a later one nothing.
LEMMA OpenGalleryStep ==
    ASSUME ListingInv, OpenGallery
    PROVE  ListingInv'
<1> DEFINE n == reply.next + 1
           q == IF reply.mediaSent THEN << >> ELSE reply.files
<1>1. /\ Sending /\ Part = "gallery" /\ ReplyOnly
      /\ reply' = [reply EXCEPT !.next = n, !.mediaSent = TRUE, !.queue = q]
  BY DEF OpenGallery
<1>2. q \in Seq(Files)
  BY <1>1, NextPart
<1>3. \A g : Sums(g, Pieces(reply.parts, reply.files), Block \cup Files) /\ SentUpTo(g, reply)
               => reply.sent \o q = g[n - 1]
  <2>1. Pieces(reply.parts, reply.files)[reply.next] = q
    BY <1>1, NextPart
  <2>2. n - 1 = reply.next
    BY <1>1, NextPart
  <2> HIDE DEF n, q
  <2>3. QED
    BY <1>1, <2>1, <2>2, NextPart
<1>4. TRUE <=> \E j \in 1..(n - 1) : reply.parts[j] = "gallery"
  <2>1. reply.next \in Nat \ {0} /\ reply.parts[reply.next] = "gallery"
    BY <1>1, NextPart
  <2>2. QED
    BY <2>1, GalleryAmongParts
<1> HIDE DEF q
<1>5. reply' = [reply EXCEPT !.next = n, !.queue = q, !.mediaSent = TRUE, !.sent = reply.sent]
  BY <1>1, NextPart DEF Reply
<1>6. QED
  BY <1>1, <1>2, <1>3, <1>4, <1>5, NextPart, SendingStep

\* A file of the gallery is delivered.
LEMMA SendMediaStep ==
    ASSUME ListingInv, SendMedia
    PROVE  ListingInv'
<1> DEFINE f == Head(reply.queue)
           q == Tail(reply.queue)
           s == Append(reply.sent, f)
<1>1. /\ reply.pc = "send" /\ reply.queue # << >> /\ ReplyOnly
      /\ reply' = [reply EXCEPT !.sent = s, !.queue = q]
  BY DEF SendMedia
<1>2. /\ reply \in Reply /\ reply.queue \in Seq(Files) /\ reply.next \in Nat
      /\ reply.sent \in Seq(Block \cup Files) /\ reply.mediaSent \in BOOLEAN
  BY DEF ListingInv, TypeOK, Reply
<1>3. f \in Files /\ q \in Seq(Files) /\ reply.queue = <<f>> \o q
  BY <1>1, <1>2, HeadTailProperties
<1>4. s \in Seq(Block \cup Files) /\ s \o q = reply.sent \o reply.queue
  <2> HIDE DEF f, q
  <2> DEFINE S == Block \cup Files
             one == <<f>>
  <2>1. q \in Seq(S) /\ f \in S /\ one \in Seq(S) /\ reply.sent \in Seq(S)
    BY <1>2, <1>3, SeqMonotonic
  <2>2. s = reply.sent \o one /\ s \in Seq(S)
    <3> HIDE DEF S
    <3>1. QED
      BY <2>1, AppendIsConcat
  <2>3. (reply.sent \o one) \o q = reply.sent \o (one \o q)
    <3> DEFINE a == reply.sent
    <3>1. a \in Seq(S) /\ one \in Seq(S) /\ q \in Seq(S)
      BY <2>1
    <3> HIDE DEF S, one, a
    <3>2. (a \o one) \o q = a \o (one \o q)
      BY <3>1, ConcatAssociative
    <3>3. QED
      BY <3>2 DEF a
  <2>4. QED
    BY <1>3, <2>2, <2>3
<1>5. PICK g : Sums(g, Pieces(reply.parts, reply.files), Block \cup Files) /\ SentUpTo(g, reply)
  BY DEF ListingInv, Delivered
<1>6. /\ reply.next \in 1..(Len(reply.parts) + 1)
      /\ reply.mediaSent <=> \E j \in 1..(reply.next - 1) : reply.parts[j] = "gallery"
  BY <1>5 DEF SentUpTo
<1> HIDE DEF f, q, s
<1>7. \A h : Sums(h, Pieces(reply.parts, reply.files), Block \cup Files) /\ SentUpTo(h, reply)
               => s \o q = h[reply.next - 1]
  BY <1>4 DEF SentUpTo
<1>8. reply' = [reply EXCEPT !.next = reply.next, !.queue = q, !.mediaSent = reply.mediaSent,
                             !.sent = s]
  BY <1>1, <1>2 DEF Reply
<1>9. QED
  <2> DEFINE n == reply.next
             m == reply.mediaSent
  <2>1. /\ n \in Nat /\ n \in 1..(Len(reply.parts) + 1) /\ m \in BOOLEAN
        /\ m <=> \E j \in 1..(n - 1) : reply.parts[j] = "gallery"
        /\ \A h : Sums(h, Pieces(reply.parts, reply.files), Block \cup Files)
                     /\ SentUpTo(h, reply) => s \o q = h[n - 1]
        /\ reply' = [reply EXCEPT !.next = n, !.queue = q, !.mediaSent = m, !.sent = s]
    BY <1>2, <1>6, <1>7, <1>8
  <2> HIDE DEF n, m
  <2>2. QED
    BY <1>1, <1>3, <1>4, <2>1, SendingStep

\* The sending ends, with all parts or with an error.
LEMMA SendEndStep ==
    ASSUME ListingInv, SendFails \/ SendEnds
    PROVE  ListingInv'
<1>1. "partial" \in Outcome /\ "sent" \in Outcome
  BY DEF Outcome
<1>2. CASE SendFails
  BY <1>1, <1>2, EndStep DEF SendFails
<1>3. CASE SendEnds
  <2>1. /\ reply.queue = << >> /\ reply.next > Len(reply.parts) /\ End("sent") /\ ReplyOnly
    BY <1>3 DEF SendEnds
  <2>2. reply.next \in 1..(Len(reply.parts) + 1)
    BY DEF ListingInv, Delivered, SentUpTo
  <2>3. reply.parts \in Seq(Block)
    BY DEF ListingInv, TypeOK, Reply
  <2>4. reply.next = Len(reply.parts) + 1
    BY <2>1, <2>2, <2>3
  <2>5. QED
    BY <1>1, <2>1, <2>4, EndStep
<1>4. QED
  BY <1>2, <1>3

-----------------------------------------------------------------------------
(***************************************************************************)
(* The steps of the operator.                                              *)
(***************************************************************************)

\* While a reply is in progress, nothing it was made from changes.
LEMMA OperatorStep ==
    ASSUME ListingInv, UNCHANGED reply, TypeOK', PlaybookInv', FilesInv',
           reply.locked => UNCHANGED <<listing, playbook, media>>,
           budget'.operations = 0 => disk' = disk /\ budget.operations = 0
    PROVE  ListingInv'
<1>1. /\ TypeOK /\ ReplyInv /\ Delivered(reply) /\ RowsStandBehindReply /\ FilesAreThere
      /\ reply' = reply
  BY DEF ListingInv
<1>2. ReplyInv'
  <2>1. reply.pc \in {"idle", "matched", "plan", "send"}
    BY <1>1 DEF TypeOK, Reply
  <2>2. ASSUME reply.pc # "idle", ~reply.replayed
        PROVE  listing'[reply.listing] = reply.held
    <3>1. reply.locked /\ listing[reply.listing] = reply.held
      BY <1>1, <2>1, <2>2 DEF ReplyInv
    <3>2. listing' = listing
      BY <3>1
    <3>3. QED
      BY <3>1, <3>2
  <2>3. QED
    BY <1>1, <2>2 DEF ReplyInv
<1>3. Delivered(reply')
  BY <1>1
<1>4. RowsStandBehindReply'
  <2>1. SUFFICES ASSUME reply.pc = "send" PROVE RowsStandBehindReply'
    BY <1>1 DEF RowsStandBehindReply
  <2>2. UNCHANGED <<listing, playbook, media>>
    BY <1>1, <2>1 DEF ReplyInv
  <2>3. GalleryOf(reply.listing, reply.parts)' = GalleryOf(reply.listing, reply.parts)
    BY <1>1, <2>2 DEF GalleryOf, Gallery
  <2>4. QED
    BY <1>1, <2>2, <2>3 DEF RowsStandBehindReply
<1>5. FilesAreThere'
  BY <1>1 DEF FilesAreThere, BridgeFinds
<1>6. QED
  BY <1>2, <1>3, <1>4, <1>5 DEF ListingInv

\* An operation is counted.
LEMMA OperateStep ==
    ASSUME TypeOK, Operate
    PROVE  /\ budget' \in [replies : 0..MaxReplies, operations : 0..MaxOperations]
           /\ budget'.operations # 0 /\ Nr \in 1..MaxOperations
BY ListingAssumption DEF TypeOK, Operate, Nr

\* A request up to its look-ups.
LEMMA BeginStep ==
    ASSUME ListingInv, Operate, NEW request \in Pending, Begin(request),
           UNCHANGED <<listing, playbook, media, reply>>, disk' \in SUBSET Files,
           request.op \in {"save", "seed"} => Accepted(request.row.blocks)
    PROVE  ListingInv'
<1>1. TypeOK /\ PlaybookInv
  BY DEF ListingInv
<1>2. /\ budget' \in [replies : 0..MaxReplies, operations : 0..MaxOperations]
      /\ budget'.operations # 0
  BY <1>1, OperateStep
<1>3. pending' = pending \cup {request}
  BY DEF Begin
<1>4. TypeOK'
  BY <1>1, <1>2, <1>3 DEF TypeOK
<1>5. PlaybookInv'
  BY <1>1, <1>3 DEF PlaybookInv
<1>6. FilesInv'
  BY <1>2 DEF FilesInv
<1>7. QED
  BY <1>2, <1>4, <1>5, <1>6, OperatorStep

\* A listing is looked up.
LEMMA BeginSaveListingStep ==
    ASSUME ListingInv, NEW l \in Listings, BeginSaveListing(l)
    PROVE  ListingInv'
<1>1. PICK details \in Details :
          Begin([op |-> "listing", nr |-> Nr, listing |-> l, was |-> listing[l], row |-> details])
  BY DEF BeginSaveListing
<1> DEFINE request == [op |-> "listing", nr |-> Nr, listing |-> l, was |-> listing[l],
                       row |-> details]
<1>2. Operate /\ UNCHANGED <<listing, playbook, media, disk, reply>>
  BY DEF BeginSaveListing
<1>3. /\ Nr \in 1..MaxOperations /\ listing[l] \in ListingRow /\ disk' \in SUBSET Files
  BY <1>2, OperateStep DEF ListingInv, TypeOK
<1>4. request \in Pending /\ request.op = "listing"
  BY <1>3 DEF Pending
<1>5. Begin(request)
  BY <1>1
<1> HIDE DEF request
<1>6. QED
  BY <1>2, <1>3, <1>4, <1>5, BeginStep

\* A deletion has looked up its rows.
LEMMA BeginDeleteStep ==
    ASSUME ListingInv, NEW those \in SUBSET Listings, BeginDelete(those)
    PROVE  ListingInv'
<1> DEFINE listings == {listing[l].id : l \in those}
           playbooks == {playbook[l].id : l \in those} \ {0}
           rows == {media[f].id : f \in UNION {MediaRows(l) : l \in those}}
           request == [op |-> "delete", nr |-> Nr, listings |-> listings,
                       playbooks |-> playbooks, media |-> rows]
<1>1. /\ Operate /\ Begin(request) /\ UNCHANGED <<listing, playbook, media, disk, reply>>
      /\ \A l \in those : Exists(l)
  BY DEF BeginDelete
<1>2. /\ TypeOK /\ disk' \in SUBSET Files /\ Nr \in 1..MaxOperations
  BY <1>1, OperateStep DEF ListingInv, TypeOK
<1>3. listings \in SUBSET Ids
  BY <1>1, <1>2, RowIds DEF TypeOK, Exists
<1>4. playbooks \in SUBSET Ids
  BY <1>2, RowIds DEF TypeOK
<1>5. rows \in SUBSET Ids
  BY <1>2, RowIds DEF TypeOK, MediaRows
<1> HIDE DEF listings, playbooks, rows
<1>6. request \in Pending /\ request.op = "delete"
  BY <1>2, <1>3, <1>4, <1>5 DEF Pending
<1> HIDE DEF request
<1>7. QED
  BY <1>1, <1>2, <1>6, BeginStep

\* The command has looked up the Playbooks it does not keep.
LEMMA BeginPruneStep ==
    ASSUME ListingInv, NEW kept \in SUBSET Listings, BeginPrune(kept)
    PROVE  ListingInv'
<1> DEFINE playbooks == {playbook[l].id : l \in Listings \ kept} \ {0}
           request == [op |-> "prune", nr |-> Nr, listings |-> {}, media |-> {},
                       playbooks |-> playbooks]
<1>1. Operate /\ Begin(request) /\ UNCHANGED <<listing, playbook, media, disk, reply>>
  BY DEF BeginPrune
<1>2. TypeOK /\ disk' \in SUBSET Files /\ Nr \in 1..MaxOperations
  BY <1>1, OperateStep DEF ListingInv, TypeOK
<1>3. playbooks \in SUBSET Ids
  BY <1>2, RowIds DEF TypeOK
<1> HIDE DEF playbooks
<1>4. request \in Pending /\ request.op = "prune"
  BY <1>2, <1>3 DEF Pending
<1> HIDE DEF request
<1>5. QED
  BY <1>1, <1>2, <1>4, BeginStep

\* A Playbook is validated and looked up.
LEMMA BeginSavePlaybookStep ==
    ASSUME ListingInv, NEW l \in Listings, BeginSavePlaybook(l)
    PROVE  ListingInv'
<1>1. PICK state \in Switch, blocks \in Payloads :
          /\ Accepted(blocks)
          /\ Begin([op |-> "save", nr |-> Nr, listing |-> l, was |-> playbook[l],
                    row |-> [state |-> state, blocks |-> blocks]])
  BY DEF BeginSavePlaybook
<1> DEFINE row == [state |-> state, blocks |-> blocks]
           request == [op |-> "save", nr |-> Nr, listing |-> l, was |-> playbook[l], row |-> row]
<1>2. row \in Contents /\ row.blocks = blocks
  BY ListingAssumption DEF Contents
<1>3. Operate /\ UNCHANGED <<listing, playbook, media, disk, reply>>
  BY DEF BeginSavePlaybook
<1>4. Nr \in 1..MaxOperations /\ playbook[l] \in PlaybookRow /\ disk' \in SUBSET Files
  BY <1>3, OperateStep DEF ListingInv, TypeOK
<1>5. Begin(request)
  BY <1>1
<1> HIDE DEF row
<1>6. request \in Pending /\ request.op = "save" /\ request.row = row
  BY <1>2, <1>4 DEF Pending
<1> HIDE DEF request
<1>7. Accepted(request.row.blocks)
  BY <1>1, <1>2, <1>6
<1>8. QED
  BY <1>3, <1>4, <1>5, <1>6, <1>7, BeginStep

\* A listing without a Playbook is found.
LEMMA BeginSeedPlaybookStep ==
    ASSUME ListingInv, NEW l \in Listings, BeginSeedPlaybook(l)
    PROVE  ListingInv'
<1> DEFINE request == [op |-> "seed", nr |-> Nr, listing |-> l, was |-> NoPlaybook,
                       row |-> StarterRow]
<1>1. Operate /\ Begin(request) /\ UNCHANGED <<listing, playbook, media, disk, reply>>
  BY DEF BeginSeedPlaybook
<1>2. Nr \in 1..MaxOperations /\ disk' \in SUBSET Files
  BY <1>1, OperateStep DEF ListingInv, TypeOK
<1>3. request \in Pending /\ request.op = "seed" /\ request.row = StarterRow
  BY <1>2 DEF Pending
<1> HIDE DEF request
<1>4. Accepted(request.row.blocks)
  BY <1>3, AcceptedBlocks, RowTypes
<1>5. QED
  BY <1>1, <1>2, <1>3, <1>4, BeginStep

\* A media request has looked up its row, or has stored or removed its file.
LEMMA BeginMediaStep ==
    ASSUME ListingInv, NEW f \in Files, BeginSaveMedia(f) \/ StoreUpload(f) \/ UnlinkMedia(f)
    PROVE  ListingInv'
<1>1. Operate /\ UNCHANGED <<listing, playbook, media, reply>>
  BY DEF BeginSaveMedia, StoreUpload, UnlinkMedia
<1>2. /\ disk \in SUBSET Files /\ media[f] \in MediaRow /\ Nr \in 1..MaxOperations
  BY <1>1, OperateStep DEF ListingInv, TypeOK
<1>3. CASE BeginSaveMedia(f)
  <2>1. PICK state \in Switch :
            Begin([op |-> "media", nr |-> Nr, file |-> f, was |-> media[f], state |-> state])
    BY <1>3 DEF BeginSaveMedia
  <2> DEFINE request == [op |-> "media", nr |-> Nr, file |-> f, was |-> media[f], state |-> state]
  <2>2. request \in Pending /\ request.op = "media"
    BY <1>2 DEF Pending
  <2>3. Begin(request) /\ disk' = disk
    BY <1>3, <2>1 DEF BeginSaveMedia
  <2> HIDE DEF request
  <2>4. QED
    BY <1>1, <1>2, <2>2, <2>3, BeginStep
<1>4. CASE StoreUpload(f)
  <2> DEFINE request == [op |-> "stored", nr |-> Nr, file |-> f]
  <2>1. Begin(request) /\ disk' = disk \cup {f}
    BY <1>4 DEF StoreUpload
  <2>2. request \in Pending /\ request.op = "stored"
    BY <1>2 DEF Pending
  <2> HIDE DEF request
  <2>3. QED
    BY <1>1, <1>2, <2>1, <2>2, BeginStep
<1>5. CASE UnlinkMedia(f)
  <2> DEFINE those == {media[f].id}
             request == [op |-> "unlinked", nr |-> Nr, listings |-> {}, playbooks |-> {},
                         media |-> those]
  <2>1. Begin(request) /\ disk' \in {disk \ {f}, disk} /\ media[f] # NoMedia
    BY <1>5 DEF UnlinkMedia
  <2>2. those \in SUBSET Ids
    BY <1>2, <2>1, RowIds
  <2> HIDE DEF those
  <2>3. request \in Pending /\ request.op = "unlinked"
    BY <1>2, <2>2 DEF Pending
  <2> HIDE DEF request
  <2>4. QED
    BY <1>1, <1>2, <2>1, <2>3, BeginStep
<1>6. QED
  BY <1>3, <1>4, <1>5

-----------------------------------------------------------------------------
(***************************************************************************)
(* The second halves of requests, and what is done at once.                *)
(***************************************************************************)

\* A request that is between its steps has been counted.
LEMMA RequestStep ==
    ASSUME ListingInv, NEW request \in pending,
           UNCHANGED <<reply, budget>>,
           listing' \in [Listings -> ListingRow], media' \in [Files -> MediaRow],
           playbook' \in [Listings -> PlaybookRow],
           \A l \in Listings : Accepted(playbook'[l].blocks),
           disk' \in SUBSET Files,
           pending' \subseteq Pending,
           \A other \in pending' \ pending : other.op \notin {"save", "seed"},
           reply.locked => UNCHANGED <<listing, playbook, media>>
    PROVE  ListingInv'
<1>1. TypeOK /\ PlaybookInv /\ FilesInv
  BY DEF ListingInv
<1>2. budget'.operations # 0
  BY <1>1 DEF FilesInv
<1>3. TypeOK'
  BY <1>1 DEF TypeOK
<1>4. PlaybookInv'
  BY <1>1 DEF PlaybookInv
<1>5. FilesInv'
  BY <1>2 DEF FilesInv
<1>6. QED
  BY <1>2, <1>3, <1>4, <1>5, OperatorStep

\* The columns that are written, and those that are not.
LEMMA ColumnType ==
    ASSUME NEW S, NEW now \in S, NEW was, NEW new \in S
    PROVE  Column(now, was, new) \in {now, new} /\ Column(now, was, new) \in S
BY DEF Column

\* A listing is written, or the request fails.
LEMMA WriteListingStep ==
    ASSUME ListingInv, NEW request \in pending, WriteListing(request)
    PROVE  ListingInv'
<1>1. TypeOK /\ PlaybookInv /\ request.op = "listing" /\ request \in Pending
  BY DEF ListingInv, WriteListing, TypeOK
<1>2. request.was \in ListingRow /\ request.row \in Details
  BY <1>1 DEF Pending
<1>3. listing \in [Listings -> ListingRow]
  BY <1>1 DEF TypeOK
<1>4. listing' \in [Listings -> ListingRow] /\ (reply.locked => listing' = listing)
  <2>1. CASE listing' = listing
    BY <1>3, <2>1
  <2>2. CASE InsertListing(request.listing, request.row)
    BY <1>2, <1>3, <2>2 DEF InsertListing, CanCommit, Details, ListingRow
  <2>3. CASE request.was # NoListing /\ UpdateListing(request.was, request.row)
    <3> DEFINE Now(l) == [listing[l] EXCEPT
                   !.status = Column(@, request.was.status, request.row.status),
                   !.notes  = Column(@, request.was.notes, request.row.notes)]
    <3>1. ASSUME NEW l \in Listings, listing[l].id = request.was.id
          PROVE  Now(l) \in ListingRow
      <4> DEFINE status == Column(listing[l].status, request.was.status, request.row.status)
                 notes == Column(listing[l].notes, request.was.notes, request.row.notes)
      <4>1. listing[l] # NoListing /\ listing[l] \in ListingRow
        BY <1>2, <1>3, <2>3, <3>1, RowIds
      <4>2. listing[l] \in [id : Ids, status : {"available", "unavailable", "unknown", "other"},
                            notes : BOOLEAN]
        BY <4>1 DEF ListingRow
      <4>3. /\ listing[l].status \in {"available", "unavailable", "unknown", "other"}
            /\ listing[l].notes \in BOOLEAN
        BY <4>2
      <4>4. /\ request.row.status \in {"available", "unavailable", "unknown", "other"}
            /\ request.row.notes \in BOOLEAN
        BY <1>2 DEF Details
      <4>5. /\ status \in {"available", "unavailable", "unknown", "other"}
            /\ notes \in BOOLEAN
        BY <4>3, <4>4, ColumnType
      <4>6. Now(l) = [listing[l] EXCEPT !.status = status, !.notes = notes]
        OBVIOUS
      <4> HIDE DEF status, notes, Now
      <4>7. QED
        BY <4>2, <4>5, <4>6 DEF ListingRow
    <3>2. listing' = [l \in Listings |->
                          IF listing[l].id # request.was.id THEN listing[l] ELSE Now(l)]
      BY <2>3 DEF UpdateListing
    <3>3. ~reply.locked
      BY <2>3 DEF UpdateListing, CanCommit
    <3> HIDE DEF Now
    <3>4. QED
      BY <1>3, <3>1, <3>2, <3>3
  <2>4. QED
    BY <2>1, <2>2, <2>3 DEF WriteListing
<1>5. /\ UNCHANGED <<playbook, media, disk, reply, budget>>
      /\ pending' \subseteq pending /\ pending' \subseteq Pending
  BY <1>1 DEF WriteListing, TypeOK
<1>6. /\ media' \in [Files -> MediaRow] /\ playbook' \in [Listings -> PlaybookRow]
      /\ \A l \in Listings : Accepted(playbook'[l].blocks)
      /\ disk' \in SUBSET Files
  BY <1>1, <1>5 DEF TypeOK, PlaybookInv
<1>7. QED
  BY <1>4, <1>5, <1>6, RequestStep

\* The rows of Playbooks after a write, and what they hold.
LEMMA WrittenPlaybooks ==
    ASSUME TypeOK, PlaybookInv, NEW request \in pending, WritePlaybook(request),
           NEW l \in Listings
    PROVE  /\ playbook'[l] \in PlaybookRow /\ Accepted(playbook'[l].blocks)
           /\ playbook[l] # NoPlaybook /\ playbook'[l] # playbook[l] =>
                 /\ request.op = "save" /\ playbook'[l].id = playbook[l].id
                 /\ playbook'[l].state \in {playbook[l].state, request.row.state}
                 /\ playbook'[l].blocks \in {playbook[l].blocks, request.row.blocks}
<1>1. /\ playbook \in [Listings -> PlaybookRow] /\ playbook[l] \in PlaybookRow
      /\ Accepted(playbook[l].blocks)
  BY DEF TypeOK, PlaybookInv
<1>2. request.op \in {"save", "seed"} /\ request \in Pending
  BY DEF WritePlaybook, TypeOK
<1>3. /\ request.was \in PlaybookRow /\ Accepted(request.row.blocks)
      /\ request.op = "seed" => request.was = NoPlaybook
  BY <1>2, RowTypes DEF Pending, PlaybookInv
<1>4. /\ request.row \in Contents /\ request.row.state \in Switch
      /\ request.row.blocks \in Seq(Block)
  BY <1>2, RowTypes DEF Pending, Contents
<1>5. CASE playbook' = playbook
  BY <1>1, <1>5
<1>6. CASE InsertPlaybook(request.listing, request.row)
  <2>1. /\ playbook[request.listing].id = 0 /\ NewId(playbook) \in Ids
        /\ playbook' = [playbook EXCEPT ![request.listing] =
               [id |-> NewId(playbook), state |-> request.row.state,
                blocks |-> request.row.blocks]]
    BY <1>6 DEF InsertPlaybook, Inserts
  <2>2. CASE l # request.listing
    BY <1>1, <2>1, <2>2
  <2>3. CASE l = request.listing
    <3>1. playbook[l] = NoPlaybook
      BY <1>1, <2>1, <2>3, RowIds
    <3>2. playbook'[l] = [id |-> NewId(playbook), state |-> request.row.state,
                          blocks |-> request.row.blocks]
      BY <1>1, <2>1, <2>3
    <3>3. QED
      BY <1>3, <1>4, <2>1, <3>1, <3>2 DEF PlaybookRow
  <2>4. QED
    BY <2>2, <2>3
<1>7. CASE request.was # NoPlaybook /\ UpdatePlaybook(request.was, request.row)
  <2> DEFINE state == Column(playbook[l].state, request.was.state, request.row.state)
             blocks == Column(playbook[l].blocks, request.was.blocks, request.row.blocks)
  <2>1. playbook'[l] = IF playbook[l].id # request.was.id THEN playbook[l]
                       ELSE [playbook[l] EXCEPT !.state = state, !.blocks = blocks]
    BY <1>7 DEF UpdatePlaybook
  <2>2. request.op = "save"
    BY <1>2, <1>3, <1>7
  <2>3. CASE playbook[l].id # request.was.id
    BY <1>1, <2>1, <2>3
  <2>4. CASE playbook[l].id = request.was.id
    <3>1. playbook[l] # NoPlaybook
      BY <1>1, <1>3, <1>7, <2>4, RowIds
    <3>2. /\ playbook[l].state \in Switch /\ playbook[l].blocks \in Seq(Block)
          /\ playbook[l].id \in Ids
          /\ playbook[l] = [id |-> playbook[l].id, state |-> playbook[l].state,
                            blocks |-> playbook[l].blocks]
      BY <1>1, <3>1 DEF PlaybookRow
    <3>3. /\ state \in {playbook[l].state, request.row.state}
          /\ blocks \in {playbook[l].blocks, request.row.blocks}
          /\ state \in Switch /\ blocks \in Seq(Block)
      BY <1>4, <3>2, ColumnType
    <3> HIDE DEF state, blocks
    <3>4. playbook'[l] = [id |-> playbook[l].id, state |-> state, blocks |-> blocks]
      BY <2>1, <2>4, <3>2
    <3>5. playbook'[l] \in PlaybookRow
      BY <3>2, <3>3, <3>4 DEF PlaybookRow
    <3>6. Accepted(blocks)
      BY <1>1, <1>3, <3>3
    <3>7. QED
      BY <2>2, <3>3, <3>4, <3>5, <3>6
  <2>5. QED
    BY <2>3, <2>4
<1>8. QED
  BY <1>5, <1>6, <1>7 DEF WritePlaybook

\* A Playbook is written, or the request fails.
LEMMA WritePlaybookStep ==
    ASSUME ListingInv, NEW request \in pending, WritePlaybook(request)
    PROVE  ListingInv'
<1>1. TypeOK /\ PlaybookInv
  BY DEF ListingInv
<1>2. /\ UNCHANGED <<listing, media, disk, reply, budget>>
      /\ pending' \subseteq pending /\ pending' \subseteq Pending
  BY <1>1 DEF WritePlaybook, TypeOK
<1>3. /\ reply.locked => playbook' = playbook
      /\ playbook' = [l \in Listings |-> playbook'[l]]
  BY <1>1 DEF WritePlaybook, InsertPlaybook, UpdatePlaybook, CanCommit, TypeOK
<1>4. \A l \in Listings : playbook'[l] \in PlaybookRow /\ Accepted(playbook'[l].blocks)
  BY <1>1, WrittenPlaybooks
<1>5. playbook' \in [Listings -> PlaybookRow]
  BY <1>3, <1>4
<1>6. /\ listing' \in [Listings -> ListingRow] /\ media' \in [Files -> MediaRow]
      /\ disk' \in SUBSET Files
  BY <1>1, <1>2 DEF TypeOK
<1>7. reply.locked => UNCHANGED <<listing, playbook, media>>
  BY <1>2, <1>3
<1>8. QED
  BY <1>2, <1>4, <1>5, <1>6, <1>7, RequestStep

\* A media row is written, or the request fails.
LEMMA WriteMediaStep ==
    ASSUME ListingInv, NEW request \in pending, WriteMedia(request)
    PROVE  ListingInv'
<1>1. TypeOK /\ PlaybookInv /\ request.op = "media" /\ request \in Pending
  BY DEF ListingInv, WriteMedia, TypeOK
<1>2. /\ UNCHANGED <<listing, playbook, disk, reply, budget>>
      /\ pending' \subseteq pending /\ pending' \subseteq Pending
  BY <1>1 DEF WriteMedia, TypeOK
<1>3. /\ media \in [Files -> MediaRow] /\ request.was \in MediaRow /\ request.state \in Switch
  BY <1>1 DEF TypeOK, Pending
<1>4. media' \in [Files -> MediaRow] /\ (reply.locked => media' = media)
  <2>1. CASE media' = media
    BY <1>3, <2>1
  <2>2. CASE InsertMedia(request.file, request.state)
    BY <1>3, <2>2 DEF InsertMedia, CanCommit, MediaRow
  <2>3. CASE request.was # NoMedia /\ UpdateMedia(request.was, request.state)
    <3> DEFINE Now(f) == [media[f] EXCEPT !.state = Column(@, request.was.state, request.state)]
    <3>1. ASSUME NEW f \in Files, media[f].id = request.was.id
          PROVE  Now(f) \in MediaRow
      <4> DEFINE state == Column(media[f].state, request.was.state, request.state)
      <4>1. media[f] # NoMedia /\ media[f] \in MediaRow
        BY <1>3, <2>3, <3>1, RowIds
      <4>2. /\ media[f].state \in Switch /\ media[f].id \in Ids
            /\ media[f] = [id |-> media[f].id, state |-> media[f].state]
        BY <4>1 DEF MediaRow
      <4>3. state \in Switch
        BY <1>3, <4>2, ColumnType
      <4>4. Now(f) = [id |-> media[f].id, state |-> state]
        BY <4>2
      <4> HIDE DEF state, Now
      <4>5. QED
        BY <4>2, <4>3, <4>4 DEF MediaRow
    <3>2. media' = [f \in Files |->
                        IF media[f].id # request.was.id THEN media[f] ELSE Now(f)]
      BY <2>3 DEF UpdateMedia
    <3>3. ~reply.locked
      BY <2>3 DEF UpdateMedia, CanCommit
    <3> HIDE DEF Now
    <3>4. QED
      BY <1>3, <3>1, <3>2, <3>3
  <2>4. QED
    BY <2>1, <2>2, <2>3 DEF WriteMedia
<1>5. /\ listing' \in [Listings -> ListingRow] /\ disk' \in SUBSET Files
      /\ playbook' \in [Listings -> PlaybookRow]
      /\ \A l \in Listings : Accepted(playbook'[l].blocks)
  BY <1>1, <1>2 DEF TypeOK, PlaybookInv
<1>6. QED
  BY <1>2, <1>4, <1>5, RequestStep

\* The rows that a deletion leaves.
LEMMA DeleteRowsStep ==
    ASSUME ListingInv, NEW request \in pending, DeleteRows(request)
    PROVE  ListingInv'
<1>1. TypeOK /\ PlaybookInv
  BY DEF ListingInv
<1>2. /\ UNCHANGED <<disk, reply, budget>>
      /\ pending' \subseteq pending /\ pending' \subseteq Pending
      /\ reply.locked => UNCHANGED <<listing, playbook, media>>
  BY <1>1 DEF DeleteRows, Delete, CanCommit, TypeOK
<1>3. /\ listing \in [Listings -> ListingRow] /\ media \in [Files -> MediaRow]
      /\ playbook \in [Listings -> PlaybookRow] /\ \A l \in Listings : Accepted(playbook[l].blocks)
      /\ disk \in SUBSET Files
  BY <1>1 DEF TypeOK, PlaybookInv
<1>4. CASE UNCHANGED <<listing, playbook, media>>
  BY <1>2, <1>3, <1>4, RequestStep
<1>5. CASE Delete(request)
  <2>1. listing' \in [Listings -> ListingRow]
    BY <1>3, <1>5, RowTypes DEF Delete, WithoutIds
  <2>2. playbook' \in [Listings -> PlaybookRow] /\ \A l \in Listings : Accepted(playbook'[l].blocks)
    BY <1>3, <1>5, RowTypes, AcceptedBlocks DEF Delete, WithoutIds
  <2>3. media' \in [Files -> MediaRow]
    BY <1>3, <1>5, RowTypes DEF Delete, WithoutIds
  <2>4. QED
    BY <1>2, <1>3, <2>1, <2>2, <2>3, RequestStep
<1>6. QED
  BY <1>4, <1>5 DEF DeleteRows

\* The file of an upload without a listing goes.
LEMMA LookUpAgainStep ==
    ASSUME ListingInv, NEW request \in pending, LookUpAgain(request)
    PROVE  ListingInv'
<1> DEFINE writes == {[op |-> "media", nr |-> request.nr, file |-> request.file,
                       was |-> NoMedia, state |-> state] : state \in Switch}
<1>1. TypeOK /\ PlaybookInv /\ request.op = "stored" /\ request \in Pending
  BY DEF ListingInv, LookUpAgain, TypeOK
<1>2. /\ UNCHANGED <<listing, playbook, media, reply, budget>>
      /\ pending' \subseteq pending \cup writes /\ disk' \subseteq disk
  BY DEF LookUpAgain
<1>3. request.nr \in 1..MaxOperations /\ request.file \in Files
  BY <1>1 DEF Pending
<1>4. ASSUME NEW write \in writes
      PROVE  write \in Pending /\ write.op = "media"
  BY <1>3, <1>4, RowTypes DEF Pending
<1> HIDE DEF writes
<1>5. /\ listing' \in [Listings -> ListingRow] /\ media' \in [Files -> MediaRow]
      /\ playbook' \in [Listings -> PlaybookRow]
      /\ \A l \in Listings : Accepted(playbook'[l].blocks)
      /\ disk' \in SUBSET Files /\ pending' \subseteq Pending
  BY <1>1, <1>2, <1>4 DEF TypeOK, PlaybookInv
<1>6. \A other \in pending' \ pending : other.op \notin {"save", "seed"}
  BY <1>2, <1>4
<1>7. QED
  BY <1>2, <1>5, <1>6, RequestStep

\* What a start adds to listings and Playbooks.
LEMMA RestartRows ==
    ASSUME TypeOK, Restart, NEW l \in Listings
    PROVE  /\ listing'[l] \in ListingRow
           /\ listing[l] # NoListing => listing'[l] = listing[l]
           /\ playbook'[l] = playbook[l] \/
                 (playbook[l] = NoPlaybook /\ playbook'[l].blocks = Starter
                     /\ playbook'[l] \in PlaybookRow)
<1>1. listing[l] \in ListingRow
  BY DEF TypeOK
<1>2. PICK new \in {{}, {k \in Demo : ~Exists(k)}}, status \in {"available", "unavailable"},
           notes \in BOOLEAN : \E ids \in Added(listing, new) :
          listing' = [k \in Listings |->
              IF k \in new THEN [id |-> ids[k], status |-> status, notes |-> notes]
              ELSE listing[k]]
  BY DEF Restart
<1>3. PICK ids \in Added(listing, new) :
          listing' = [k \in Listings |->
              IF k \in new THEN [id |-> ids[k], status |-> status, notes |-> notes]
              ELSE listing[k]]
  BY <1>2
<1>4. listing'[l] \in ListingRow /\ (listing[l] # NoListing => listing'[l] = listing[l])
  <2>1. CASE l \in new
    <3>1. ids[l] \in Ids /\ listing[l] = NoListing
      BY <2>1 DEF Added, Exists
    <3>2. QED
      BY <1>3, <2>1, <3>1 DEF ListingRow
  <2>2. CASE l \notin new
    BY <1>1, <1>3, <2>2
  <2>3. QED
    BY <2>1, <2>2
<1> DEFINE Bare == {k \in Demo : Exists(k) /\ playbook[k] = NoPlaybook}
<1>5. PICK nums \in Added(playbook, Bare) :
          playbook' = [k \in Listings |->
              IF k \in Bare THEN [id |-> nums[k], state |-> "enabled", blocks |-> Starter]
              ELSE playbook[k]]
  BY DEF Restart
<1>6. \/ playbook'[l] = playbook[l]
      \/ playbook[l] = NoPlaybook /\ playbook'[l].blocks = Starter /\ playbook'[l] \in PlaybookRow
  <2>1. CASE l \in Bare
    <3>1. nums[l] \in Ids /\ playbook[l] = NoPlaybook
      BY <2>1 DEF Added
    <3>2. playbook'[l] = [id |-> nums[l], state |-> "enabled", blocks |-> Starter]
      BY <1>5, <2>1
    <3>3. QED
      BY <3>1, <3>2, RowTypes
  <2>2. CASE l \notin Bare
    BY <1>5, <2>2
  <2>3. QED
    BY <2>1, <2>2
<1>7. QED
  BY <1>4, <1>6

\* After a restart no request of the dashboard goes on; the parts that were sent stay sent.
LEMMA RestartStep ==
    ASSUME ListingInv, Restart
    PROVE  ListingInv'
<1>1. TypeOK /\ ReplyInv /\ PlaybookInv /\ Delivered(reply)
  BY DEF ListingInv
<1>2. Operate /\ pending' \subseteq pending /\ UNCHANGED <<media, disk>>
  BY DEF Restart
<1>3. /\ budget' \in [replies : 0..MaxReplies, operations : 0..MaxOperations]
      /\ budget'.operations # 0
  BY <1>1, <1>2, OperateStep
<1>4. listing' \in [Listings -> ListingRow]
  <2>1. listing' = [l \in Listings |-> listing'[l]]
    BY DEF Restart
  <2>2. \A l \in Listings : listing'[l] \in ListingRow
    BY <1>1, RestartRows
  <2>3. QED
    BY <2>1, <2>2
<1>5. playbook' \in [Listings -> PlaybookRow] /\ \A l \in Listings : Accepted(playbook'[l].blocks)
  <2>1. playbook' = [l \in Listings |-> playbook'[l]]
    BY DEF Restart
  <2>2. \A l \in Listings : playbook[l] \in PlaybookRow /\ Accepted(playbook[l].blocks)
    BY <1>1 DEF TypeOK, PlaybookInv
  <2>3. \A l \in Listings : playbook'[l] \in PlaybookRow /\ Accepted(playbook'[l].blocks)
    BY <1>1, <2>2, RestartRows, AcceptedBlocks
  <2>4. QED
    BY <2>1, <2>3
<1>6. /\ reply' \in Reply /\ reply'.pc = "idle"
      /\ reply'.parts = reply.parts /\ reply'.files = reply.files /\ reply'.next = reply.next
      /\ reply'.queue = reply.queue /\ reply'.sent = reply.sent
      /\ reply'.mediaSent = reply.mediaSent
      /\ reply'.outcome \in {"crashed", reply.outcome}
  <2> DEFINE result == IF reply.pc = "idle" THEN reply.outcome ELSE "crashed"
             after == [reply EXCEPT !.pc = "idle", !.locked = FALSE, !.outcome = result]
  <2>1. reply' = after
    BY DEF Restart
  <2>2. reply \in Reply
    BY <1>1 DEF TypeOK
  <2>3. result \in Outcome /\ result \in {"crashed", reply.outcome}
    BY <2>2 DEF Reply, Outcome
  <2> HIDE DEF result
  <2>4. /\ after \in Reply /\ after.pc = "idle" /\ after.outcome = result
        /\ after.parts = reply.parts /\ after.files = reply.files /\ after.next = reply.next
        /\ after.queue = reply.queue /\ after.sent = reply.sent
        /\ after.mediaSent = reply.mediaSent
    BY <2>2, <2>3 DEF Reply
  <2> HIDE DEF after
  <2>5. QED
    BY <2>1, <2>3, <2>4
<1>7. TypeOK'
  BY <1>1, <1>2, <1>3, <1>4, <1>5, <1>6 DEF TypeOK
<1>8. ReplyInv' /\ RowsStandBehindReply' /\ FilesAreThere'
  BY <1>6 DEF ReplyInv, RowsStandBehindReply, FilesAreThere
<1>9. PlaybookInv' /\ FilesInv'
  BY <1>1, <1>2, <1>3, <1>5 DEF PlaybookInv, FilesInv
<1>10. Delivered(reply')
  <2>1. PICK g : Sums(g, Pieces(reply.parts, reply.files), Block \cup Files) /\ SentUpTo(g, reply)
    BY <1>1 DEF Delivered
  <2>2. SentUpTo(g, reply')
    BY <1>6, <2>1 DEF SentUpTo
  <2>3. QED
    BY <1>6, <2>1, <2>2 DEF Delivered
<1>11. QED
  BY <1>7, <1>8, <1>9, <1>10 DEF ListingInv

-----------------------------------------------------------------------------
(***************************************************************************)
(* The theorems.                                                           *)
(***************************************************************************)

\* The invariant is inductive.
LEMMA InductiveInv ==
    ASSUME ListingInv, [Next]_vars
    PROVE  ListingInv'
<1>1. CASE UNCHANGED vars
  <2>1. UNCHANGED <<listing, playbook, media, disk, pending, reply, budget>>
    BY <1>1 DEF vars
  <2>2. /\ TypeOK' = TypeOK /\ ReplyInv' = ReplyInv /\ PlaybookInv' = PlaybookInv
        /\ FilesInv' = FilesInv /\ FilesAreThere' = FilesAreThere
    BY <2>1 DEF TypeOK, ReplyInv, PlaybookInv, FilesInv, FilesAreThere, BridgeFinds
  <2>3. RowsStandBehindReply' = RowsStandBehindReply
    BY <2>1 DEF RowsStandBehindReply, GalleryOf, Gallery
  <2>4. QED
    BY <2>1, <2>2, <2>3 DEF ListingInv
<1>2. ASSUME NEW l \in Listings,
             Match(l) \/ BeginSaveListing(l) \/ BeginSavePlaybook(l) \/ BeginSeedPlaybook(l)
      PROVE  ListingInv'
  BY <1>2, MatchStep, BeginSaveListingStep, BeginSavePlaybookStep, BeginSeedPlaybookStep
<1>3. ASSUME NEW those \in SUBSET Listings, BeginDelete(those) \/ BeginPrune(those)
      PROVE  ListingInv'
  BY <1>3, BeginDeleteStep, BeginPruneStep
<1>4. CASE ListingManualReview \/ ListingAvailable \/ PlanNothing \/ SendGated
           \/ CannotRender \/ RenderReply
  BY <1>4, ListingManualReviewStep, ListingAvailableStep, NoReplyStep, RenderReplyStep
<1>5. CASE SendText \/ Wait \/ OpenGallery \/ SendMedia \/ SendFails \/ SendEnds
  BY <1>5, SendTextStep, WaitStep, OpenGalleryStep, SendMediaStep, SendEndStep
<1>6. ASSUME NEW f \in Files, BeginSaveMedia(f) \/ StoreUpload(f) \/ UnlinkMedia(f)
      PROVE  ListingInv'
  BY <1>6, BeginMediaStep
<1>7. ASSUME NEW request \in pending,
             \/ WriteListing(request) \/ WritePlaybook(request) \/ WriteMedia(request)
             \/ LookUpAgain(request) \/ DeleteRows(request)
      PROVE  ListingInv'
  BY <1>7, WriteListingStep, WritePlaybookStep, WriteMediaStep, LookUpAgainStep, DeleteRowsStep
<1>8. CASE Restart
  BY <1>8, RestartStep
<1>9. QED
  BY <1>1, <1>2, <1>3, <1>4, <1>5, <1>6, <1>7, <1>8 DEF Next

\* The invariant holds in every state.
THEOREM ListingInvariance == Spec => []ListingInv
<1>1. ListingInv /\ [Next]_vars => ListingInv'
  BY InductiveInv
<1>2. QED
  BY <1>1, InitInv, PTL DEF Spec

\* Every variable has its type.
THEOREM TypeCorrect == Spec => []TypeOK
<1>1. ListingInv => TypeOK
  BY DEF ListingInv
<1>2. QED
  BY <1>1, ListingInvariance, PTL

\* The first of three sequences is a beginning of them all.
LEMMA PrefixOfConcats ==
    ASSUME NEW S, NEW s \in Seq(S), NEW t \in Seq(S), NEW u \in Seq(S)
    PROVE  IsPrefix(s, (s \o t) \o u)
<1>1. (s \o t) \o u = s \o (t \o u)
  BY ConcatAssociative
<1>2. t \o u \in Seq(S)
  BY ConcatProperties
<1>3. QED
  BY <1>1, <1>2, PrefixOfConcat

\* What begins one of the sums is a beginning of the last one.
LEMMA BeginsSums ==
    ASSUME NEW S, NEW pieces \in Seq(Seq(S)), NEW g, Sums(g, pieces, S),
           NEW k \in 0..Len(pieces), NEW sent \in Seq(S), NEW queue \in Seq(S),
           sent \o queue = g[k]
    PROVE  IsPrefix(sent, g[Len(pieces)])
<1>1. PICK rest \in Seq(S) : g[Len(pieces)] = g[k] \o rest
  BY SumsArePrefixes
<1>2. IsPrefix(sent, (sent \o queue) \o rest)
  BY PrefixOfConcats
<1>3. QED
  BY <1>1, <1>2

\* What was sent is a beginning of what there is to send.
LEMMA SentIsPrefix ==
    ASSUME NEW r, r.parts \in Seq(Block), r.files \in Seq(Files), r.queue \in Seq(Files),
           r.sent \in Seq(Block \cup Files), Delivered(r)
    PROVE  /\ IsPrefix(r.sent, Deliveries(r.parts, r.files))
           /\ r.outcome = "sent" => r.sent = Deliveries(r.parts, r.files)
<1> DEFINE pieces == Pieces(r.parts, r.files)
           whole == Deliveries(r.parts, r.files)
           sent == r.sent
           queue == r.queue
           k == r.next - 1
<1>1. sent \in Seq(Block \cup Files) /\ queue \in Seq(Block \cup Files)
  BY SeqMonotonic
<1>2. pieces \in Seq(Seq(Block \cup Files)) /\ Len(pieces) = Len(r.parts)
  BY PiecesType
<1>3. PICK g : Sums(g, pieces, Block \cup Files) /\ SentUpTo(g, r)
  BY DEF Delivered
<1>4. /\ r.next \in 1..(Len(r.parts) + 1) /\ Len(r.parts) \in Nat
      /\ sent \o queue = g[k] /\ g[Len(r.parts)] = whole
      /\ r.outcome = "sent" => queue = << >> /\ r.next = Len(r.parts) + 1
  BY <1>3 DEF SentUpTo
<1>5. k \in 0..Len(pieces)
  BY <1>2, <1>4
<1>6. g[Len(pieces)] = whole
  BY <1>2, <1>4
<1>7. r.outcome = "sent" => k = Len(r.parts)
  BY <1>4
<1> HIDE DEF pieces, whole, sent, queue, k
<1>8. IsPrefix(sent, whole)
  <2>1. IsPrefix(sent, g[Len(pieces)])
    BY <1>1, <1>2, <1>3, <1>4, <1>5, BeginsSums
  <2>2. QED
    BY <1>6, <2>1
<1>9. ASSUME r.outcome = "sent" PROVE sent = whole
  <2>1. sent \o << >> = whole
    BY <1>4, <1>7, <1>9
  <2>2. QED
    BY <1>1, <2>1, ConcatEmptySeq
<1>10. QED
  BY <1>8, <1>9 DEF sent, whole

\* The tenant gets a beginning of the Playbook, in its order and with the gallery
\* once (_send_action), and all of it when the reply is called sent.
THEOREM PlaybookInOrder == Spec => []SentInPlaybookOrder
<1>1. ListingInv => SentInPlaybookOrder
  BY SentIsPrefix DEF ListingInv, TypeOK, Reply, SentInPlaybookOrder
<1>2. QED
  BY <1>1, ListingInvariance, PTL

\* While a reply is sent, however long it waits between its parts, the rows it
\* was made from stand; a file it needs was there when the sending began, where
\* the backend looks (actions.py, _sendable_property_media).
THEOREM RepliesAreBacked == Spec => []ReplyIsBacked
<1>1. ListingInv => ReplyIsBacked
  BY DEF ListingInv, ReplyIsBacked
<1>2. QED
  BY <1>1, ListingInvariance, PTL

\* How a reply can come to be refused or not attempted.
LEMMA SilentSteps ==
    ASSUME ListingInv, Next, reply.pc = "plan",
           reply'.outcome \in {"unrenderable", "not_attempted", "media_missing", "empty"}
    PROVE  /\ reply'.outcome = "unrenderable" => CannotRender
           /\ reply'.outcome = "not_attempted" => PlanNothing
           /\ reply'.outcome \in {"media_missing", "empty"} => RenderReply
<1>1. reply \in Reply /\ reply.outcome = "none"
  BY DEF ListingInv, TypeOK, ReplyInv
<1>2. reply' # reply
  BY <1>1
<1>3. CASE \/ ListingManualReview \/ ListingAvailable
           \/ SendText \/ Wait \/ OpenGallery \/ SendMedia \/ SendFails \/ SendEnds
  BY <1>3 DEF ListingManualReview, ListingAvailable, SendText, Wait, OpenGallery, SendMedia,
              SendFails, SendEnds, Sending
<1>4. CASE PlanNothing
  BY <1>1, <1>4 DEF PlanNothing, End, Reply
<1>5. CASE SendGated
  BY <1>1, <1>5 DEF SendGated, End, Reply
<1>6. CASE CannotRender
  BY <1>1, <1>6 DEF CannotRender, End, Reply
<1>7. CASE RenderReply
  <2>1. reply'.outcome \in {"none", "empty", "media_missing"}
    BY <1>1, <1>7 DEF RenderReply, End, Reply
  <2>2. QED
    BY <1>7, <2>1
<1>8. CASE Restart
  BY <1>1, <1>8 DEF Restart, Reply
<1>9. ASSUME NEW l \in Listings,
             Match(l) \/ BeginSaveListing(l) \/ BeginSavePlaybook(l) \/ BeginSeedPlaybook(l)
      PROVE  FALSE
  BY <1>2, <1>9 DEF Match, BeginSaveListing, BeginSavePlaybook, BeginSeedPlaybook
<1>10. ASSUME NEW those \in SUBSET Listings, BeginDelete(those) \/ BeginPrune(those)
       PROVE  FALSE
  BY <1>2, <1>10 DEF BeginDelete, BeginPrune
<1>11. ASSUME NEW f \in Files, BeginSaveMedia(f) \/ StoreUpload(f) \/ UnlinkMedia(f)
       PROVE  FALSE
  BY <1>2, <1>11 DEF BeginSaveMedia, StoreUpload, UnlinkMedia
<1>12. ASSUME NEW request \in pending,
              \/ WriteListing(request) \/ WritePlaybook(request) \/ WriteMedia(request)
              \/ LookUpAgain(request) \/ DeleteRows(request)
       PROVE  FALSE
  BY <1>2, <1>12 DEF WriteListing, WritePlaybook, WriteMedia, LookUpAgain, DeleteRows
<1>13. QED
  BY <1>3, <1>4, <1>5, <1>6, <1>7, <1>8, <1>9, <1>10, <1>11, <1>12 DEF Next

\* Blocks that render to nothing are all notes.
LEMMA NothingButNotes ==
    ASSUME NEW blocks \in Seq(Block), blocks # << >>, NEW details,
           Render(blocks, details) = << >>
    PROVE  ToSet(blocks) = {"notes"}
<1> DEFINE S == IF details.notes THEN Block ELSE Block \ {"notes"}
<1>1. Among(blocks, S) = << >>
  BY DEF Render
<1>2. \A i \in 1..Len(blocks) : blocks[i] \notin S
  BY <1>1, AmongNone
<1>3. \A i \in 1..Len(blocks) : blocks[i] = "notes"
  BY <1>2
<1>4. 1 \in 1..Len(blocks)
  OBVIOUS
<1>5. QED
  BY <1>3, <1>4 DEF ToSet

\* What leaves a planned reply unsent, the doctor being content.
LEMMA ForeseenSilence ==
    ASSUME ListingInv, Next, reply.pc = "plan",
           listing[reply.listing].status = "available", StrictDoctorPasses
    PROVE  /\ reply'.outcome = "not_attempted" => playbook[reply.listing].blocks = << >>
           /\ reply'.outcome = "empty" => ToSet(playbook[reply.listing].blocks) = {"notes"}
           /\ reply'.outcome = "media_missing" =>
                 \E f \in Files : /\ ListingOf[f] = reply.listing /\ media[f].state = "enabled"
                                  /\ Spelling[f] # "absolute"
<1>1. reply.listing \in Listings /\ reply \in Reply /\ reply.outcome = "none"
  BY DEF ListingInv, TypeOK, Reply, ReplyInv
<1>2. ASSUME reply'.outcome = "not_attempted" PROVE playbook[reply.listing].blocks = << >>
  <2>1. ~HasPlaybookAction(reply.listing)
    BY <1>2, SilentSteps DEF PlanNothing
  <2>2. playbook[reply.listing].state = "enabled"
    BY <1>1 DEF StrictDoctorPasses, CoveragePasses, EnabledPlaybookCovers
  <2>3. QED
    BY <2>1, <2>2 DEF HasPlaybookAction
<1>3. ASSUME reply'.outcome = "empty" PROVE ToSet(playbook[reply.listing].blocks) = {"notes"}
  <2>1. RenderReply
    BY <1>3, SilentSteps
  <2>2. PICK details : Render(playbook[reply.listing].blocks, details) = << >>
    BY <1>1, <1>3, <2>1 DEF RenderReply, End, Reply
  <2>3. playbook[reply.listing].blocks # << >>
    BY <2>1 DEF RenderReply, Planned, HasPlaybookAction
  <2>4. playbook[reply.listing].blocks \in Seq(Block)
    BY <1>1, RowFields DEF ListingInv, TypeOK
  <2>5. QED
    BY <2>2, <2>3, <2>4, NothingButNotes
<1>4. ASSUME reply'.outcome = "media_missing"
      PROVE  \E f \in Files : /\ ListingOf[f] = reply.listing /\ media[f].state = "enabled"
                              /\ Spelling[f] # "absolute"
  <2>1. RenderReply
    BY <1>4, SilentSteps
  <2>2. PICK parts : parts # << >> /\ MissingMedia(parts)
    BY <1>1, <1>4, <2>1 DEF RenderReply, End, Reply
  <2>3. PICK f \in ToSet(GalleryOf(reply.listing, parts)) : ~BackendFinds(f)
    BY <2>2 DEF MissingMedia
  <2>4. f \in Files /\ ListingOf[f] = reply.listing /\ media[f].state = "enabled"
    BY <2>3, GalleryType
  <2>5. f \in disk
    BY <2>4 DEF StrictDoctorPasses, MediaPasses, DoctorFinds
  <2>6. QED
    BY <2>3, <2>4, <2>5 DEF BackendFinds
<1>5. QED
  BY <1>2, <1>3, <1>4

\* Nothing but a malformed text of the Playbook, which the validation lets
\* through, makes rendering fail, and when the strict doctor is content
\* (readiness.py), only blocks that come to nothing or a path that the backend
\* takes differently (media_storage.py) leave an available listing without a reply.
THEOREM SilenceForeseen == Spec => SilenceIsForeseen
<1> DEFINE Renders ==
               reply.pc = "plan" /\ reply'.outcome = "unrenderable" =>
                   Contains(playbook[reply.listing].blocks, "malformed")
           Foresees ==
               /\ reply.pc = "plan" /\ listing[reply.listing].status = "available"
               /\ StrictDoctorPasses
               => /\ reply'.outcome = "not_attempted" => playbook[reply.listing].blocks = << >>
                  /\ reply'.outcome = "empty" => ToSet(playbook[reply.listing].blocks) = {"notes"}
                  /\ reply'.outcome = "media_missing" =>
                        \E f \in Files :
                            /\ ListingOf[f] = reply.listing /\ media[f].state = "enabled"
                            /\ Spelling[f] # "absolute"
<1>1. ListingInv /\ [Next]_vars => [Renders]_vars
  <2> SUFFICES ASSUME ListingInv, Next, reply.pc = "plan", reply'.outcome = "unrenderable"
               PROVE  Contains(playbook[reply.listing].blocks, "malformed")
    OBVIOUS
  <2>1. CannotRender
    BY SilentSteps
  <2>2. reply.listing \in Listings /\ Accepted(playbook[reply.listing].blocks)
    BY DEF ListingInv, TypeOK, Reply, PlaybookInv
  <2>3. RenderFails(playbook[reply.listing].blocks)
    BY <2>1 DEF CannotRender
  <2>4. playbook[reply.listing].blocks \in Seq(Block)
    BY <2>2, RowFields DEF ListingInv, TypeOK
  <2>5. QED
    BY <2>2, <2>3, <2>4 DEF RenderFails, Accepted, Contains
<1>2. ListingInv /\ [Next]_vars => [Foresees]_vars
  BY ForeseenSilence
<1>3. QED
  BY <1>1, <1>2, ListingInvariance, PTL
     DEF Spec, SilenceIsForeseen, AcceptedPlaybooksRender, DoctorForeseesSilence

\* Which steps touch the rows of listings and of Playbooks.
LEMMA RowSteps ==
    ASSUME Next
    PROVE  \/ \E request \in pending : WriteListing(request) /\ playbook' = playbook
           \/ \E request \in pending : WritePlaybook(request) /\ listing' = listing
           \/ \E request \in pending : DeleteRows(request)
           \/ Restart
           \/ UNCHANGED <<listing, playbook>>
<1>1. ASSUME NEW l \in Listings,
             Match(l) \/ BeginSaveListing(l) \/ BeginSavePlaybook(l) \/ BeginSeedPlaybook(l)
      PROVE  UNCHANGED <<listing, playbook>>
  BY <1>1 DEF Match, BeginSaveListing, BeginSavePlaybook, BeginSeedPlaybook
<1>2. ASSUME NEW those \in SUBSET Listings, BeginDelete(those) \/ BeginPrune(those)
      PROVE  UNCHANGED <<listing, playbook>>
  BY <1>2 DEF BeginDelete, BeginPrune
<1>3. ASSUME NEW f \in Files, BeginSaveMedia(f) \/ StoreUpload(f) \/ UnlinkMedia(f)
      PROVE  UNCHANGED <<listing, playbook>>
  BY <1>3 DEF BeginSaveMedia, StoreUpload, UnlinkMedia
<1>4. ASSUME NEW request \in pending, WriteMedia(request) \/ LookUpAgain(request)
      PROVE  UNCHANGED <<listing, playbook>>
  BY <1>4 DEF WriteMedia, LookUpAgain
<1>5. ReplyOnly => UNCHANGED <<listing, playbook>>
  BY DEF ReplyOnly
<1>6. ListingManualReview \/ ListingAvailable \/ PlanNothing \/ SendGated
      \/ CannotRender \/ RenderReply => ReplyOnly
  BY DEF ListingManualReview, ListingAvailable, PlanNothing, SendGated, CannotRender, RenderReply
<1>7. SendText \/ Wait \/ OpenGallery \/ SendMedia \/ SendFails \/ SendEnds => ReplyOnly
  BY DEF SendText, Wait, OpenGallery, SendMedia, SendFails, SendEnds
<1>8. \A request \in pending : /\ WriteListing(request) => playbook' = playbook
                               /\ WritePlaybook(request) => listing' = listing
  BY DEF WriteListing, WritePlaybook
<1>9. QED
  BY <1>1, <1>2, <1>3, <1>4, <1>5, <1>6, <1>7, <1>8 DEF Next

\* A save leaves a listing that is there.
LEMMA WritesLeaveListings ==
    ASSUME TypeOK, NEW request \in pending, WriteListing(request), NEW l \in Listings, Exists(l)
    PROVE  Exists(l)'
<1>1. listing \in [Listings -> ListingRow] /\ listing[l].id \in Ids
  BY RowIds DEF TypeOK, Exists
<1>2. listing'[l].id \in Ids
  <2>1. CASE listing' = listing
    BY <1>1, <2>1
  <2>2. CASE InsertListing(request.listing, request.row)
    BY <1>1, <2>2 DEF InsertListing
  <2>3. CASE UpdateListing(request.was, request.row)
    <3> DEFINE status == Column(listing[l].status, request.was.status, request.row.status)
               notes == Column(listing[l].notes, request.was.notes, request.row.notes)
    <3>1. listing'[l] = IF listing[l].id # request.was.id THEN listing[l]
                        ELSE [listing[l] EXCEPT !.status = status, !.notes = notes]
      BY <2>3 DEF UpdateListing
    <3> HIDE DEF status, notes
    <3>2. listing[l] \in [id : Ids, status : {"available", "unavailable", "unknown", "other"},
                          notes : BOOLEAN]
      BY <1>1, RowIds DEF ListingRow, Exists
    <3>3. [listing[l] EXCEPT !.status = status, !.notes = notes].id = listing[l].id
      BY <3>2
    <3>4. QED
      BY <1>1, <3>1, <3>3
  <2>4. QED
    BY <2>1, <2>2, <2>3 DEF WriteListing
<1>3. QED
  BY <1>2, RowIds DEF Exists

\* A row without a listing appears only by a late write of a request that saw the
\* listing, or by a Playbook or media row that is made after the deletion has
\* looked (services.py, delete_properties).
THEOREM OrphansOnlyRaces == Spec => OrphansOnlyFromRaces
<1> DEFINE Left(l, request) ==
               /\ request.op = "delete" /\ listing[l].id \in request.listings
               /\ \/ playbook[l] # NoPlaybook /\ playbook[l].id \notin request.playbooks
                  \/ \E f \in MediaRows(l) : media[f].id \notin request.media
           Raced == \A l \in Listings : ~Orphan(l) /\ Orphan(l)' =>
                        \/ ~Exists(l)
                        \/ \E request \in pending \ pending' : Left(l, request)
<1>1. ListingInv /\ [Next]_vars => [Raced]_vars
  <2> SUFFICES ASSUME ListingInv, Next, NEW l \in Listings, Exists(l), Orphan(l)'
               PROVE  \E request \in pending \ pending' : Left(l, request)
    OBVIOUS
  <2>1. /\ TypeOK /\ listing \in [Listings -> ListingRow] /\ listing[l] # NoListing
        /\ listing[l].id \in Ids /\ ~Exists(l)'
    BY RowIds DEF ListingInv, TypeOK, Exists, Orphan
  <2>2. CASE \E request \in pending : DeleteRows(request)
    <3>1. PICK request \in pending : DeleteRows(request)
      BY <2>2
    <3>2. /\ request \notin pending' /\ request.op \in {"delete", "prune", "unlinked"}
          /\ Delete(request)
      BY <2>1, <3>1 DEF DeleteRows, Exists
    <3>3. /\ listing' = [k \in DOMAIN listing |->
                 IF listing[k].id \in request.listings THEN NoListing ELSE listing[k]]
          /\ playbook' = [k \in DOMAIN playbook |->
                 IF playbook[k].id \in request.playbooks THEN NoPlaybook ELSE playbook[k]]
          /\ media' = [f \in DOMAIN media |->
                 IF media[f].id \in request.media THEN NoMedia ELSE media[f]]
      BY <3>2 DEF Delete, WithoutIds
    <3>4. listing[l].id \in request.listings
      BY <2>1, <3>3 DEF Exists
    <3>5. request.op = "delete"
      BY <2>1, <3>2, <3>4 DEF TypeOK, Pending
    <3>6. CASE playbook'[l] # NoPlaybook
      <4>1. playbook[l] # NoPlaybook /\ playbook[l].id \notin request.playbooks
        BY <2>1, <3>3, <3>6 DEF TypeOK
      <4>2. QED
        BY <3>2, <3>4, <3>5, <4>1
    <3>7. CASE MediaRows(l)' # {}
      <4>1. PICK f \in Files : ListingOf[f] = l /\ media'[f] # NoMedia
        BY <3>7 DEF MediaRows
      <4>2. media[f] # NoMedia /\ media[f].id \notin request.media
        BY <2>1, <3>3, <4>1 DEF TypeOK
      <4>3. f \in MediaRows(l)
        BY <4>1, <4>2 DEF MediaRows
      <4>4. QED
        BY <3>2, <3>4, <3>5, <4>2, <4>3
    <3>8. QED
      BY <3>6, <3>7 DEF Orphan
  <2>3. CASE \E request \in pending : WriteListing(request)
    BY <2>1, <2>3, WritesLeaveListings
  <2>4. CASE Restart
    BY <2>1, <2>4, RestartRows DEF Exists
  <2>5. CASE listing' = listing
    BY <2>1, <2>5 DEF Exists
  <2>6. QED
    BY <2>2, <2>3, <2>4, <2>5, RowSteps
<1>2. QED
  BY <1>1, ListingInvariance, PTL DEF Spec, OrphansOnlyFromRaces

\* The starter Playbook of a command or of a start is only put where there is none
\* (playbooks.py, ensure_starter_property_playbook); the row of a Playbook changes
\* by the operator's save alone, column by column.
THEOREM StarterReplacesNothing == Spec => StarterNeverReplaces
<1> DEFINE Saved(l) ==
               /\ playbook'[l].id = playbook[l].id
               /\ \E request \in pending \ pending' :
                     /\ request.op = "save"
                     /\ playbook'[l].state \in {playbook[l].state, request.row.state}
                     /\ playbook'[l].blocks \in {playbook[l].blocks, request.row.blocks}
           AllSaved == \A l \in Listings :
               playbook[l] # NoPlaybook /\ playbook'[l] \notin {playbook[l], NoPlaybook} => Saved(l)
<1>1. ListingInv /\ [Next]_vars => [AllSaved]_vars
  <2> SUFFICES ASSUME ListingInv, Next, NEW l \in Listings, playbook[l] # NoPlaybook,
                      playbook'[l] \notin {playbook[l], NoPlaybook}
               PROVE  Saved(l)
    OBVIOUS
  <2>1. TypeOK /\ PlaybookInv /\ playbook \in [Listings -> PlaybookRow]
    BY DEF ListingInv, TypeOK
  <2>2. CASE playbook' = playbook
    BY <2>2
  <2>3. CASE \E request \in pending : WritePlaybook(request)
    <3>1. PICK request \in pending : WritePlaybook(request)
      BY <2>3
    <3>2. request \notin pending'
      BY <3>1 DEF WritePlaybook
    <3>3. QED
      BY <2>1, <3>1, <3>2, WrittenPlaybooks
  <2>4. CASE \E request \in pending : DeleteRows(request)
    <3>1. PICK request \in pending : playbook' = WithoutIds(playbook, request.playbooks, NoPlaybook)
      BY <2>4 DEF DeleteRows, Delete
    <3>2. QED
      BY <2>1, <3>1 DEF WithoutIds
  <2>5. CASE Restart
    BY <2>1, <2>5, RestartRows
  <2>6. QED
    BY <2>2, <2>3, <2>4, <2>5, RowSteps
<1>2. QED
  BY <1>1, ListingInvariance, PTL DEF Spec, StarterNeverReplaces

=============================================================================
